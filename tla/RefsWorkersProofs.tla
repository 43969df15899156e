-------------------------- MODULE RefsWorkersProofs --------------------------
(* Machine-checked proofs about RefsWorkers, for every finite set of requests *)
(* and every value of the other constants that RefsAssumption allows.         *)
EXTENDS RefsWorkers, FiniteSetTheorems, TLAPS

-----------------------------------------------------------------------------
(* The inductive invariant *)

\* The sets of the type invariant are named so that the provers need not look
\* into them.
Places == AcquireSteps \cup UndoSteps \cup Held \cup Ended \cup {"release"}
Contents == {"none", "valid", "corrupt"}
Trees == {"none", "whole", "torn"}
Holders == Requests \cup {None}
Slots == Journals \cup {None}
Baselines == [state : {"valid", "corrupt", "missing"}, gen : Nat]
KeeperPlaces == {"idle", "resolve", "lock", "mark", "check", "rename", "unmark",
                 "unlock", "delete", "build", "leave"}

RequestType ==
    /\ pc \in [Requests -> Places]
    /\ used \in [Requests -> Nat] /\ names \in [Requests -> SUBSET LeaseIds]
    /\ gen \in [Requests -> Nat] /\ done \in [Requests -> 0..6]
    /\ reported \in [Requests -> BOOLEAN] /\ content \in [Requests -> Contents]
DiskType ==
    /\ journal \in [LeaseIds -> Slots]
    /\ staging \in [Requests -> BOOLEAN] /\ junction \in [Requests -> BOOLEAN]
    /\ quarantine \in [Requests -> Trees]
    /\ worker \in [LeaseIds -> Holders] /\ marker \in [LeaseIds -> Holders]
    /\ bytes \in [Requests -> 0..1]
LocksType ==
    /\ reservation \in Requests \cup {None}
    /\ coord \in Requests \cup {None, Keeper} /\ creation \in {None, Keeper}
    /\ mutation \in BOOLEAN
KeeperType ==
    /\ base \in Baselines /\ discarded \in Nat
    /\ kpc \in KeeperPlaces /\ kop \in {"ensure", "clear"} /\ kfailed \in BOOLEAN
    /\ kops \in Nat
BoundsType ==
    /\ faults \in 0..MaxFaults /\ corruptions \in 0..MaxCorruptions
    /\ crashes \in 0..MaxCrashes
PlanType == \E plan \in Plans : leaseOf = plan.leaseOf /\ budget = plan.budget

\* Where a request has the reservation lock, where its clone is being made, where
\* it has a marker, a tree that takes room, and a journal of its own.
Locked    == {"measure", "list", "reserve", "unlock"}
Cloning   == {"paths", "cloning", "stage", "clone", "commit", "verify", "link", "ready"}
Marked    == Cloning \cup {"undoLink", "undoTree", "undoUse"} \cup Held
Filled    == {"commit", "verify", "link", "ready", "undoLink", "undoTree", "release"}
             \cup Held
Journaled == {"resolve", "coord", "use", "uncoord"} \cup Cloning \cup UndoSteps
             \cup Held \cup {"release"}

\* A release that has not got past a milestone.
Before(r, milestone) == pc[r] = "release" /\ done[r] < milestone

\* Who is between a lock and its release made that lock.
HoldsLocks(r) ==
    /\ pc[r] \in Locked => reservation = r
    /\ pc[r] \in {"use", "uncoord"} => coord = r
KeeperHoldsLock ==
    kpc \in {"mark", "check", "rename", "unmark", "unlock"} => coord = Keeper

\* A journal lies at the lease its owner asked for; a request at work has one, and
\* nobody else has it: the list that was made under the lock is still complete.
JournalInPlace == \A l \in LeaseIds : journal[l] # None => leaseOf[journal[l].owner] = l
HasJournal(r) == pc[r] \in Journaled => Owns(r)
Listed(r) == pc[r] = "reserve" => \A l \in LeaseIds : journal[l] # None => l \in names[r]

\* Clear deletes what it quarantined: a quarantine that did not fail left a tree.
DeletesOne ==
    kpc = "delete" \/ (kpc \in {"unmark", "unlock"} /\ ~kfailed) => discarded > 0

\* A request that uses the baseline has its marker, and no baseline is renamed
\* while there is one.
HasMarker(r) == pc[r] \in Marked \/ Before(r, 5) => marker[leaseOf[r]] = r
RenameIsAlone == kpc = "rename" => \A l \in LeaseIds : marker[l] = None
HasBaseline(r) ==
    Uses(r) \/ (pc[r] = "uncoord" /\ marker[leaseOf[r]] = r)
        => base.state # "missing" /\ base.gen = gen[r]

\* What was cloned is valid if the baseline still is: a baseline that was hurt
\* does not mend without a build.
CloneIsValid(r) ==
    /\ pc[r] \in {"commit", "verify"} /\ base.state = "valid" => content[r] = "valid"
    /\ pc[r] \in {"link", "ready"} \cup Held => content[r] = "valid"

\* Where the tree, the junction and the journal of a request are.
TreeInPlace(r) ==
    /\ pc[r] \in {"verify", "link", "ready", "undoLink"} \cup Held
           => worker[leaseOf[r]] = r
    /\ pc[r] \in {"ready", "undoLink"} \cup Held => junction[r]
    /\ pc[r] \in Held => Journal(r).state \in {"ready", "running"}
    /\ pc[r] \notin {"release", "released", "dead"} => done[r] = 0 /\ quarantine[r] = "none"
    /\ pc[r] = "released" => quarantine[r] = "none"
ReleaseInPlace(r) ==
    pc[r] = "release" =>
        /\ done[r] < 2 => worker[leaseOf[r]] = r /\ quarantine[r] = "none"
        /\ done[r] = 2 => \/ worker[leaseOf[r]] = r /\ quarantine[r] = "none"
                          \/ quarantine[r] = "whole"
        /\ done[r] = 3 => quarantine[r] # "none"
        /\ done[r] > 3 => quarantine[r] = "none"
ReportsFailure(r) == reported[r] => pc[r] \in UndoSteps \cup {"failed", "dead"}

\* What a request has on the pool is where it can only be as long as the request
\* is there, is dead, or said that it could not take it away.
Excused(r) == reported[r] \/ pc[r] = "dead"
LocksAccounted(r) ==
    /\ reservation = r => Excused(r) \/ pc[r] \in Locked
    /\ coord = r => Excused(r) \/ pc[r] \in {"use", "uncoord"}
TreeAccounted(r) ==
    /\ staging[r] => Excused(r) \/ pc[r] \in {"clone", "commit", "undoTree"}
    /\ junction[r] => Excused(r) \/ Before(r, 2) \/ pc[r] \in {"ready", "undoLink"} \cup Held
    /\ \A l \in LeaseIds : worker[l] = r =>
           /\ l = leaseOf[r]
           /\ \/ Excused(r) \/ Before(r, 3)
              \/ pc[r] \in {"verify", "link", "ready", "undoLink", "undoTree"} \cup Held
RecordsAccounted(r) ==
    /\ \A l \in LeaseIds : marker[l] = r =>
           l = leaseOf[r] /\ (Excused(r) \/ Before(r, 5) \/ pc[r] \in Marked \cup {"uncoord"})
    /\ Owns(r) => Excused(r) \/ pc[r] \in Journaled \cup {"unlock"}

RequestInv(r) ==
    /\ HoldsLocks(r) /\ HasJournal(r) /\ Listed(r) /\ HasMarker(r) /\ HasBaseline(r)
    /\ CloneIsValid(r) /\ TreeInPlace(r) /\ ReleaseInPlace(r) /\ ReportsFailure(r)
    /\ LocksAccounted(r) /\ TreeAccounted(r) /\ RecordsAccounted(r)

PoolInv ==
    /\ TypeOK
    /\ KeeperHoldsLock /\ DeletesOne /\ JournalInPlace /\ RenameIsAlone
    /\ \A r \in Requests : RequestInv(r)

\* What takes room for good, the reservations, and whether a request that takes
\* room has one.
Lasting == discarded + (IF base.state = "missing" THEN 0 ELSE 1)
Reserved == {l \in LeaseIds : journal[l] # None /\ journal[l].state # "released"}
HasReserved(r) ==
    /\ bytes[r] = 1 => reported[r] \/ (Owns(r) /\ Journal(r).state # "released")
    /\ Owns(r) /\ Journal(r).state = "released" =>
           pc[r] \in {"release", "dead"} /\ done[r] = 6
    /\ pc[r] = "release" /\ done[r] > 3 => bytes[r] = 0
    /\ bytes[r] = 1 => Excused(r) \/ pc[r] \in Filled
\* As long as no baseline was built beside the workers, what lasts only shrinks.
Measured(r) == base.gen = 0 /\ pc[r] \in {"list", "reserve"} => used[r] >= Lasting
RoomKept ==
    base.gen = 0 /\ (\E l \in LeaseIds : journal[l] # None)
        => Lasting + Cardinality(Reserved) <= budget
RoomInv == RoomKept /\ \A r \in Requests : HasReserved(r) /\ Measured(r)

-----------------------------------------------------------------------------
(* Types *)

\* The groups are the type invariant.
LEMMA TypeParts ==
  TypeOK <=> PlanType /\ RequestType /\ DiskType /\ LocksType /\ KeeperType /\ BoundsType
BY DEF TypeOK, PlanType, RequestType, DiskType, LocksType, KeeperType, BoundsType, Places,
       Contents, Trees, Holders, Slots, Baselines, KeeperPlaces

\* What the requests ask for.
LEMMA PlanShape == ASSUME PlanType PROVE leaseOf \in [Requests -> LeaseIds] /\ budget \in Nat
BY RefsAssumption DEF PlanType

\* A record is a journal, and never the value that stands for none.
LEMMA JournalShape ==
  /\ None \notin Journals /\ None \notin Requests /\ Keeper \notin Requests /\ Keeper # None
  /\ \A r \in Requests, s \in States : [owner |-> r, state |-> s] \in Journals
  /\ \A j \in Slots : j # None => j.owner \in Requests /\ j.state \in States
  /\ \A j \in Journals : j \in Slots
  /\ None \in Slots /\ None \in Holders /\ \A r \in Requests : r \in Holders
BY RefsAssumption DEF Journals, Slots, Holders

\* The states that the milestones record, and those that Acquire does.
LEMMA StateShape ==
  /\ \A i \in 1..6 : Milestones[i] \in States
  /\ {"requested", "cloning", "ready", "running", "released"} \subseteq States
  /\ \A i \in 1..5 : Milestones[i] \notin {"released", "ready", "running"}
  /\ Milestones[6] = "released"
BY DEF Milestones, States

\* What the baseline holds is what a clone of it holds.
LEMMA BaselineShape ==
  ASSUME base \in Baselines
  PROVE  /\ base.state \in {"valid", "corrupt", "missing"} /\ base.gen \in Nat
         /\ base.state # "missing" => base.state \in Contents
BY DEF Baselines, Contents

\* A request's own step leaves these to others.
LEMMA RequestFrame ==
  ASSUME NEW r \in Requests, RequestStep(r)
  PROVE  UNCHANGED <<leaseOf, budget, keeper, store, creation, mutation, corruptions,
                     crashes>>
BY
  DEF RequestStep, Acquire, Release, LockReservation, Measure, ListLeases, Reserve,
        UnlockReservation, ResolveBaseline, LockCoord, AcquireUse, UnlockCoord,
        CheckPaths, JournalCloning, CreateStaging, Clone, CommitWorker,
        VerifyAfterClone, CreateJunction, JournalReady, UndoLink, UndoTree, UndoUse,
        UndoJournal, Undo, MarkRunning, UnityEnds, StartRelease, RemoveJunction,
        QuarantineWorker, DeleteWorker, ReleaseUse, JournalReleased, RemoveJournal,
        Releasing, Reach, Mine

\* The keeper leaves the requests alone, and all they have but one lock.
LEMMA KeeperFrame ==
  ASSUME KeeperStep \/ KeeperCrash
  PROVE  UNCHANGED <<leaseOf, budget, pc, request, disk, reservation, corruptions>>
BY
  DEF KeeperStep, KeeperStart, KeeperResolve, KeeperLock, KeeperMark, KeeperCheck,
        KeeperRename, KeeperUnmark, KeeperUnlock, KeeperDelete, KeeperBuild,
        KeeperLeave, KeeperCrash, Theirs, locks

\* The places a request goes to.
LEMMA PlaceTyped ==
  ASSUME NEW r \in Requests, RequestStep(r), pc \in [Requests -> Places]
  PROVE  pc' \in [Requests -> Places]
<1> USE DEF RequestStep, Acquire, Release, LockReservation, Measure, ListLeases, Reserve,
        UnlockReservation, ResolveBaseline, LockCoord, AcquireUse, UnlockCoord,
        CheckPaths, JournalCloning, CreateStaging, Clone, CommitWorker,
        VerifyAfterClone, CreateJunction, JournalReady, UndoLink, UndoTree, UndoUse,
        UndoJournal, Undo, MarkRunning, UnityEnds, StartRelease, RemoveJunction,
        QuarantineWorker, DeleteWorker, ReleaseUse, JournalReleased, RemoveJournal,
        Releasing, Reach
<1> USE DEF Places, AcquireSteps, UndoSteps, Ended, Held
<1>1. CASE LockReservation(r) \/ Measure(r) \/ ListLeases(r) \/ Reserve(r)
          \/ UnlockReservation(r) \/ ResolveBaseline(r) \/ LockCoord(r)
          \/ AcquireUse(r) \/ UnlockCoord(r)
  BY <1>1 DEF Goto
<1>2. CASE CheckPaths(r) \/ JournalCloning(r) \/ CreateStaging(r) \/ Clone(r)
          \/ CommitWorker(r) \/ VerifyAfterClone(r) \/ CreateJunction(r) \/ JournalReady(r)
  BY <1>2 DEF Goto
<1>3. CASE UndoLink(r) \/ UndoTree(r) \/ UndoUse(r) \/ UndoJournal(r)
  BY <1>3 DEF Goto
<1>4. CASE MarkRunning(r) \/ UnityEnds(r) \/ Release(r)
  BY <1>4 DEF Goto
<1> QED
  BY <1>1, <1>2, <1>3, <1>4 DEF RequestStep, Acquire

\* What a request measured and counted.
LEMMA RequestTyped ==
  ASSUME NEW r \in Requests, RequestStep(r), RequestType, base \in Baselines, Used \in Nat
  PROVE  RequestType'
<1> USE DEF RequestStep, Acquire, Release, LockReservation, Measure, ListLeases, Reserve,
        UnlockReservation, ResolveBaseline, LockCoord, AcquireUse, UnlockCoord,
        CheckPaths, JournalCloning, CreateStaging, Clone, CommitWorker,
        VerifyAfterClone, CreateJunction, JournalReady, UndoLink, UndoTree, UndoUse,
        UndoJournal, Undo, MarkRunning, UnityEnds, StartRelease, RemoveJunction,
        QuarantineWorker, DeleteWorker, ReleaseUse, JournalReleased, RemoveJournal,
        Releasing, Reach
<1> USE BaselineShape DEF RequestType
<1>1. pc' \in [Requests -> Places]
  BY PlaceTyped
<1>2. used' \in [Requests -> Nat]
  BY DEF request
<1>3. names' \in [Requests -> SUBSET LeaseIds]
  BY DEF request
<1>4. gen' \in [Requests -> Nat]
  BY DEF request
<1>5. done' \in [Requests -> 0..6]
  BY DEF request
<1>6. reported' \in [Requests -> BOOLEAN]
  BY DEF request
<1>7. content' \in [Requests -> Contents]
  BY DEF request
<1> QED
  BY <1>1, <1>2, <1>3, <1>4, <1>5, <1>6, <1>7

\* What is written to the disk.
LEMMA DiskTyped ==
  ASSUME NEW r \in Requests, RequestStep(r), DiskType, leaseOf \in [Requests -> LeaseIds]
  PROVE  DiskType'
<1> USE DEF RequestStep, Acquire, Release, LockReservation, Measure, ListLeases, Reserve,
        UnlockReservation, ResolveBaseline, LockCoord, AcquireUse, UnlockCoord,
        CheckPaths, JournalCloning, CreateStaging, Clone, CommitWorker,
        VerifyAfterClone, CreateJunction, JournalReady, UndoLink, UndoTree, UndoUse,
        UndoJournal, Undo, MarkRunning, UnityEnds, StartRelease, RemoveJunction,
        QuarantineWorker, DeleteWorker, ReleaseUse, JournalReleased, RemoveJournal,
        Releasing, Reach
<1> USE JournalShape DEF DiskType
<1>1. journal' \in [LeaseIds -> Slots]
  <2>1. CASE Release(r)
    BY <2>1, StateShape DEF Record
  <2>2. CASE ~Release(r)
    BY <2>2, StateShape DEF disk, Record
  <2> QED
    BY <2>1, <2>2
<1>2. staging' \in [Requests -> BOOLEAN]
  BY DEF disk, RemoveTree
<1>3. junction' \in [Requests -> BOOLEAN]
  BY DEF disk
<1>4. quarantine' \in [Requests -> Trees]
  BY DEF disk, Trees
<1>5. worker' \in [LeaseIds -> Holders]
  BY DEF disk, RemoveTree
<1>6. marker' \in [LeaseIds -> Holders]
  BY DEF disk
<1>7. bytes' \in [Requests -> 0..1]
  BY DEF disk, RemoveTree
<1> QED
  BY <1>1, <1>2, <1>3, <1>4, <1>5, <1>6, <1>7

\* The steps of the keeper, of the baseline and of crashes, by name.
LEMMA OtherSteps ==
  Next <=> \/ \E r \in Requests : RequestStep(r)
           \/ KeeperStep \/ KeeperCrash \/ Corrupt \/ \E r \in Requests : Crash(r)
BY DEF Next

\* The locks, by who makes them.
LEMMA LocksTyped ==
  ASSUME LocksType, Next PROVE LocksType'
<1> USE DEF LocksType
<1>1. ASSUME NEW r \in Requests, RequestStep(r) PROVE LocksType'
  <2>1. reservation' \in Requests \cup {None}
    BY <1>1
      DEF RequestStep, Acquire, Release, LockReservation, Measure, ListLeases, Reserve,
            UnlockReservation, ResolveBaseline, LockCoord, AcquireUse, UnlockCoord,
            CheckPaths, JournalCloning, CreateStaging, Clone, CommitWorker,
            VerifyAfterClone, CreateJunction, JournalReady, UndoLink, UndoTree, UndoUse,
            UndoJournal, Undo, MarkRunning, UnityEnds, StartRelease, RemoveJunction,
            QuarantineWorker, DeleteWorker, ReleaseUse, JournalReleased, RemoveJournal,
            Releasing, Reach
  <2>2. coord' \in Requests \cup {None, Keeper}
    BY <1>1
      DEF RequestStep, Acquire, Release, LockReservation, Measure, ListLeases, Reserve,
            UnlockReservation, ResolveBaseline, LockCoord, AcquireUse, UnlockCoord,
            CheckPaths, JournalCloning, CreateStaging, Clone, CommitWorker,
            VerifyAfterClone, CreateJunction, JournalReady, UndoLink, UndoTree, UndoUse,
            UndoJournal, Undo, MarkRunning, UnityEnds, StartRelease, RemoveJunction,
            QuarantineWorker, DeleteWorker, ReleaseUse, JournalReleased, RemoveJournal,
            Releasing, Reach
  <2> QED
    BY <1>1, <2>1, <2>2, RequestFrame
<1>2. CASE KeeperStep \/ KeeperCrash
  <2>1. reservation' \in Requests \cup {None}
    BY <1>2, KeeperFrame
  <2>2. coord' \in Requests \cup {None, Keeper}
    BY <1>2
      DEF KeeperStep, KeeperStart, KeeperResolve, KeeperLock, KeeperMark, KeeperCheck,
            KeeperRename, KeeperUnmark, KeeperUnlock, KeeperDelete, KeeperBuild,
            KeeperLeave, KeeperCrash, locks
  <2>3. creation' \in {None, Keeper}
    BY <1>2
      DEF KeeperStep, KeeperStart, KeeperResolve, KeeperLock, KeeperMark, KeeperCheck,
            KeeperRename, KeeperUnmark, KeeperUnlock, KeeperDelete, KeeperBuild,
            KeeperLeave, KeeperCrash, locks
  <2>4. mutation' \in BOOLEAN
    BY <1>2
      DEF KeeperStep, KeeperStart, KeeperResolve, KeeperLock, KeeperMark, KeeperCheck,
            KeeperRename, KeeperUnmark, KeeperUnlock, KeeperDelete, KeeperBuild,
            KeeperLeave, KeeperCrash, locks
  <2> QED
    BY <2>1, <2>2, <2>3, <2>4
<1>3. CASE Corrupt \/ \E r \in Requests : Crash(r)
  BY <1>3 DEF Corrupt, Crash, locks
<1> QED
  BY <1>1, <1>2, <1>3, OtherSteps

\* One more build, and one quarantined baseline less.
LEMMA BuildTyped ==
  ASSUME KeeperType, DeletesOne, KeeperStep
  PROVE  base' \in Baselines /\ discarded' \in Nat /\ kops' \in Nat
<1> USE BaselineShape DEF KeeperType, Baselines, keeper, store
<1>1. base' \in Baselines
  <2>1. CASE KeeperRename
    BY <2>1 DEF KeeperRename
  <2>2. CASE KeeperBuild
    BY <2>2 DEF KeeperBuild
  <2> QED
    BY <2>1, <2>2
      DEF KeeperStep, KeeperStart, KeeperResolve, KeeperLock, KeeperMark, KeeperCheck,
            KeeperRename, KeeperUnmark, KeeperUnlock, KeeperDelete, KeeperBuild,
            KeeperLeave
<1>2. discarded' \in Nat
  <2>1. CASE KeeperDelete
    <3>1. discarded > 0 /\ (discarded' = discarded - 1 \/ discarded' = discarded)
      BY <2>1 DEF KeeperDelete, DeletesOne, KAt
    <3> QED
      BY <3>1
  <2>2. KeeperDelete \/ discarded' = discarded \/ discarded' = discarded + 1
    BY
      DEF KeeperStep, KeeperStart, KeeperResolve, KeeperLock, KeeperMark, KeeperCheck,
            KeeperRename, KeeperUnmark, KeeperUnlock, KeeperDelete, KeeperBuild,
            KeeperLeave
  <2> QED
    BY <2>1, <2>2
<1>3. kops' \in Nat
  <2>1. kops' = kops \/ kops' = kops + 1
    BY
      DEF KeeperStep, KeeperStart, KeeperResolve, KeeperLock, KeeperMark, KeeperCheck,
            KeeperRename, KeeperUnmark, KeeperUnlock, KeeperDelete, KeeperBuild,
            KeeperLeave
  <2> QED
    BY <2>1
<1> QED
  BY <1>1, <1>2, <1>3

\* Where the keeper goes for each state of the baseline.
LEMMA KeeperResolves ==
  ASSUME base \in Baselines, KeeperResolve
  PROVE  /\ base.state = "valid" => kpc' = "leave"
         /\ base.state = "corrupt" => kpc' = "lock"
         /\ base.state = "missing" => kpc' = "build"
         /\ kpc' \in {"leave", "lock", "build"}
<1>1. base.state \in {"valid", "corrupt", "missing"}
  BY BaselineShape
<1>2. CASE base.state = "valid"
  BY <1>2 DEF KeeperResolve, KGoto
<1>3. CASE base.state = "corrupt"
  BY <1>3 DEF KeeperResolve, KGoto
<1>4. CASE base.state = "missing"
  BY <1>4 DEF KeeperResolve, KGoto
<1> QED
  BY <1>1, <1>2, <1>3, <1>4

\* Where it goes after a quarantine.
LEMMA KeeperGoesOn ==
  ASSUME kop \in {"ensure", "clear"}, NEW failed \in BOOLEAN
  PROVE  /\ AfterQuarantine(failed) \in {"idle", "delete", "leave", "build"}
         /\ AfterQuarantine(failed) = "delete" => ~failed
<1>1. CASE kop = "clear"
  BY <1>1 DEF AfterQuarantine
<1>2. CASE kop = "ensure" /\ failed
  BY <1>2 DEF AfterQuarantine
<1>3. CASE kop = "ensure" /\ ~failed
  BY <1>3 DEF AfterQuarantine
<1> QED
  BY <1>1, <1>2, <1>3

\* The keeper and the baseline.
LEMMA KeeperTyped ==
  ASSUME KeeperType, DeletesOne, Next PROVE KeeperType'
<1>0. CASE \E r \in Requests : RequestStep(r)
  BY <1>0, RequestFrame DEF KeeperType, keeper, store
<1>1. CASE Corrupt \/ \E r \in Requests : Crash(r)
  BY <1>1 DEF KeeperType, keeper, store, Corrupt, Crash, Baselines
<1>2. CASE KeeperCrash
  BY <1>2 DEF KeeperType, store, KeeperCrash, KeeperPlaces, KGoto
<1>3. CASE KeeperStep
  <2> USE <1>3 DEF KeeperType
  <2>3. kpc' \in KeeperPlaces
    <3>1. CASE KeeperResolve
      BY <3>1, KeeperResolves DEF KeeperPlaces
    <3>2. CASE KeeperLock \/ KeeperUnlock
      BY <3>2, KeeperGoesOn DEF KeeperPlaces, KeeperLock, KeeperUnlock, KGoto
    <3> QED
      BY <3>1, <3>2
        DEF KeeperStep, KeeperStart, KeeperMark, KeeperCheck, KeeperRename, KeeperUnmark,
              KeeperDelete, KeeperBuild, KeeperLeave, keeper, KeeperPlaces, KGoto
  <2>4. kop' \in {"ensure", "clear"}
    BY
      DEF KeeperStep, KeeperStart, KeeperResolve, KeeperLock, KeeperMark, KeeperCheck,
            KeeperRename, KeeperUnmark, KeeperUnlock, KeeperDelete, KeeperBuild,
            KeeperLeave, keeper
  <2>5. kfailed' \in BOOLEAN
    BY
      DEF KeeperStep, KeeperStart, KeeperResolve, KeeperLock, KeeperMark, KeeperCheck,
            KeeperRename, KeeperUnmark, KeeperUnlock, KeeperDelete, KeeperBuild,
            KeeperLeave, keeper
  <2> QED
    BY <2>3, <2>4, <2>5, BuildTyped
<1> QED
  BY <1>0, <1>1, <1>2, <1>3, OtherSteps

\* What a step uses up, by who takes it.
LEMMA Spends ==
  ASSUME Next
  PROVE  /\ faults' = faults \/ (faults < MaxFaults /\ faults' = faults + 1)
         /\ corruptions' = corruptions
               \/ (corruptions < MaxCorruptions /\ corruptions' = corruptions + 1)
         /\ crashes' = crashes \/ (crashes < MaxCrashes /\ crashes' = crashes + 1)
<1> USE DEF RequestStep, Acquire, Release, LockReservation, Measure, ListLeases, Reserve,
        UnlockReservation, ResolveBaseline, LockCoord, AcquireUse, UnlockCoord,
        CheckPaths, JournalCloning, CreateStaging, Clone, CommitWorker,
        VerifyAfterClone, CreateJunction, JournalReady, UndoLink, UndoTree, UndoUse,
        UndoJournal, Undo, MarkRunning, UnityEnds, StartRelease, RemoveJunction,
        QuarantineWorker, DeleteWorker, ReleaseUse, JournalReleased, RemoveJournal,
        Releasing, Reach
<1>1. ASSUME NEW r \in Requests, RequestStep(r)
      PROVE  faults' = faults \/ (faults < MaxFaults /\ faults' = faults + 1)
  <2>1. CASE Release(r)
    BY <2>1 DEF Fault, NoFault
  <2>2. CASE ~Release(r)
    BY <1>1, <2>2 DEF Fault, NoFault
  <2> QED
    BY <2>1, <2>2
<1>2. CASE KeeperStep
  BY <1>2
    DEF KeeperStep, KeeperStart, KeeperResolve, KeeperLock, KeeperMark, KeeperCheck,
          KeeperRename, KeeperUnmark, KeeperUnlock, KeeperDelete, KeeperBuild,
          KeeperLeave, Theirs, Fault, NoFault
<1>3. CASE KeeperCrash \/ Corrupt \/ \E r \in Requests : Crash(r)
  BY <1>3 DEF KeeperCrash, Corrupt, Crash
<1>4. ASSUME NEW r \in Requests, RequestStep(r) PROVE UNCHANGED <<corruptions, crashes>>
  BY <1>4, RequestFrame
<1> QED
  BY <1>1, <1>2, <1>3, <1>4, OtherSteps

\* No bound is passed.
LEMMA BoundsTyped ==
  ASSUME BoundsType, Next PROVE BoundsType'
BY Spends, RefsAssumption DEF BoundsType

-----------------------------------------------------------------------------
(* What one step changes *)

\* The types of the values the steps read.
LEMMA Shape ==
  ASSUME TypeOK
  PROVE  /\ leaseOf \in [Requests -> LeaseIds] /\ budget \in Nat
         /\ RequestType /\ DiskType /\ LocksType /\ KeeperType
         /\ base.state \in {"valid", "corrupt", "missing"} /\ base.gen \in Nat
BY TypeParts, PlanShape, BaselineShape DEF KeeperType

\* A request's own step changes nothing of another request.
LEMMA OthersAlone ==
  ASSUME NEW r \in Requests, RequestStep(r), TypeOK, NEW q \in Requests, q # r
  PROVE  /\ pc'[q] = pc[q] /\ done'[q] = done[q] /\ gen'[q] = gen[q]
         /\ reported'[q] = reported[q] /\ content'[q] = content[q]
         /\ staging'[q] = staging[q] /\ quarantine'[q] = quarantine[q]
         /\ junction'[q] = junction[q] /\ bytes'[q] = bytes[q]
         /\ used'[q] = used[q] /\ names'[q] = names[q]
<1> USE DEF RequestStep, Acquire, Release, LockReservation, Measure, ListLeases, Reserve,
        UnlockReservation, ResolveBaseline, LockCoord, AcquireUse, UnlockCoord,
        CheckPaths, JournalCloning, CreateStaging, Clone, CommitWorker,
        VerifyAfterClone, CreateJunction, JournalReady, UndoLink, UndoTree, UndoUse,
        UndoJournal, Undo, MarkRunning, UnityEnds, StartRelease, RemoveJunction,
        QuarantineWorker, DeleteWorker, ReleaseUse, JournalReleased, RemoveJournal,
        Releasing, Reach
<1> USE Shape DEF RequestType, DiskType
<1>1. pc'[q] = pc[q]
  BY DEF Goto, disk
<1>2. done'[q] = done[q]
  BY DEF request
<1>3. gen'[q] = gen[q]
  BY DEF request
<1>4. reported'[q] = reported[q]
  BY DEF request
<1>5. content'[q] = content[q]
  BY DEF request
<1>6. staging'[q] = staging[q]
  BY DEF disk, RemoveTree
<1>7. quarantine'[q] = quarantine[q]
  BY DEF disk
<1>8. junction'[q] = junction[q]
  BY DEF disk
<1>9. bytes'[q] = bytes[q]
  BY DEF disk, RemoveTree
<1>10. used'[q] = used[q] /\ names'[q] = names[q]
  BY DEF request
<1> QED
  BY <1>1, <1>2, <1>3, <1>4, <1>5, <1>6, <1>7, <1>8, <1>9, <1>10

\* A journal is written and removed by the request that owns it, and made where
\* there is none.
LEMMA JournalStep ==
  ASSUME NEW r \in Requests, RequestStep(r), TypeOK, HasJournal(r), Listed(r)
  PROVE  /\ \A l \in LeaseIds : l # leaseOf[r] => journal'[l] = journal[l]
         /\ journal' = journal \/ Journal(r) = None \/ Owns(r)
         /\ \/ journal' = journal \/ journal'[leaseOf[r]] = None
            \/ journal'[leaseOf[r]] \in Journals /\ journal'[leaseOf[r]].owner = r
         /\ journal' # journal => Owns(r) \/ (Reserve(r) /\ ~Refused(r) /\ NoFault /\ Record(r, "requested"))
<1> USE DEF RequestStep, Acquire, Release, LockReservation, Measure, ListLeases, Reserve,
        UnlockReservation, ResolveBaseline, LockCoord, AcquireUse, UnlockCoord,
        CheckPaths, JournalCloning, CreateStaging, Clone, CommitWorker,
        VerifyAfterClone, CreateJunction, JournalReady, UndoLink, UndoTree, UndoUse,
        UndoJournal, Undo, MarkRunning, UnityEnds, StartRelease, RemoveJunction,
        QuarantineWorker, DeleteWorker, ReleaseUse, JournalReleased, RemoveJournal,
        Releasing, Reach
<1> USE Shape DEF DiskType
<1>1. \A l \in LeaseIds : l # leaseOf[r] => journal'[l] = journal[l]
  BY DEF disk, Record
<1>2. Reserve(r) \/ journal' = journal \/ Owns(r)
  BY DEF disk, HasJournal, Journaled, Cloning, UndoSteps, Held, At
<1>3. Reserve(r) => journal' = journal \/ (~Refused(r) /\ NoFault /\ Record(r, "requested"))
  BY DEF Reserve
<1>4. Reserve(r) /\ ~Refused(r) => Journal(r) = None
  BY DEF Reserve, Refused, Listed, At, Journal
<1>5. \/ journal' = journal \/ journal'[leaseOf[r]] = None
      \/ journal'[leaseOf[r]] \in Journals /\ journal'[leaseOf[r]].owner = r
  <2>1. \/ journal' = journal \/ journal'[leaseOf[r]] = None
        \/ \E s \in States : journal'[leaseOf[r]] = [owner |-> r, state |-> s]
    BY StateShape DEF disk, Record
  <2>2. \A s \in States : /\ [owner |-> r, state |-> s] \in Journals
                         /\ [owner |-> r, state |-> s].owner = r
    BY JournalShape
  <2> QED
    BY <2>1, <2>2
<1>6. journal' = journal \/ Journal(r) = None \/ Owns(r)
  BY <1>2, <1>3, <1>4
<1>7. journal' # journal
          => Owns(r) \/ (Reserve(r) /\ ~Refused(r) /\ NoFault /\ Record(r, "requested"))
  BY <1>2, <1>3
<1> QED
  BY <1>1, <1>5, <1>6, <1>7

\* A marker is made where there is none, and removed by the request that made it.
LEMMA MarkerStep ==
  ASSUME NEW r \in Requests, RequestStep(r), TypeOK, HasMarker(r)
  PROVE  /\ \A l \in LeaseIds : l # leaseOf[r] => marker'[l] = marker[l]
         /\ \/ marker' = marker
            \/ AcquireUse(r) /\ marker[leaseOf[r]] = None /\ marker'[leaseOf[r]] = r
            \/ marker[leaseOf[r]] = r /\ marker'[leaseOf[r]] = None
<1> USE DEF RequestStep, Acquire, Release, LockReservation, Measure, ListLeases, Reserve,
        UnlockReservation, ResolveBaseline, LockCoord, AcquireUse, UnlockCoord,
        CheckPaths, JournalCloning, CreateStaging, Clone, CommitWorker,
        VerifyAfterClone, CreateJunction, JournalReady, UndoLink, UndoTree, UndoUse,
        UndoJournal, Undo, MarkRunning, UnityEnds, StartRelease, RemoveJunction,
        QuarantineWorker, DeleteWorker, ReleaseUse, JournalReleased, RemoveJournal,
        Releasing, Reach
<1> USE Shape DEF DiskType
<1>1. \A l \in LeaseIds : l # leaseOf[r] => marker'[l] = marker[l]
  BY DEF disk
<1>2. \/ marker' = marker
      \/ AcquireUse(r) /\ marker[leaseOf[r]] = None /\ marker'[leaseOf[r]] = r
      \/ marker[leaseOf[r]] = r /\ marker'[leaseOf[r]] = None
  BY DEF disk, HasMarker, Before, Marked, At
<1> QED
  BY <1>1, <1>2

\* A worker directory is made by a request with a journal, and taken away only by
\* the request whose owner file is in it.
LEMMA WorkerStep ==
  ASSUME NEW r \in Requests, RequestStep(r), TypeOK, HasJournal(r), NEW l \in LeaseIds
  PROVE  \/ worker'[l] = worker[l]
         \/ worker[l] = r /\ worker'[l] = None
         \/ l = leaseOf[r] /\ worker'[l] = r /\ Owns(r) /\ CommitWorker(r)
<1> USE Shape DEF DiskType
<1>1. CASE CommitWorker(r)
  BY <1>1 DEF CommitWorker, HasJournal, Journaled, Cloning, At
<1>2. CASE ~CommitWorker(r)
  BY <1>2
    DEF RequestStep, Acquire, Release, LockReservation, Measure, ListLeases, Reserve,
          UnlockReservation, ResolveBaseline, LockCoord, AcquireUse, UnlockCoord,
          CheckPaths, JournalCloning, CreateStaging, Clone, CommitWorker,
          VerifyAfterClone, CreateJunction, JournalReady, UndoLink, UndoTree, UndoUse,
          UndoJournal, Undo, MarkRunning, UnityEnds, StartRelease, RemoveJunction,
          QuarantineWorker, DeleteWorker, ReleaseUse, JournalReleased, RemoveJournal,
          Releasing, Reach, disk, RemoveTree
<1> QED
  BY <1>1, <1>2

\* A lock is made where there is none, and removed by the request that made it.
LEMMA LockStep ==
  ASSUME NEW r \in Requests, RequestStep(r), TypeOK, HoldsLocks(r)
  PROVE  /\ \/ reservation' = reservation
            \/ reservation = None /\ reservation' = r
            \/ reservation = r /\ reservation' = None
         /\ \/ coord' = coord
            \/ coord = None /\ coord' = r
            \/ coord = r /\ coord' = None
<1> USE DEF RequestStep, Acquire, Release, LockReservation, Measure, ListLeases, Reserve,
        UnlockReservation, ResolveBaseline, LockCoord, AcquireUse, UnlockCoord,
        CheckPaths, JournalCloning, CreateStaging, Clone, CommitWorker,
        VerifyAfterClone, CreateJunction, JournalReady, UndoLink, UndoTree, UndoUse,
        UndoJournal, Undo, MarkRunning, UnityEnds, StartRelease, RemoveJunction,
        QuarantineWorker, DeleteWorker, ReleaseUse, JournalReleased, RemoveJournal,
        Releasing, Reach
<1> USE DEF HoldsLocks, Locked, At
<1>1. \/ reservation' = reservation
      \/ reservation = None /\ reservation' = r
      \/ reservation = r /\ reservation' = None
  OBVIOUS
<1>2. \/ coord' = coord
      \/ coord = None /\ coord' = r
      \/ coord = r /\ coord' = None
  OBVIOUS
<1> QED
  BY <1>1, <1>2

-----------------------------------------------------------------------------
(* A step of a request and the invariant of the others *)

\* Whose journal lies at a lease that two requests ask for is kept by the one
\* that does not own it.
LEMMA OthersJournal ==
  ASSUME NEW r \in Requests, RequestStep(r), PoolInv, NEW q \in Requests, q # r
  PROVE  /\ Owns(q) => Owns(q)' /\ Journal(q)' = Journal(q)
         /\ Owns(q)' => Owns(q)
<1> USE Shape DEF PoolInv, RequestInv
<1>1. leaseOf' = leaseOf /\ leaseOf[q] \in LeaseIds
  BY RequestFrame
<1>2. Owns(q) => journal'[leaseOf[q]] = journal[leaseOf[q]]
  BY JournalStep DEF Owns, Journal
<1>3. ASSUME Owns(q)' PROVE journal'[leaseOf[q]] = journal[leaseOf[q]]
  BY <1>1, <1>3, JournalStep DEF Owns, Journal
<1> QED
  BY <1>1, <1>2, <1>3 DEF Owns, Journal

\* The same of a marker.
LEMMA OthersMarker ==
  ASSUME NEW r \in Requests, RequestStep(r), PoolInv, NEW q \in Requests, q # r,
         NEW l \in LeaseIds
  PROVE  marker[l] = q <=> marker'[l] = q
BY Shape, MarkerStep, JournalShape DEF PoolInv, RequestInv

\* And of a worker directory, as long as the other request has the journal.
LEMMA OthersWorker ==
  ASSUME NEW r \in Requests, RequestStep(r), PoolInv, NEW q \in Requests, q # r,
         NEW l \in LeaseIds
  PROVE  /\ worker'[l] = q => worker[l] = q
         /\ Owns(q) /\ l = leaseOf[q] /\ worker[l] = q => worker'[l] = q
BY Shape, WorkerStep, JournalShape DEF PoolInv, RequestInv, Owns, Journal

\* And of a lock.
LEMMA OthersLock ==
  ASSUME NEW r \in Requests, RequestStep(r), PoolInv, NEW q \in Requests \cup {Keeper}, q # r
  PROVE  (reservation' = q <=> reservation = q) /\ (coord' = q <=> coord = q)
BY Shape, LockStep, JournalShape DEF PoolInv, RequestInv

\* The invariant of one request survives the steps of another.
LEMMA OthersKeep ==
  ASSUME NEW r \in Requests, RequestStep(r), PoolInv, NEW q \in Requests, q # r
  PROVE  RequestInv(q)'
<1> DEFINE Same == /\ leaseOf' = leaseOf /\ base' = base
                   /\ pc'[q] = pc[q] /\ done'[q] = done[q] /\ gen'[q] = gen[q]
                   /\ reported'[q] = reported[q] /\ content'[q] = content[q]
                   /\ staging'[q] = staging[q] /\ quarantine'[q] = quarantine[q]
                   /\ junction'[q] = junction[q] /\ names'[q] = names[q]
<1>1. Same
  BY OthersAlone, RequestFrame DEF PoolInv, store
<1>2. TypeOK /\ RequestInv(q) /\ leaseOf[q] \in LeaseIds /\ RequestInv(r)
  BY Shape DEF PoolInv
<1> HIDE DEF Same
<1>3. HoldsLocks(q)'
  BY <1>1, <1>2, OthersLock DEF Same, RequestInv, HoldsLocks
<1>4. HasJournal(q)'
  BY <1>1, <1>2, OthersJournal DEF Same, RequestInv, HasJournal
<1>5. Listed(q)'
  <2> SUFFICES ASSUME pc[q] = "reserve", NEW l \in LeaseIds, journal'[l] # None
               PROVE  l \in names[q]
    BY <1>1 DEF Same, Listed
  <2>1. reservation = q
    BY <1>2 DEF RequestInv, HoldsLocks, Locked
  <2>2. ~Reserve(r)
    BY <2>1, <1>2 DEF RequestInv, HoldsLocks, Locked, Reserve, At
  <2>3. journal[l] # None
    BY <2>2, <1>2, JournalStep, Shape DEF RequestInv, Owns, Journal
  <2> QED
    BY <2>3, <1>2 DEF RequestInv, Listed
<1>6. HasMarker(q)'
  BY <1>1, <1>2, OthersMarker DEF Same, RequestInv, HasMarker, Before
<1>7. HasBaseline(q)'
  BY <1>1, <1>2, OthersMarker DEF Same, RequestInv, HasBaseline, Uses
<1>8. CloneIsValid(q)'
  BY <1>1, <1>2 DEF Same, RequestInv, CloneIsValid
<1>9. TreeInPlace(q)'
  <2>1. pc[q] \in {"verify", "link", "ready", "undoLink"} \cup Held => Owns(q)
    BY <1>2 DEF RequestInv, HasJournal, Journaled, Cloning, UndoSteps
  <2> QED
    BY <1>1, <1>2, <2>1, OthersJournal, OthersWorker DEF Same, RequestInv, TreeInPlace
<1>10. ReleaseInPlace(q)'
  <2>1. pc[q] = "release" => Owns(q)
    BY <1>2 DEF RequestInv, HasJournal, Journaled
  <2> QED
    BY <1>1, <1>2, <2>1, OthersWorker DEF Same, RequestInv, ReleaseInPlace
<1>11. ReportsFailure(q)'
  BY <1>1, <1>2 DEF Same, RequestInv, ReportsFailure
<1>12. LocksAccounted(q)'
  BY <1>1, <1>2, OthersLock DEF Same, RequestInv, LocksAccounted, Excused
<1>13. TreeAccounted(q)'
  BY <1>1, <1>2, OthersWorker DEF Same, RequestInv, TreeAccounted, Excused, Before
<1>14. RecordsAccounted(q)'
  BY <1>1, <1>2, OthersMarker, OthersJournal
     DEF Same, RequestInv, RecordsAccounted, Excused, Before
<1> QED
  BY <1>3, <1>4, <1>5, <1>6, <1>7, <1>8, <1>9, <1>10, <1>11, <1>12, <1>13, <1>14
     DEF RequestInv

-----------------------------------------------------------------------------
(* A step of a request and its own invariant *)

\* Who is in a lock still has it, and who left it does not.
LEMMA OwnLocks ==
  ASSUME NEW r \in Requests, RequestStep(r), TypeOK, HoldsLocks(r), LocksAccounted(r)
  PROVE  HoldsLocks(r)' /\ LocksAccounted(r)'
<1> USE DEF RequestStep, Acquire, Release, LockReservation, Measure, ListLeases, Reserve,
        UnlockReservation, ResolveBaseline, LockCoord, AcquireUse, UnlockCoord,
        CheckPaths, JournalCloning, CreateStaging, Clone, CommitWorker,
        VerifyAfterClone, CreateJunction, JournalReady, UndoLink, UndoTree, UndoUse,
        UndoJournal, Undo, MarkRunning, UnityEnds, StartRelease, RemoveJunction,
        QuarantineWorker, DeleteWorker, ReleaseUse, JournalReleased, RemoveJournal,
        Releasing, Reach
<1> USE Shape, JournalShape DEF RequestType, Locked, At, Goto
<1>1. pc'[r] \in Locked => reservation' = r
  BY DEF HoldsLocks
<1>2. pc'[r] \in {"use", "uncoord"} => coord' = r
  BY DEF HoldsLocks
<1>3. reservation' = r => reported'[r] \/ pc'[r] = "dead" \/ pc'[r] \in Locked
  BY DEF LocksAccounted, Excused, request
<1>4. coord' = r => reported'[r] \/ pc'[r] = "dead" \/ pc'[r] \in {"use", "uncoord"}
  BY DEF LocksAccounted, Excused, request
<1> QED
  BY <1>1, <1>2, <1>3, <1>4 DEF HoldsLocks, LocksAccounted, Excused

\* Who got a journal has it until it removes it, and the list of the others'
\* journals is complete while the lock is held.
LEMMA OwnJournal ==
  ASSUME NEW r \in Requests, RequestStep(r), TypeOK, HasJournal(r), Listed(r)
  PROVE  HasJournal(r)' /\ Listed(r)'
<1> USE DEF RequestStep, Acquire, Release, LockReservation, Measure, ListLeases, Reserve,
        UnlockReservation, ResolveBaseline, LockCoord, AcquireUse, UnlockCoord,
        CheckPaths, JournalCloning, CreateStaging, Clone, CommitWorker,
        VerifyAfterClone, CreateJunction, JournalReady, UndoLink, UndoTree, UndoUse,
        UndoJournal, Undo, MarkRunning, UnityEnds, StartRelease, RemoveJunction,
        QuarantineWorker, DeleteWorker, ReleaseUse, JournalReleased, RemoveJournal,
        Releasing, Reach
<1> USE Shape, JournalShape, StateShape
    DEF RequestType, DiskType, Journaled, Cloning, UndoSteps, Held, At, Goto
<1>1. pc'[r] \in Journaled => Owns(r)'
  <2>1. CASE Release(r)
    BY <2>1 DEF HasJournal, Owns, Journal, Record, Mine
  <2>2. CASE ~Release(r)
    BY <2>2 DEF HasJournal, Owns, Journal, Record, Mine, disk
  <2> QED
    BY <2>1, <2>2
<1>2. pc'[r] = "reserve" => \A l \in LeaseIds : journal'[l] # None => l \in names'[r]
  BY DEF disk
<1> QED
  BY <1>1, <1>2 DEF HasJournal, Listed

\* Who got a marker has it until its tree is gone.
LEMMA OwnMarker ==
  ASSUME NEW r \in Requests, RequestStep(r), TypeOK, HasMarker(r)
  PROVE  HasMarker(r)'
<1> USE DEF RequestStep, Acquire, Release, LockReservation, Measure, ListLeases, Reserve,
        UnlockReservation, ResolveBaseline, LockCoord, AcquireUse, UnlockCoord,
        CheckPaths, JournalCloning, CreateStaging, Clone, CommitWorker,
        VerifyAfterClone, CreateJunction, JournalReady, UndoLink, UndoTree, UndoUse,
        UndoJournal, Undo, MarkRunning, UnityEnds, StartRelease, RemoveJunction,
        QuarantineWorker, DeleteWorker, ReleaseUse, JournalReleased, RemoveJournal,
        Releasing, Reach
<1> USE Shape, JournalShape
    DEF RequestType, DiskType, Marked, Cloning, Held, At, Goto, HasMarker, Before
<1>1. CASE Release(r)
  BY <1>1 DEF Mine
<1>2. CASE ~Release(r)
  BY <1>2, SMTT(40) DEF Mine, disk, request
<1> QED
  BY <1>1, <1>2

\* The baseline a request found under the lock is the one it uses.
LEMMA OwnBaseline ==
  ASSUME NEW r \in Requests, RequestStep(r), TypeOK, HasBaseline(r), CloneIsValid(r),
         RecordsAccounted(r), ReportsFailure(r)
  PROVE  HasBaseline(r)' /\ CloneIsValid(r)'
<1> USE DEF RequestStep, Acquire, Release, LockReservation, Measure, ListLeases, Reserve,
        UnlockReservation, ResolveBaseline, LockCoord, AcquireUse, UnlockCoord,
        CheckPaths, JournalCloning, CreateStaging, Clone, CommitWorker,
        VerifyAfterClone, CreateJunction, JournalReady, UndoLink, UndoTree, UndoUse,
        UndoJournal, Undo, MarkRunning, UnityEnds, StartRelease, RemoveJunction,
        QuarantineWorker, DeleteWorker, ReleaseUse, JournalReleased, RemoveJournal,
        Releasing, Reach
<1> USE Shape, JournalShape, RequestFrame DEF RequestType, DiskType, Held, At, Goto, store
<1>1. Uses(r)' => base'.state # "missing" /\ base'.gen = gen'[r]
  BY SMTT(40) DEF HasBaseline, Uses, request
<1>2. pc'[r] = "uncoord" /\ marker'[leaseOf'[r]] = r
          => base'.state # "missing" /\ base'.gen = gen'[r]
  <2>1. CASE AcquireUse(r)
    <3>1. marker[leaseOf[r]] # r
      BY <2>1 DEF AcquireUse, RecordsAccounted, ReportsFailure, Excused, Marked, Cloning,
                  UndoSteps, Before
    <3> QED
      BY <2>1, <3>1, ZenonT(60) DEF AcquireUse
  <2>2. CASE ~AcquireUse(r)
    BY <2>2, SMTT(40)
  <2> QED
    BY <2>1, <2>2
<1>3. pc'[r] \in {"commit", "verify"} /\ base'.state = "valid" => content'[r] = "valid"
  BY DEF CloneIsValid, request
<1>4. pc'[r] \in {"link", "ready"} \cup Held => content'[r] = "valid"
  BY DEF CloneIsValid, request
<1> QED
  BY <1>1, <1>2, <1>3, <1>4, SMTT(40) DEF HasBaseline, CloneIsValid

\* The tree, the junction and the journal are where the next step looks for them.
LEMMA OwnTree ==
  ASSUME NEW r \in Requests, RequestStep(r), TypeOK, TreeInPlace(r), ReleaseInPlace(r),
         ReportsFailure(r), HasJournal(r)
  PROVE  TreeInPlace(r)' /\ ReleaseInPlace(r)' /\ ReportsFailure(r)'
<1> USE DEF RequestStep, Acquire, Release, LockReservation, Measure, ListLeases, Reserve,
        UnlockReservation, ResolveBaseline, LockCoord, AcquireUse, UnlockCoord,
        CheckPaths, JournalCloning, CreateStaging, Clone, CommitWorker,
        VerifyAfterClone, CreateJunction, JournalReady, UndoLink, UndoTree, UndoUse,
        UndoJournal, Undo, MarkRunning, UnityEnds, StartRelease, RemoveJunction,
        QuarantineWorker, DeleteWorker, ReleaseUse, JournalReleased, RemoveJournal,
        Releasing, Reach
<1> USE Shape, JournalShape, StateShape DEF RequestType, DiskType, Held, At, Goto
<1>1. pc'[r] \in {"verify", "link", "ready", "undoLink"} \cup Held
          => worker'[leaseOf'[r]] = r
  BY DEF TreeInPlace, Mine, disk, RemoveTree
<1>2. pc'[r] \in {"ready", "undoLink"} \cup Held => junction'[r]
  BY DEF TreeInPlace, disk
<1>3. pc'[r] \in Held => Journal(r)'.state \in {"ready", "running"}
  BY DEF TreeInPlace, Mine, disk, Journal, Record
<1>4. pc'[r] \notin {"release", "released", "dead"} => done'[r] = 0 /\ quarantine'[r] = "none"
  BY DEF TreeInPlace, disk, request
<1>7. pc'[r] = "released" => quarantine'[r] = "none"
  BY DEF ReleaseInPlace, disk
<1>5. ReleaseInPlace(r)'
  <2>1. CASE Release(r)
    BY <2>1 DEF ReleaseInPlace, Mine
  <2>2. CASE ~Release(r)
    BY <2>2 DEF ReleaseInPlace, TreeInPlace, Mine, disk, request
  <2> QED
    BY <2>1, <2>2
<1>6. ReportsFailure(r)'
  BY SMTT(40) DEF ReportsFailure, UndoSteps, request
<1> QED
  BY <1>1, <1>2, <1>3, <1>4, <1>5, <1>6, <1>7 DEF TreeInPlace

\* A worker directory and a marker are at the lease their owner asked for.
LEMMA OwnPlaces ==
  ASSUME NEW r \in Requests, RequestStep(r), TypeOK, HasJournal(r), HasMarker(r),
         TreeAccounted(r), RecordsAccounted(r), NEW l \in LeaseIds
  PROVE  /\ worker'[l] = r => l = leaseOf'[r]
         /\ marker'[l] = r => l = leaseOf'[r]
BY RequestFrame, WorkerStep, MarkerStep, SMTT(40) DEF TreeAccounted, RecordsAccounted

\* What a step leaves on the pool is accounted for.
LEMMA OwnLeftovers ==
  ASSUME NEW r \in Requests, RequestStep(r), TypeOK, TreeAccounted(r), RecordsAccounted(r),
         HasJournal(r), HasMarker(r), TreeInPlace(r), ReleaseInPlace(r)
  PROVE  TreeAccounted(r)' /\ RecordsAccounted(r)'
<1> USE DEF RequestStep, Acquire, Release, LockReservation, Measure, ListLeases, Reserve,
        UnlockReservation, ResolveBaseline, LockCoord, AcquireUse, UnlockCoord,
        CheckPaths, JournalCloning, CreateStaging, Clone, CommitWorker,
        VerifyAfterClone, CreateJunction, JournalReady, UndoLink, UndoTree, UndoUse,
        UndoJournal, Undo, MarkRunning, UnityEnds, StartRelease, RemoveJunction,
        QuarantineWorker, DeleteWorker, ReleaseUse, JournalReleased, RemoveJournal,
        Releasing, Reach
<1> USE Shape, JournalShape, StateShape
    DEF RequestType, DiskType, Held, At, Goto, Excused, Before
<1>1. staging'[r] => Excused(r)' \/ pc'[r] \in {"clone", "commit", "undoTree"}
  BY DEF TreeAccounted, disk, request, RemoveTree
<1>2. junction'[r] => Excused(r)' \/ Before(r, 2)' \/ pc'[r] \in {"ready", "undoLink"} \cup Held
  <2>1. CASE Release(r)
    BY <2>1 DEF TreeAccounted, disk, request
  <2>2. CASE MarkRunning(r) \/ UnityEnds(r)
    BY <2>2 DEF MarkRunning, UnityEnds, TreeInPlace, TreeAccounted, disk, request
  <2>3. CASE Acquire(r)
    BY <2>3, SMTT(40) DEF TreeAccounted, disk, request
  <2> QED
    BY <2>1, <2>2, <2>3 DEF RequestStep
<1>3. ASSUME worker'[leaseOf[r]] = r
      PROVE  Excused(r)' \/ Before(r, 3)'
               \/ pc'[r] \in {"verify", "link", "ready", "undoLink", "undoTree"} \cup Held
  <2>1. CASE Release(r)
    BY <1>3, <2>1 DEF TreeAccounted, disk, request, RemoveTree
  <2>2. CASE MarkRunning(r) \/ UnityEnds(r)
    BY <1>3, <2>2
      DEF MarkRunning, UnityEnds, TreeInPlace, TreeAccounted, disk, request, RemoveTree
  <2>3. CASE Acquire(r)
    BY <1>3, <2>3 DEF TreeAccounted, disk, request, RemoveTree
  <2> QED
    BY <2>1, <2>2, <2>3 DEF RequestStep
<1>5. ASSUME marker'[leaseOf[r]] = r
      PROVE  Excused(r)' \/ Before(r, 5)' \/ pc'[r] \in Marked \cup {"uncoord"}
  <2>1. CASE Release(r)
    BY <1>5, <2>1 DEF RecordsAccounted, Marked, Cloning, Mine, disk, request
  <2>2. CASE MarkRunning(r) \/ UnityEnds(r)
    BY <1>5, <2>2
      DEF MarkRunning, UnityEnds, TreeInPlace, RecordsAccounted, Marked, Cloning, Mine,
            disk, request
  <2>3. CASE Acquire(r)
    BY <1>5, <2>3 DEF RecordsAccounted, Marked, Cloning, Mine, disk, request
  <2> QED
    BY <2>1, <2>2, <2>3 DEF RequestStep
<1>6. ASSUME Owns(r)'
      PROVE  Excused(r)' \/ pc'[r] \in Journaled \cup {"unlock"}
  BY <1>6
    DEF RecordsAccounted, Journaled, Cloning, UndoSteps, Mine, Owns, Journal, disk,
          request, Record
<1> QED
  BY <1>1, <1>2, <1>3, <1>5, <1>6, RequestFrame, OwnPlaces, ZenonT(60)
     DEF TreeAccounted, RecordsAccounted

\* The invariant of a request survives its own steps.
LEMMA OwnKeeps ==
  ASSUME NEW r \in Requests, RequestStep(r), PoolInv PROVE RequestInv(r)'
BY OwnLocks, OwnJournal, OwnMarker, OwnBaseline, OwnTree, OwnLeftovers DEF PoolInv, RequestInv

-----------------------------------------------------------------------------
(* The keeper, the baseline and crashes *)

\* The invariant of a request that nothing happened to: the baseline is the same,
\* was hurt, or is not in use by it.
LEMMA RequestUntouched ==
  ASSUME NEW q \in Requests, RequestInv(q), TypeOK,
         UNCHANGED <<leaseOf, request, disk, reservation>>, pc'[q] = pc[q],
         coord' = q <=> coord = q,
         \/ base' = base
         \/ base'.state = "corrupt" /\ base.state = "valid" /\ base'.gen = base.gen
         \/ ~(Uses(q) \/ (pc[q] = "uncoord" /\ marker[leaseOf[q]] = q))
  PROVE  RequestInv(q)'
<1> USE DEF request, disk, RequestInv
<1>1. HoldsLocks(q)'
  BY DEF HoldsLocks
<1>2. HasJournal(q)' /\ Listed(q)'
  BY DEF HasJournal, Listed, Owns, Journal
<1>3. HasMarker(q)'
  BY DEF HasMarker, Before
<1>4. HasBaseline(q)'
  BY DEF HasBaseline, Uses
<1>5. CloneIsValid(q)'
  BY DEF CloneIsValid, Uses
<1>6. TreeInPlace(q)' /\ ReleaseInPlace(q)'
  BY DEF TreeInPlace, ReleaseInPlace, Journal
<1>7. ReportsFailure(q)' /\ LocksAccounted(q)'
  BY DEF ReportsFailure, LocksAccounted, Excused
<1>8. TreeAccounted(q)'
  BY DEF TreeAccounted, Before, Excused
<1>9. RecordsAccounted(q)'
  BY DEF RecordsAccounted, Before, Excused, Owns, Journal
<1> QED
  BY <1>1, <1>2, <1>3, <1>4, <1>5, <1>6, <1>7, <1>8, <1>9

\* The keeper makes and releases its lock, and is between the two for what it does
\* to the baseline.
LEMMA KeeperLocks ==
  ASSUME TypeOK, KeeperHoldsLock, KeeperStep \/ KeeperCrash
  PROVE  /\ \/ coord' = coord
            \/ coord = None /\ coord' = Keeper
            \/ coord = Keeper /\ coord' = None
         /\ KeeperHoldsLock'
<1>1. CASE KeeperLock
  BY <1>1, Shape, KeeperGoesOn DEF KeeperLock, KeeperHoldsLock, KAt, KGoto, KeeperType
<1>2. CASE KeeperUnlock
  BY <1>2, Shape, KeeperGoesOn DEF KeeperUnlock, KeeperHoldsLock, KAt, KGoto, KeeperType
<1>3. CASE KeeperResolve
  <2>1. UNCHANGED coord
    BY <1>3 DEF KeeperResolve
  <2>2. kpc' \in {"leave", "lock", "build"}
    BY <1>3, Shape, KeeperResolves DEF KeeperType
  <2> QED
    BY <2>1, <2>2 DEF KeeperHoldsLock
<1> QED
  BY <1>1, <1>2, <1>3
    DEF KeeperStep, KeeperStart, KeeperMark, KeeperCheck, KeeperRename, KeeperUnmark,
          KeeperDelete, KeeperBuild, KeeperLeave, KeeperCrash, locks, KAt, KGoto,
          KeeperHoldsLock

\* What it deletes was quarantined, and what it renames is used by nobody.
LEMMA KeeperOrder ==
  ASSUME TypeOK, DeletesOne, RenameIsAlone, KeeperStep \/ KeeperCrash
  PROVE  DeletesOne' /\ RenameIsAlone'
<1>0. UNCHANGED marker
  BY KeeperFrame DEF disk
<1>1. CASE KeeperLock
  <2>1. kpc' \notin {"delete", "unmark", "unlock", "rename"}
    BY <1>1, Shape, KeeperGoesOn DEF KeeperLock, KGoto, KeeperType
  <2> QED
    BY <2>1 DEF DeletesOne, RenameIsAlone
<1>2. CASE KeeperUnlock
  <2>1. kpc' \notin {"unmark", "unlock", "rename"} /\ (kpc' = "delete" => ~kfailed)
    BY <1>2, Shape, KeeperGoesOn DEF KeeperUnlock, KGoto, KeeperType
  <2>2. kpc = "unlock" /\ discarded' = discarded
    BY <1>2 DEF KeeperUnlock, KAt, store
  <2> QED
    BY <2>1, <2>2 DEF DeletesOne, RenameIsAlone
<1>3. CASE KeeperResolve
  <2>1. kpc' \in {"leave", "lock", "build"}
    BY <1>3, Shape, KeeperResolves DEF KeeperType
  <2> QED
    BY <2>1 DEF DeletesOne, RenameIsAlone
<1>4. CASE KeeperRename
  <2>1. kpc' = "unmark" /\ (kfailed' \/ discarded' = discarded + 1)
    BY <1>4 DEF KeeperRename, KGoto
  <2> QED
    BY <2>1, Shape DEF DeletesOne, RenameIsAlone, KeeperType
<1>5. CASE KeeperCheck
  BY <1>0, <1>5 DEF KeeperCheck, InUse, DeletesOne, RenameIsAlone, KGoto
<1> QED
  BY <1>1, <1>2, <1>3, <1>4, <1>5
    DEF KeeperStep, KeeperStart, KeeperMark, KeeperUnmark, KeeperDelete, KeeperBuild,
          KeeperLeave, KeeperCrash, store, KAt, KGoto, DeletesOne, RenameIsAlone

\* It takes the baseline away where nobody uses it, and builds one where there is
\* none.
LEMMA KeeperBaseline ==
  ASSUME PoolInv, KeeperStep \/ KeeperCrash, NEW q \in Requests
  PROVE  base' = base \/ ~(Uses(q) \/ (pc[q] = "uncoord" /\ marker[leaseOf[q]] = q))
<1>1. CASE KeeperRename
  <2>1. marker[leaseOf[q]] # q
    BY <1>1, Shape, JournalShape DEF PoolInv, RenameIsAlone, KeeperRename, KAt
  <2> QED
    BY <2>1 DEF PoolInv, RequestInv, HasMarker, Uses, Marked, Cloning
<1>2. CASE KeeperBuild
  BY <1>2 DEF KeeperBuild, PoolInv, RequestInv, HasBaseline
<1> QED
  BY <1>1, <1>2
    DEF KeeperStep, KeeperStart, KeeperResolve, KeeperLock, KeeperMark, KeeperCheck,
          KeeperUnmark, KeeperUnlock, KeeperDelete, KeeperLeave, KeeperCrash, store

\* A step of the keeper, or its death.
LEMMA KeeperKeeps ==
  ASSUME PoolInv, KeeperStep \/ KeeperCrash, NEW q \in Requests
  PROVE  RequestInv(q)'
<1>1. coord' = q <=> coord = q
  BY KeeperLocks, JournalShape DEF PoolInv
<1> QED
  BY <1>1, KeeperFrame, KeeperBaseline, RequestUntouched DEF PoolInv

\* The baseline is hurt.
LEMMA CorruptKeeps ==
  ASSUME PoolInv, Corrupt, NEW q \in Requests
  PROVE  RequestInv(q)'
<1>1. base'.state = "corrupt" /\ base.state = "valid" /\ base'.gen = base.gen
  BY TypeParts DEF PoolInv, Corrupt, KeeperType, Baselines
<1> QED
  BY <1>1, RequestUntouched DEF PoolInv, Corrupt, locks

\* A request dies where it is.
LEMMA CrashKeeps ==
  ASSUME PoolInv, NEW r \in Requests, Crash(r), NEW q \in Requests
  PROVE  RequestInv(q)'
<1>1. CASE q = r
  <2>1. /\ UNCHANGED <<leaseOf, disk>> /\ RequestInv(r)
        /\ pc'[r] = "dead" /\ \A l \in LeaseIds : marker[l] = r => l = leaseOf[r]
        /\ \A l \in LeaseIds : worker[l] = r => l = leaseOf[r]
    BY Shape DEF PoolInv, Crash, Goto, RequestType, RequestInv, RecordsAccounted, TreeAccounted
  <2>2. HoldsLocks(r)' /\ HasJournal(r)' /\ Listed(r)' /\ HasMarker(r)' /\ HasBaseline(r)'
    BY <2>1 DEF HoldsLocks, HasJournal, Listed, HasMarker, HasBaseline, Locked, Journaled,
       Marked, Cloning, UndoSteps, Held, Before, Uses
  <2>3. CloneIsValid(r)' /\ TreeInPlace(r)' /\ ReleaseInPlace(r)' /\ ReportsFailure(r)'
    BY <2>1 DEF CloneIsValid, TreeInPlace, ReleaseInPlace, ReportsFailure, Held
  <2>4. LocksAccounted(r)' /\ TreeAccounted(r)' /\ RecordsAccounted(r)'
    BY <2>1 DEF LocksAccounted, TreeAccounted, RecordsAccounted, Excused, disk
  <2> QED
    BY <1>1, <2>2, <2>3, <2>4 DEF RequestInv
<1>2. CASE q # r
  BY <1>2, Shape, RequestUntouched DEF PoolInv, Crash, Goto, RequestType, locks, store
<1> QED
  BY <1>1, <1>2

-----------------------------------------------------------------------------
(* The invariant *)

\* It holds when nothing was asked for yet.
LEMMA InitInv == Init => PoolInv
<1> SUFFICES ASSUME Init PROVE PoolInv
  OBVIOUS
<1> USE DEF Init
<1>1. TypeOK
  <2>1. PlanType
    BY DEF PlanType
  <2>2. RequestType
    BY DEF RequestType, Places, AcquireSteps, Contents
  <2>3. DiskType
    BY JournalShape DEF DiskType, Trees
  <2>4. LocksType
    BY RefsAssumption DEF LocksType
  <2>5. KeeperType
    BY DEF KeeperType, Baselines, KeeperPlaces
  <2>6. BoundsType
    BY RefsAssumption DEF BoundsType
  <2> QED
    BY <2>1, <2>2, <2>3, <2>4, <2>5, <2>6, TypeParts
<1>2. KeeperHoldsLock /\ DeletesOne /\ JournalInPlace /\ RenameIsAlone
  BY DEF KeeperHoldsLock, DeletesOne, JournalInPlace, RenameIsAlone
<1>3. ASSUME NEW r \in Requests PROVE RequestInv(r)
  <2>1. /\ leaseOf[r] \in LeaseIds /\ pc[r] = "lock" /\ ~reported[r] /\ done[r] = 0
        /\ quarantine[r] = "none" /\ ~staging[r] /\ ~junction[r]
        /\ \A l \in LeaseIds : journal[l] = None /\ worker[l] = None /\ marker[l] = None
        /\ reservation # r /\ coord # r /\ r # None
    BY <1>1, Shape, JournalShape
  <2>2. HoldsLocks(r) /\ HasJournal(r) /\ Listed(r) /\ HasMarker(r) /\ HasBaseline(r)
    BY <2>1 DEF HoldsLocks, HasJournal, Listed, HasMarker, HasBaseline, Locked, Journaled,
       Marked, Cloning, UndoSteps, Held, Before, Uses
  <2>3. CloneIsValid(r) /\ TreeInPlace(r) /\ ReleaseInPlace(r) /\ ReportsFailure(r)
    BY <2>1 DEF CloneIsValid, TreeInPlace, ReleaseInPlace, ReportsFailure, Held
  <2>4. LocksAccounted(r) /\ TreeAccounted(r) /\ RecordsAccounted(r)
    BY <2>1 DEF LocksAccounted, TreeAccounted, RecordsAccounted, Excused, Owns, Journal
  <2> QED
    BY <2>2, <2>3, <2>4 DEF RequestInv
<1> QED
  BY <1>1, <1>2, <1>3 DEF PoolInv

\* What a request can measure is a number.
LEMMA UsedTyped == ASSUME TypeOK PROVE Used \in Nat
<1>1. IsFiniteSet({r \in Requests : bytes[r] = 1})
  BY RefsAssumption, FS_Subset
<1>2. Cardinality({r \in Requests : bytes[r] = 1}) \in Nat
  BY <1>1, FS_CardinalityType
<1> QED
  BY <1>2, Shape DEF Used, KeeperType

\* Every step keeps the types.
LEMMA TypeKept == ASSUME PoolInv, Next PROVE TypeOK'
<1> USE DEF PoolInv
<1>1. LocksType' /\ KeeperType' /\ BoundsType'
  BY Shape, TypeParts, LocksTyped, KeeperTyped, BoundsTyped
<1>2. PlanType' /\ RequestType' /\ DiskType'
  <2>1. ASSUME NEW r \in Requests, RequestStep(r) PROVE PlanType' /\ RequestType' /\ DiskType'
    BY <2>1, Shape, TypeParts, RequestFrame, RequestTyped, DiskTyped, UsedTyped
       DEF PlanType, KeeperType
  <2>2. CASE KeeperStep \/ KeeperCrash \/ Corrupt
    <3>1. UNCHANGED <<leaseOf, budget, pc, request, disk>>
      BY <2>2, KeeperFrame DEF Corrupt
    <3> QED
      BY <3>1, TypeParts DEF PlanType, RequestType, DiskType, request, disk
  <2>3. ASSUME NEW r \in Requests, Crash(r) PROVE PlanType' /\ RequestType' /\ DiskType'
    <3>1. pc' \in [Requests -> Places]
      BY <2>3, Shape DEF Crash, Goto, RequestType, Places, Ended
    <3> QED
      BY <2>3, <3>1, TypeParts DEF Crash, PlanType, RequestType, DiskType, request, disk
  <2> QED
    BY <2>1, <2>2, <2>3, OtherSteps
<1>3. (PlanType /\ RequestType /\ DiskType /\ LocksType /\ KeeperType /\ BoundsType)' => TypeOK'
  BY DEF TypeOK, PlanType, RequestType, DiskType, LocksType, KeeperType, BoundsType, Places,
     Contents, Trees, Holders, Slots, Baselines, KeeperPlaces
<1> QED
  BY <1>1, <1>2, <1>3

\* A step of a request leaves the keeper's order alone: a marker is made only under
\* the lock, which the keeper has while it renames.
LEMMA KeeperUndisturbed ==
  ASSUME PoolInv, NEW r \in Requests, RequestStep(r)
  PROVE  KeeperHoldsLock' /\ DeletesOne' /\ JournalInPlace' /\ RenameIsAlone'
<1> USE Shape DEF PoolInv, RequestInv
<1>1. UNCHANGED <<leaseOf, keeper, store>>
  BY RequestFrame
<1>2. KeeperHoldsLock'
  BY <1>1, LockStep, JournalShape DEF KeeperHoldsLock, keeper
<1>3. DeletesOne'
  BY <1>1 DEF DeletesOne, keeper, store
<1>4. JournalInPlace'
  BY <1>1, JournalStep DEF JournalInPlace
<1>5. RenameIsAlone'
  <2>1. kpc = "rename" => ~AcquireUse(r)
    BY JournalShape DEF AcquireUse, At, HoldsLocks, KeeperHoldsLock
  <2> QED
    BY <1>1, <2>1, MarkerStep, JournalShape DEF RenameIsAlone, keeper
<1> QED
  BY <1>2, <1>3, <1>4, <1>5

\* Every step keeps the invariant.
LEMMA NextInv == PoolInv /\ [Next]_vars => PoolInv'
<1> SUFFICES ASSUME PoolInv, [Next]_vars PROVE PoolInv'
  OBVIOUS
<1>1. ASSUME NEW r \in Requests, RequestStep(r) PROVE PoolInv'
  <2>1. TypeOK'
    BY <1>1, TypeKept, OtherSteps
  <2>2. \A q \in Requests : RequestInv(q)'
    BY <1>1, OwnKeeps, OthersKeep
  <2> QED
    BY <1>1, <2>1, <2>2, KeeperUndisturbed DEF PoolInv
<1>2. CASE KeeperStep \/ KeeperCrash
  <2>1. TypeOK'
    BY <1>2, TypeKept, OtherSteps
  <2>2. JournalInPlace'
    BY <1>2, KeeperFrame DEF PoolInv, JournalInPlace, disk
  <2> QED
    BY <1>2, <2>1, <2>2, KeeperLocks, KeeperOrder, KeeperKeeps DEF PoolInv
<1>3. CASE Corrupt \/ \E r \in Requests : Crash(r)
  <2>1. TypeOK'
    BY <1>3, TypeKept, OtherSteps
  <2>2. KeeperHoldsLock' /\ DeletesOne' /\ JournalInPlace' /\ RenameIsAlone'
    BY <1>3 DEF Corrupt, Crash, PoolInv, KeeperHoldsLock, DeletesOne, JournalInPlace,
       RenameIsAlone, keeper, store, locks, disk
  <2>3. \A q \in Requests : RequestInv(q)'
    BY <1>3, CorruptKeeps, CrashKeeps
  <2> QED
    BY <2>1, <2>2, <2>3 DEF PoolInv
<1>4. CASE UNCHANGED vars
  <2>1. TypeOK'
    BY <1>4 DEF PoolInv, TypeOK, vars, request, disk, locks, store, keeper
  <2>2. KeeperHoldsLock' /\ DeletesOne' /\ JournalInPlace' /\ RenameIsAlone'
    BY <1>4 DEF vars, PoolInv, KeeperHoldsLock, DeletesOne, JournalInPlace,
       RenameIsAlone, keeper, store, locks, disk
  <2>3. \A q \in Requests : RequestInv(q)'
    BY <1>4, RequestUntouched DEF PoolInv, vars, locks, store
  <2> QED
    BY <2>1, <2>2, <2>3 DEF PoolInv
<1> QED
  BY <1>1, <1>2, <1>3, <1>4, OtherSteps

\* The invariant of the workers of a pool, for every set of requests and lease ids.
THEOREM Invariant == Spec => []PoolInv
BY InitInv, NextInv, PTL DEF Spec

\* Type correctness (worker.go, baseline.go).
THEOREM TypeCorrect == Spec => []TypeOK
<1>1. PoolInv => TypeOK
  BY DEF PoolInv
<1> QED
  BY <1>1, Invariant, PTL

\* What is handed out was cloned from a baseline that was held and valid, and is
\* there, the use and the journal with it (worker.go:156-360, baseline.go:272-463).
THEOREM HandedOutWhole == Spec => []HandedOutIsWhole
<1>1. ASSUME PoolInv PROVE HandedOutIsWhole
  <2>1. BaselineHeld
    BY <1>1 DEF PoolInv, RequestInv, BaselineHeld, HasBaseline
  <2>2. ASSUME NEW r \in Requests, pc[r] \in Held
        PROVE  /\ content[r] = "valid"
               /\ worker[leaseOf[r]] = r /\ junction[r] /\ marker[leaseOf[r]] = r
               /\ Owns(r) /\ Journal(r).state \in {"ready", "running"}
    <3>1. RequestInv(r)
      BY <1>1 DEF PoolInv
    <3> QED
      BY <2>2, <3>1 DEF RequestInv, CloneIsValid, TreeInPlace, HasMarker, Marked, HasJournal,
         Journaled
  <2> QED
    BY <2>1, <2>2 DEF HandedOutIsWhole
<1> QED
  BY <1>1, Invariant, PTL

\* A failed Acquire left nothing behind that it did not report, a release that
\* succeeded left nothing (worker.go:193-349, 479-608; coordination.go:37-45).
THEOREM NothingLeft == Spec => []NothingLeftSilently
<1>1. ASSUME PoolInv PROVE NothingLeftSilently
  <2>1. ASSUME NEW r \in Requests, pc[r] \in {"failed", "released"}, Leftover(r), ~reported[r]
        PROVE  FALSE
    <3>1. RequestInv(r) /\ JournalInPlace /\ TypeOK
      BY <1>1 DEF PoolInv
    <3>2. reservation # r /\ coord # r
      BY <2>1, <3>1 DEF RequestInv, LocksAccounted, Excused, Locked
    <3>3. ~staging[r] /\ ~junction[r] /\ \A l \in LeaseIds : worker[l] # r
      BY <2>1, <3>1 DEF RequestInv, TreeAccounted, Excused, Before, Held
    <3>4. ~Owns(r) /\ \A l \in LeaseIds : marker[l] # r
      BY <2>1, <3>1 DEF RequestInv, RecordsAccounted, Excused, Before, Held, Marked, Cloning,
         Journaled, UndoSteps
    <3>5. \A l \in LeaseIds : journal[l] # None => journal[l].owner # r
      BY <3>1, <3>4 DEF JournalInPlace, Owns, Journal
    <3>6. quarantine[r] = "none"
      BY <2>1, <3>1 DEF RequestInv, TreeInPlace
    <3> QED
      BY <2>1, <3>2, <3>3, <3>4, <3>5, <3>6 DEF Leftover
  <2>2. \A r \in Requests : pc[r] = "released" => ~reported[r]
    BY <1>1 DEF PoolInv, RequestInv, ReportsFailure, UndoSteps
  <2> QED
    BY <2>1, <2>2 DEF NothingLeftSilently
<1> QED
  BY <1>1, Invariant, PTL

\* A release that has begun can go on, an owner file that cannot be read excepted,
\* and the baseline stays in use until the tree is gone (worker.go:513-583).
THEOREM ReleaseGoesOn == Spec => []ReleaseCanGoOn
<1>1. ASSUME PoolInv PROVE ReleaseCanGoOn
  <2>1. ASSUME NEW r \in Requests, At(r, "release")
        PROVE  /\ \/ OwnerUnread(r)
                  \/ /\ done[r] \in 0..2 => worker[leaseOf[r]] = r
                     /\ done[r] = 3 => quarantine[r] = "whole"
               /\ done[r] < 5 => marker[leaseOf[r]] = r
    <3>1. RequestInv(r) /\ quarantine[r] \in {"none", "whole", "torn"} /\ done[r] \in 0..6
      BY <1>1, Shape DEF PoolInv, DiskType, RequestType, Trees
    <3>2. done[r] < 5 => marker[leaseOf[r]] = r
      BY <2>1, <3>1 DEF RequestInv, HasMarker, Before, At
    <3> QED
      BY <2>1, <3>1, <3>2 DEF RequestInv, ReleaseInPlace, OwnerUnread, At
  <2> QED
    BY <2>1 DEF ReleaseCanGoOn
<1> QED
  BY <1>1, Invariant, PTL

-----------------------------------------------------------------------------
(* The room on the volume *)

\* There are finitely many reservations, and no more than their owners.
LEMMA ReservedFinite ==
  ASSUME TypeOK, JournalInPlace, NEW S \in SUBSET LeaseIds, \A l \in S : journal[l] # None
  PROVE  IsFiniteSet(S) /\ Cardinality(S) \in Nat
<1> DEFINE f == [l \in S |-> journal[l].owner]
<1>1. f \in [S -> Requests]
  BY Shape, JournalShape DEF DiskType
<1>2. IsInjective(f)
  BY DEF IsInjective, JournalInPlace
<1>3. f \in Injection(S, Requests)
  BY <1>1, <1>2 DEF Injection
<1>4. IsFiniteSet(S)
  BY <1>3, FS_Injection, RefsAssumption
<1> QED
  BY <1>4, FS_CardinalityType

\* A request that takes room without having said so has a reservation of its own,
\* which is one that is written to.
LEMMA RoomIsReserved ==
  ASSUME PoolInv, \A r \in Requests : HasReserved(r),
         \A r \in Requests : ~(reported[r] /\ bytes[r] > 0)
  PROVE  Cardinality({r \in Requests : bytes[r] = 1}) + Cardinality(Unspent)
             <= Cardinality(Reserved)
<1> DEFINE Full == {r \in Requests : bytes[r] = 1}
           Spent == Reserved \ Unspent
           f == [r \in Full |-> leaseOf[r]]
<1>0. TypeOK /\ JournalInPlace
  BY DEF PoolInv
<1>1. \A r \in Full : leaseOf[r] \in Spent /\ journal[leaseOf[r]].owner = r
  BY <1>0, Shape DEF HasReserved, Owns, Journal, Reserved, Unspent
<1>2. f \in Injection(Full, Spent)
  BY <1>1 DEF Injection, IsInjective
<1>3. IsFiniteSet(Reserved) /\ IsFiniteSet(Unspent) /\ IsFiniteSet(Spent)
  BY <1>0, ReservedFinite DEF Reserved, Unspent
<1>4. Cardinality(Full) <= Cardinality(Spent) /\ IsFiniteSet(Full)
  BY <1>2, <1>3, FS_Injection
<1>5. Reserved \cap Unspent = Unspent
  BY DEF Reserved, Unspent
<1>6. Cardinality(Spent) = Cardinality(Reserved) - Cardinality(Unspent)
  BY <1>3, <1>5, FS_Difference
<1>7. /\ Cardinality(Full) \in Nat /\ Cardinality(Spent) \in Nat
      /\ Cardinality(Reserved) \in Nat /\ Cardinality(Unspent) \in Nat
  BY <1>3, <1>4, FS_CardinalityType
<1> QED
  BY <1>4, <1>6, <1>7

\* What lasts is a number.
LEMMA LastingTyped == ASSUME TypeOK PROVE Lasting \in Nat
BY Shape DEF Lasting, KeeperType

\* Only a build makes it more.
LEMMA LastingShrinks ==
  ASSUME PoolInv, [Next]_vars
  PROVE  base'.gen = 0 => base.gen = 0 /\ Lasting' <= Lasting
<1>1. TypeOK /\ DeletesOne /\ discarded \in Nat /\ base \in Baselines
      /\ base.state \in {"valid", "corrupt", "missing"} /\ base.gen \in Nat
  BY Shape DEF PoolInv, KeeperType
<1>2. Lasting \in Nat
  BY <1>1, LastingTyped
<1>3. CASE UNCHANGED store
  BY <1>1, <1>2, <1>3 DEF store, Lasting
<1>4. CASE KeeperRename
  BY <1>1, <1>2, <1>4 DEF KeeperRename, Lasting, store, Baselines
<1>5. CASE KeeperDelete
  BY <1>1, <1>2, <1>5 DEF KeeperDelete, Lasting, KAt, DeletesOne
<1>6. CASE KeeperBuild
  BY <1>1, <1>2, <1>6 DEF KeeperBuild, Lasting
<1>7. CASE Corrupt
  BY <1>1, <1>2, <1>7 DEF Corrupt, Lasting, Baselines
<1>8. UNCHANGED store \/ KeeperRename \/ KeeperDelete \/ KeeperBuild \/ Corrupt
  <2>1. ASSUME NEW r \in Requests, RequestStep(r) PROVE UNCHANGED store
    BY <2>1, RequestFrame
  <2>2. ASSUME NEW r \in Requests, Crash(r) PROVE UNCHANGED store
    BY <2>2 DEF Crash
  <2>3. CASE KeeperStep \/ KeeperCrash
    BY <2>3
      DEF KeeperStep, KeeperStart, KeeperResolve, KeeperLock, KeeperMark, KeeperCheck,
            KeeperUnmark, KeeperUnlock, KeeperLeave, KeeperCrash
  <2> QED
    BY <2>1, <2>2, <2>3, OtherSteps DEF vars
<1> QED
  BY <1>3, <1>4, <1>5, <1>6, <1>7, <1>8

\* A request that takes room has its reservation until it gave the room back.
LEMMA OwnReserved ==
  ASSUME NEW r \in Requests, RequestStep(r), PoolInv, HasReserved(r)
  PROVE  HasReserved(r)'
<1> USE DEF RequestStep, Acquire, Release, LockReservation, Measure, ListLeases, Reserve,
        UnlockReservation, ResolveBaseline, LockCoord, AcquireUse, UnlockCoord,
        CheckPaths, JournalCloning, CreateStaging, Clone, CommitWorker,
        VerifyAfterClone, CreateJunction, JournalReady, UndoLink, UndoTree, UndoUse,
        UndoJournal, Undo, MarkRunning, UnityEnds, StartRelease, RemoveJunction,
        QuarantineWorker, DeleteWorker, ReleaseUse, JournalReleased, RemoveJournal,
        Releasing, Reach
<1> USE Shape, JournalShape, StateShape DEF RequestType, DiskType, Held, At, Goto, Excused
<1>1. TypeOK /\ RequestInv(r) /\ bytes[r] \in 0..1 /\ (pc[r] = "dead" => ~RequestStep(r))
  BY DEF PoolInv
<1>2. bytes'[r] = 1 => Excused(r)' \/ pc'[r] \in Filled
  <2>1. CASE Release(r)
    BY <1>1, <2>1 DEF HasReserved, Filled
  <2>2. CASE ~Release(r)
    BY <1>1, <2>2 DEF HasReserved, Filled, disk, request, RemoveTree
  <2> QED
    BY <2>1, <2>2
<1>3. pc'[r] = "release" /\ done'[r] > 3 => bytes'[r] = 0
  <2>1. CASE Release(r)
    BY <1>1, <2>1, SMTT(40) DEF HasReserved
  <2>2. CASE ~Release(r)
    BY <1>1, <2>2 DEF RequestInv, TreeInPlace, disk, request
  <2> QED
    BY <2>1, <2>2
<1>4. Owns(r)' /\ Journal(r)'.state = "released" => pc'[r] \in {"release", "dead"} /\ done'[r] = 6
  <2>1. CASE Release(r)
    BY <1>1, <2>1, SMTT(40) DEF HasReserved, Owns, Journal, Record, Mine
  <2>2. CASE ~Release(r)
    BY <1>1, <2>2 DEF HasReserved, Owns, Journal, Record, Mine, disk, request
  <2> QED
    BY <2>1, <2>2, SMTT(40)
<1>6. pc'[r] # "dead"
  BY <1>1 DEF disk
<1>5. bytes'[r] = 1 => reported'[r] \/ (Owns(r)' /\ Journal(r)'.state # "released")
  <2>1. ASSUME bytes'[r] = 1, ~reported'[r] PROVE Owns(r)'
    BY <1>1, <1>2, <1>6, <2>1, OwnJournal
       DEF RequestInv, HasJournal, Journaled, Cloning, UndoSteps, Filled
  <2>2. ASSUME bytes'[r] = 1, ~reported'[r], Owns(r)', Journal(r)'.state = "released" PROVE FALSE
    BY <1>3, <1>4, <1>6, <2>2
  <2> QED
    BY <2>1, <2>2, SMTT(40)
<1> QED
  BY <1>2, <1>3, <1>4, <1>5 DEF HasReserved

\* Others do not take its room or its reservation.
LEMMA OthersReserved ==
  ASSUME NEW r \in Requests, RequestStep(r), PoolInv, NEW q \in Requests, q # r, HasReserved(q)
  PROVE  HasReserved(q)'
BY OthersAlone, OthersJournal DEF PoolInv, HasReserved, Excused

\* A reservation goes when its journal says so or is removed; a new one is made
\* within the budget.
LEMMA ReservedStep ==
  ASSUME NEW r \in Requests, RequestStep(r), PoolInv, HasReserved(r), Measured(r)
  PROVE  \/ journal' = journal
         \/ Owns(r) /\ Reserved' \subseteq Reserved
         \/ /\ Reserved' = Reserved \cup {leaseOf[r]}
            /\ base.gen = 0 => Lasting + Cardinality(Reserved) + 1 <= budget
<1> USE Shape, JournalShape, StateShape DEF PoolInv, RequestType, DiskType
<1>1. CASE Owns(r) /\ journal' # journal
  <2>1. Journal(r).state = "released" => RemoveJournal(r)
    BY <1>1
      DEF RequestStep, Acquire, Release, LockReservation, Measure, ListLeases, Reserve,
            UnlockReservation, ResolveBaseline, LockCoord, AcquireUse, UnlockCoord,
            CheckPaths, JournalCloning, CreateStaging, Clone, CommitWorker,
            VerifyAfterClone, CreateJunction, JournalReady, UndoLink, UndoTree, UndoUse,
            UndoJournal, Undo, MarkRunning, UnityEnds, StartRelease, RemoveJunction,
            QuarantineWorker, DeleteWorker, ReleaseUse, JournalReleased, RemoveJournal,
            Releasing, Reach, HasReserved, At
  <2>2. \A l \in LeaseIds : l # leaseOf[r] => journal'[l] = journal[l]
    BY JournalStep DEF RequestInv
  <2>3. RemoveJournal(r) => Journal(r)' = None
    BY <1>1 DEF RemoveJournal, Releasing, Mine, Journal
  <2>4. UNCHANGED leaseOf
    BY RequestFrame
  <2> QED
    BY <1>1, <2>1, <2>2, <2>3, <2>4 DEF Reserved, Owns, Journal
<1>2. CASE Reserve(r) /\ ~Refused(r) /\ NoFault /\ Record(r, "requested")
  <2>1. pc[r] = "reserve" /\ Active(r) = Reserved
    BY <1>2 DEF RequestInv, Listed, Reserve, At, Active, Reserved
  <2>2. Reserved' = Reserved \cup {leaseOf[r]}
    BY <1>2 DEF Record, Reserved
  <2>3. Cardinality(Reserved) \in Nat
    BY ReservedFinite DEF Reserved
  <2>4. Lasting \in Nat
    BY LastingTyped
  <2>5. used[r] + Cardinality(Reserved) + 1 <= budget
    BY <1>2, <2>1, <2>3 DEF Refused
  <2>6. base.gen = 0 => used[r] >= Lasting
    BY <2>1 DEF Measured
  <2> QED
    BY <2>2, <2>3, <2>4, <2>5, <2>6
<1> QED
  BY <1>1, <1>2, JournalStep DEF RequestInv

\* What is measured under the lock is no less than what lasts until it is used.
LEMMA MeasuredKept ==
  ASSUME PoolInv, Next, \A r \in Requests : Measured(r), NEW q \in Requests
  PROVE  Measured(q)'
<1>1. TypeOK /\ Lasting \in Nat /\ (base'.gen = 0 => base.gen = 0 /\ Lasting' <= Lasting)
  BY LastingShrinks, LastingTyped DEF PoolInv
<1>2. Used \in Nat /\ Used >= Lasting
  <2>1. Cardinality({r \in Requests : bytes[r] = 1}) \in Nat
    BY RefsAssumption, FS_Subset, FS_CardinalityType
  <2> QED
    BY <1>1, <2>1 DEF Used, Lasting
<1>3. Lasting' \in Nat
  BY <1>1, Shape, KeeperTyped DEF PoolInv, KeeperType, Lasting
<1>4. used[q] \in Nat /\ Measured(q)
  BY <1>1, Shape DEF RequestType
<1>5. \/ pc'[q] \notin {"list", "reserve"}
      \/ pc[q] \in {"list", "reserve"} /\ used'[q] = used[q]
      \/ used'[q] = Used
  <2>1. CASE RequestStep(q)
    BY <1>1, <2>1, Shape
      DEF RequestStep, Acquire, Release, LockReservation, Measure, ListLeases, Reserve,
            UnlockReservation, ResolveBaseline, LockCoord, AcquireUse, UnlockCoord,
            CheckPaths, JournalCloning, CreateStaging, Clone, CommitWorker,
            VerifyAfterClone, CreateJunction, JournalReady, UndoLink, UndoTree, UndoUse,
            UndoJournal, Undo, MarkRunning, UnityEnds, StartRelease, RemoveJunction,
            QuarantineWorker, DeleteWorker, ReleaseUse, JournalReleased, RemoveJournal,
            Releasing, Reach, At, Goto, RequestType, request
  <2>2. ASSUME NEW r \in Requests, r # q, RequestStep(r) PROVE pc'[q] = pc[q] /\ used'[q] = used[q]
    BY <1>1, <2>2, OthersAlone
  <2>3. CASE KeeperStep \/ KeeperCrash \/ Corrupt
    BY <2>3, KeeperFrame DEF Corrupt, request
  <2>4. ASSUME NEW r \in Requests, Crash(r)
        PROVE  used'[q] = used[q] /\ (pc'[q] = pc[q] \/ pc'[q] = "dead")
    BY <1>1, <2>4, Shape DEF Crash, Goto, RequestType, request
  <2> QED
    BY <2>1, <2>2, <2>3, <2>4, OtherSteps
<1> QED
  BY <1>1, <1>2, <1>3, <1>4, <1>5 DEF Measured

\* A reservation is made within the budget and what lasts does not grow: the budget
\* is kept.
LEMMA BudgetKept ==
  ASSUME PoolInv, RoomInv, Next PROVE RoomKept'
<1> SUFFICES ASSUME base'.gen = 0, NEW l \in LeaseIds, journal'[l] # None
             PROVE  Lasting' + Cardinality(Reserved') <= budget'
  BY DEF RoomKept
<1>1. /\ TypeOK /\ JournalInPlace /\ TypeOK' /\ budget' = budget /\ budget \in Nat
      /\ base.gen = 0 /\ Lasting \in Nat /\ Lasting' <= Lasting
  <2>1. budget' = budget
    BY RequestFrame, KeeperFrame, OtherSteps DEF Corrupt, Crash
  <2> QED
    BY <2>1, TypeKept, LastingShrinks, LastingTyped, Shape DEF PoolInv
<1>2. Lasting' \in Nat
  BY <1>1, Shape, KeeperTyped DEF PoolInv, KeeperType, Lasting
<1>3. IsFiniteSet(Reserved) /\ Cardinality(Reserved) \in Nat
  BY <1>1, ReservedFinite DEF Reserved
<1>4. CASE journal' = journal
  BY <1>1, <1>2, <1>3, <1>4 DEF Reserved, RoomInv, RoomKept
<1>5. ASSUME NEW r \in Requests, RequestStep(r), journal' # journal
      PROVE  Lasting' + Cardinality(Reserved') <= budget
  <2>1. CASE Owns(r) /\ Reserved' \subseteq Reserved
    <3>1. Cardinality(Reserved') <= Cardinality(Reserved) /\ Cardinality(Reserved') \in Nat
      BY <1>3, <2>1, FS_Subset, FS_CardinalityType
    <3>2. Lasting + Cardinality(Reserved) <= budget
      BY <1>1, <2>1, Shape DEF RoomInv, RoomKept, Owns, Journal
    <3> QED
      BY <1>1, <1>2, <1>3, <3>1, <3>2
  <2>2. CASE /\ Reserved' = Reserved \cup {leaseOf[r]}
             /\ Lasting + Cardinality(Reserved) + 1 <= budget
    <3>1. Cardinality(Reserved \cup {leaseOf[r]}) =
              IF leaseOf[r] \in Reserved THEN Cardinality(Reserved)
              ELSE Cardinality(Reserved) + 1
      BY <1>3, FS_AddElement
    <3>2. /\ Cardinality(Reserved') <= Cardinality(Reserved) + 1
          /\ Cardinality(Reserved') \in Nat
      BY <1>3, <2>2, <3>1
    <3> QED
      BY <1>1, <1>2, <1>3, <2>2, <3>2
  <2> QED
    BY <1>1, <1>5, <2>1, <2>2, ReservedStep DEF RoomInv
<1>6. journal' = journal \/ \E r \in Requests : RequestStep(r)
  BY KeeperFrame, OtherSteps DEF Corrupt, Crash, disk
<1> QED
  BY <1>1, <1>4, <1>5, <1>6

\* Nothing is on the volume yet but the baseline.
LEMMA InitRoom == Init => RoomInv
<1> SUFFICES ASSUME Init PROVE RoomInv
  OBVIOUS
<1>1. RoomKept
  BY DEF Init, RoomKept
<1>2. ASSUME NEW r \in Requests PROVE HasReserved(r) /\ Measured(r)
  <2>1. leaseOf[r] \in LeaseIds
    BY InitInv, Shape DEF PoolInv
  <2> QED
    BY <2>1 DEF Init, HasReserved, Measured, Owns, Journal, Excused
<1> QED
  BY <1>1, <1>2 DEF RoomInv

\* Every step keeps the room that is accounted for.
LEMMA NextRoom == PoolInv /\ RoomInv /\ [Next]_vars => RoomInv'
<1> SUFFICES ASSUME PoolInv, RoomInv, [Next]_vars PROVE RoomInv'
  OBVIOUS
<1>1. CASE UNCHANGED vars
  BY <1>1 DEF vars, request, disk, locks, store, keeper, RoomInv, RoomKept, HasReserved,
     Measured, Lasting, Reserved, Owns, Journal, Excused
<1>2. CASE Next
  <2>1. RoomKept'
    BY <1>2, BudgetKept
  <2>2. \A q \in Requests : Measured(q)'
    BY <1>2, MeasuredKept DEF RoomInv
  <2>3. ASSUME NEW q \in Requests PROVE HasReserved(q)'
    <3>1. ASSUME NEW r \in Requests, RequestStep(r) PROVE HasReserved(q)'
      BY <3>1, OwnReserved, OthersReserved DEF RoomInv
    <3>2. CASE KeeperStep \/ KeeperCrash \/ Corrupt
      BY <3>2, KeeperFrame
         DEF Corrupt, RoomInv, HasReserved, Owns, Journal, Excused, request, disk
    <3>3. ASSUME NEW r \in Requests, Crash(r) PROVE HasReserved(q)'
      <4>1. /\ UNCHANGED <<leaseOf, request, disk>> /\ (pc'[q] = pc[q] \/ pc'[q] = "dead")
            /\ pc[r] # "dead" /\ HasReserved(q)
        BY <3>3, Shape DEF PoolInv, RoomInv, Crash, Goto, RequestType, Ended
      <4> QED
        BY <4>1 DEF HasReserved, Owns, Journal, Excused, request, disk
    <3> QED
      BY <1>2, <3>1, <3>2, <3>3, OtherSteps
  <2> QED
    BY <2>1, <2>2, <2>3 DEF RoomInv
<1> QED
  BY <1>1, <1>2

\* The reservations and what is on the volume stay within the soft budget, so that
\* no two requests count on the same room (worker.go:423-463).
THEOREM BudgetHolds == Spec => []WithinBudget
<1>1. Init => PoolInv /\ RoomInv
  BY InitInv, InitRoom
<1>2. PoolInv /\ RoomInv /\ [Next]_vars => (PoolInv /\ RoomInv)'
  BY NextInv, NextRoom
<1>3. PoolInv /\ RoomInv => WithinBudget
  <2> SUFFICES ASSUME PoolInv, RoomInv, ~Overlooked, \E l \in LeaseIds : journal[l] # None
               PROVE  Used + Cardinality(Unspent) <= budget
    BY DEF WithinBudget
  <2>1. TypeOK /\ JournalInPlace /\ base.gen = 0 /\ budget \in Nat /\ Lasting \in Nat
    <3>1. TypeOK /\ JournalInPlace
      BY DEF PoolInv
    <3>2. Lasting \in Nat
      BY <3>1, LastingTyped
    <3>3. base.gen = 0
      BY <3>1, Shape DEF Overlooked
    <3> QED
      BY <3>1, <3>2, <3>3, Shape
  <2>2. Lasting + Cardinality(Reserved) <= budget
    BY <2>1 DEF RoomInv, RoomKept
  <2>3. Cardinality({r \in Requests : bytes[r] = 1}) + Cardinality(Unspent)
            <= Cardinality(Reserved)
    BY RoomIsReserved DEF RoomInv, Overlooked
  <2>4. Cardinality(Reserved) \in Nat /\ Cardinality(Unspent) \in Nat
        /\ Cardinality({r \in Requests : bytes[r] = 1}) \in Nat
    BY <2>1, ReservedFinite, RefsAssumption, FS_Subset, FS_CardinalityType
       DEF Reserved, Unspent
  <2> QED
    BY <2>1, <2>2, <2>3, <2>4 DEF Used, Lasting
<1> QED
  BY <1>1, <1>2, <1>3, PTL DEF Spec
==============================================================================
