----------------------------- MODULE ImageStore -----------------------------
(***************************************************************************)
(* The Library image store (internal/libraryimage: store.go, lock.go) as   *)
(* the runs of one project use it (runsvc/workspace_backend.go,            *)
(* prepareImageWorkspace): several processes that resolve one image,       *)
(* build it under a lock file when it is missing or corrupt, verify it and *)
(* copy its Library into their own workspace, while one of them clears the *)
(* store, and one may die and leave its lock and its staging directory.    *)
(*                                                                         *)
(* One key is modelled.  A Library is two halves, so that a removal and a  *)
(* copy can interleave; each half names the run whose Unity made it.       *)
(***************************************************************************)
EXTENDS Naturals, FiniteSets

CONSTANTS Runs,                 \* the runs, each a process with a pid of its own
          Nobody,               \* not a run
          MaxClears, MaxCrashes

ASSUME ImageStoreAssumption ==
    /\ IsFiniteSet(Runs) /\ Nobody \notin Runs /\ {MaxClears, MaxCrashes} \subseteq Nat

VARIABLES
    image,      \* images/<digest>
    stage,      \* images/.<digest>.tmp-* of each run
    lock,       \* locks/<digest>.lock
    pc,
    ok,         \* did Ensure succeed?
    seen,       \* the stale lock a run has read
    tries,      \* the attempts of acquireLock
    meta,       \* the metadata of the image a run was given
    from,       \* history: the run that built it
    work,       \* the Library in the workspace
    raced,      \* history: a lock was removed that its remover had not read
    hit,        \* history: runs that lost staged or half copied files to a Clear
    clears, crashes

vars == <<image, stage, lock, pc, ok, seen, tries, meta, from, work, raced, hit, clears, crashes>>
lockVars == <<seen, tries>>
given == <<meta, from>>
store == <<image, stage, lock>>
history == <<raced, hit, clears, crashes>>

Unset == <<Nobody, Nobody>>
NoImage == [by |-> Nobody, files |-> Unset, sum |-> Unset, complete |-> FALSE]
NoLock == [by |-> Nobody, written |-> FALSE, old |-> FALSE]

\* verifyPath: the completion marker is there and the hash is the one in the metadata.
Valid(i) == i.complete /\ i.sum = i.files

Goto(r, to) == pc' = [pc EXCEPT ![r] = to]
At(r, here, to) == pc[r] = here /\ Goto(r, to)

\* The image a run was given: the metadata of a Resolve, or of its own commit.
Take(r, i) == meta' = [meta EXCEPT ![r] = i.sum] /\ from' = [from EXCEPT ![r] = i.by]

-----------------------------------------------------------------------------
(* --clear-cache                                                           *)
StartPlain(r) == At(r, "start", "resolve") /\ UNCHANGED <<store, ok, lockVars, given, work, history>>

ClearList(r) ==
    /\ pc[r] = "start" /\ clears < MaxClears /\ clears' = clears + 1
    /\ Goto(r, IF lock.by = Nobody THEN "clear" ELSE "failed")
    /\ UNCHANGED <<store, ok, lockVars, given, work, raced, hit, crashes>>

\* os.RemoveAll of the whole store takes the files one by one in some order,
\* those that were made since the locks were listed as well.
Torn(i) ==
    ({[i EXCEPT !.complete = FALSE, !.sum = Unset]} \cup {[i EXCEPT !.files = IF h = 1 THEN <<Nobody, @[2]>> ELSE <<@[1], Nobody>>] : h \in {1, 2}}
        \cup (IF i.files = Unset /\ ~i.complete THEN {NoImage} ELSE {})) \ {i}

ClearImage(r) ==
    /\ pc[r] = "clear" /\ image.by # Nobody /\ image' \in Torn(image)
    /\ hit' = hit \cup {x \in Runs : pc[x] \in {"copy", "copying"}}
    /\ UNCHANGED <<stage, lock, pc, ok, lockVars, given, work, raced, clears, crashes>>

ClearStage(r) ==
    /\ pc[r] = "clear"
    /\ \E x \in Runs :
          /\ stage[x].by # Nobody /\ \E torn \in Torn(stage[x]) : stage' = [stage EXCEPT ![x] = torn]
          /\ hit' = hit \cup {x}
    /\ UNCHANGED <<image, lock, pc, ok, lockVars, given, work, raced, clears, crashes>>

ClearLock(r) ==
    /\ pc[r] = "clear" /\ lock.by # Nobody /\ lock' = NoLock /\ raced' = TRUE
    /\ UNCHANGED <<image, stage, pc, ok, lockVars, given, work, hit, clears, crashes>>

\* RemoveAll ends well when it has found the store empty, and may give up otherwise.
ClearEnd(r) ==
    /\ pc[r] = "clear"
    /\ Goto(r, IF image.by = Nobody /\ lock.by = Nobody /\ \A x \in Runs : stage[x].by = Nobody THEN "resolve" ELSE "failed")
    /\ UNCHANGED <<store, ok, lockVars, given, work, history>>

-----------------------------------------------------------------------------
(* acquireLock                                                             *)
Resolve(r) ==
    /\ pc[r] = "resolve"
    /\ IF Valid(image) THEN Goto(r, "verify") /\ Take(r, image) ELSE Goto(r, "lock") /\ UNCHANGED given
    /\ UNCHANGED <<store, ok, lockVars, work, history>>

\* O_EXCL, twice at most.
TryLock(r) ==
    /\ pc[r] = "lock"
    /\ IF tries[r] = 2 THEN Goto(r, "failed") /\ UNCHANGED <<lock, tries>>
       ELSE /\ tries' = [tries EXCEPT ![r] = @ + 1]
            /\ IF lock.by = Nobody THEN lock' = [NoLock EXCEPT !.by = r] /\ Goto(r, "write")
               ELSE Goto(r, "judge") /\ UNCHANGED lock
    /\ UNCHANGED <<image, stage, ok, seen, given, work, history>>

\* The record is written to the open file, wherever its name is by now; when that
\* fails, whatever has the name is removed.
WriteLock(r) ==
    /\ pc[r] = "write"
    /\ \/ /\ Goto(r, "locked") /\ UNCHANGED raced
          /\ lock' = IF lock.by = r THEN [lock EXCEPT !.written = TRUE] ELSE lock
       \/ Goto(r, "failed") /\ lock' = NoLock /\ raced' = (raced \/ lock.by \notin {Nobody, r})
    /\ UNCHANGED <<image, stage, ok, lockVars, given, work, hit, clears, crashes>>

\* A process whose run has failed has gone, like one that was killed.
Alive(x) == pc[x] \notin {"dead", "failed"}

\* Bug: the age alone makes a lock stale.
StaleByAge(l) == l.written /\ l.old

Stale(l) == l.written /\ l.old /\ ~Alive(l.by)

JudgeLock(r) ==
    /\ pc[r] = "judge"
    /\ IF lock.by # Nobody /\ Stale(lock)
       THEN Goto(r, "reread") /\ seen' = [seen EXCEPT ![r] = lock.by]
       ELSE Goto(r, "failed") /\ UNCHANGED seen
    /\ UNCHANGED <<store, ok, tries, given, work, history>>

RereadLock(r) ==
    /\ pc[r] = "reread" /\ Goto(r, IF lock.by = seen[r] THEN "remove" ELSE "failed")
    /\ UNCHANGED <<store, ok, lockVars, given, work, history>>

\* os.Remove takes the name, whoever's lock has it by now.
RemoveStale(r) ==
    /\ pc[r] = "remove" /\ lock' = NoLock /\ Goto(r, IF lock.by = Nobody THEN "failed" ELSE "lock")
    /\ raced' = (raced \/ lock.by \notin {Nobody, seen[r]})
    /\ UNCHANGED <<image, stage, ok, lockVars, given, work, hit, clears, crashes>>

\* The lock grows older than staleLockAge.
Age ==
    /\ lock.by # Nobody /\ ~lock.old /\ lock' = [lock EXCEPT !.old = TRUE]
    /\ UNCHANGED <<image, stage, pc, ok, lockVars, given, work, history>>

-----------------------------------------------------------------------------
(* Ensure, under the lock                                                  *)

\* Bug: what the run has resolved before it had the lock is not looked at again.
LockedBuild(r) ==
    /\ At(r, "locked", IF image.by # Nobody THEN "quarantine" ELSE "build")
    /\ UNCHANGED <<store, ok, lockVars, given, work, history>>

LockedResolve(r) ==
    /\ pc[r] = "locked"
    /\ IF Valid(image) THEN Take(r, image) /\ ok' = [ok EXCEPT ![r] = TRUE] /\ Goto(r, "unlock")
       ELSE /\ Goto(r, IF image.by # Nobody THEN "quarantine" ELSE "build")
            /\ UNCHANGED <<given, ok>>
    /\ UNCHANGED <<store, lockVars, work, history>>

Quarantine(r) ==
    /\ At(r, "quarantine", "build") /\ image' = NoImage
    /\ UNCHANGED <<stage, lock, ok, lockVars, given, work, history>>

\* Unity compiles in a workspace of its own, and the Library is copied to staging.
Build(r) ==
    /\ At(r, "build", "sum")
    /\ stage' = [stage EXCEPT ![r] = [NoImage EXCEPT !.by = r, !.files = <<r, r>>]]
    /\ UNCHANGED <<image, lock, ok, lockVars, given, work, history>>

\* The metadata describes what is staged now, and the marker follows it.
Sum(r) ==
    /\ pc[r] = "sum" /\ stage[r].by # Nobody /\ Goto(r, "check")
    /\ stage' = [stage EXCEPT ![r] = [@ EXCEPT !.sum = stage[r].files, !.complete = TRUE]]
    /\ UNCHANGED <<image, lock, ok, lockVars, given, work, history>>

CheckStage(r) ==
    /\ At(r, "check", IF Valid(stage[r]) THEN "commit" ELSE "undo")
    /\ Take(r, stage[r]) /\ UNCHANGED <<store, ok, lockVars, work, history>>

\* The rename does not replace a directory.
Commit(r) ==
    /\ pc[r] = "commit" /\ stage[r].by # Nobody /\ image.by = Nobody
    /\ Goto(r, "unlock")
    /\ image' = stage[r] /\ stage' = [stage EXCEPT ![r] = NoImage] /\ ok' = [ok EXCEPT ![r] = TRUE]
    /\ UNCHANGED <<lock, lockVars, given, work, history>>

\* Whatever fails under the lock takes the staging directory away.
EnsureFails(r) ==
    /\ pc[r] \in {"locked", "quarantine", "build", "sum", "check", "commit"} /\ Goto(r, "undo")
    /\ UNCHANGED <<store, ok, lockVars, given, work, history>>

Undo(r) ==
    /\ At(r, "undo", "unlock") /\ stage' = [stage EXCEPT ![r] = NoImage]
    /\ UNCHANGED <<image, lock, ok, lockVars, given, work, history>>

\* release: only a lock with the token of this run is removed.
AfterEnsure(r) == IF ok[r] THEN "verify" ELSE "failed"

ReadToken(r) ==
    /\ At(r, "unlock", IF lock.by = r THEN "unlink" ELSE AfterEnsure(r))
    /\ UNCHANGED <<store, ok, lockVars, given, work, history>>

Unlink(r) ==
    /\ At(r, "unlink", AfterEnsure(r))
    /\ \/ lock' = NoLock /\ raced' = (raced \/ lock.by \notin {Nobody, r})
       \/ UNCHANGED <<lock, raced>>                      \* the removal fails unnoticed
    /\ UNCHANGED <<image, stage, ok, lockVars, given, work, hit, clears, crashes>>

-----------------------------------------------------------------------------
(* The workspace                                                           *)

Verify(r) ==
    /\ At(r, "verify", IF Valid(image) THEN "copy" ELSE "failed")
    /\ UNCHANGED <<store, ok, lockVars, given, work, history>>

Copy(r) ==
    /\ At(r, "copy", "copying") /\ work' = [work EXCEPT ![r] = <<image.files[1], Nobody>>]
    /\ UNCHANGED <<store, ok, lockVars, given, history>>

CopyRest(r) ==
    /\ At(r, "copying", "compare") /\ work' = [work EXCEPT ![r][2] = image.files[2]]
    /\ UNCHANGED <<store, ok, lockVars, given, history>>

\* Bug: what was copied is not counted.
CompareNothing(r) ==
    At(r, "compare", "ready") /\ UNCHANGED <<store, ok, lockVars, given, work, history>>

\* The files and the bytes are counted, their contents are not compared.
Compare(r) ==
    /\ At(r, "compare", IF \A h \in {1, 2} : work[r][h] = Nobody <=> meta[r][h] = Nobody THEN "ready" ELSE "failed")
    /\ UNCHANGED <<store, ok, lockVars, given, work, history>>

\* A call that fails, or a cancelled context, where nothing is held.
RunFails(r) ==
    /\ pc[r] \in {"resolve", "lock", "judge", "verify", "copy", "copying"} /\ Goto(r, "failed")
    /\ UNCHANGED <<store, ok, lockVars, given, work, history>>

\* A run is killed: its lock and its staging directory stay.
Crash(r) ==
    /\ pc[r] \notin {"start", "ready", "failed", "dead"} /\ crashes < MaxCrashes /\ crashes' = crashes + 1
    /\ Goto(r, "dead") /\ UNCHANGED <<store, ok, lockVars, given, work, raced, hit, clears>>

-----------------------------------------------------------------------------
Init ==
    /\ image = NoImage /\ lock = NoLock /\ stage = [r \in Runs |-> NoImage]
    /\ pc = [r \in Runs |-> "start"] /\ ok = [r \in Runs |-> FALSE]
    /\ seen = [r \in Runs |-> Nobody] /\ tries = [r \in Runs |-> 0]
    /\ meta = [r \in Runs |-> Unset] /\ from = [r \in Runs |-> Nobody] /\ work = [r \in Runs |-> Unset]
    /\ raced = FALSE /\ hit = {} /\ clears = 0 /\ crashes = 0

Clear(r) == ClearList(r) \/ ClearImage(r) \/ ClearStage(r) \/ ClearLock(r) \/ ClearEnd(r)
AcquireLock(r) == TryLock(r) \/ WriteLock(r) \/ JudgeLock(r) \/ RereadLock(r) \/ RemoveStale(r)
Ensure(r) ==
    \/ LockedResolve(r) \/ Quarantine(r) \/ Build(r) \/ Sum(r) \/ CheckStage(r) \/ Commit(r)
    \/ EnsureFails(r) \/ Undo(r) \/ ReadToken(r) \/ Unlink(r)
Materialize(r) == Verify(r) \/ Copy(r) \/ CopyRest(r) \/ Compare(r)

Next ==
    \/ \E r \in Runs :
          \/ StartPlain(r) \/ Clear(r) \/ Resolve(r) \/ AcquireLock(r) \/ Ensure(r) \/ Materialize(r)
          \/ RunFails(r) \/ Crash(r)
    \/ Age

Spec == Init /\ [][Next]_vars

-----------------------------------------------------------------------------
(* Properties.                                                             *)

\* A run that goes on to its tests has the whole Library of one build, although
\* it checks only the image, before the copy, and the number of files and
\* bytes, after it.  What a Clear takes from a
\* Library being copied is noticed, unless another build has put it there again
\* (as after a race for a stale lock, which may quarantine a valid image); what
\* it takes from a Library being staged may be missing in the image for good.
HandedOutIsWhole ==
    \A r \in Runs : pc[r] = "ready" /\ from[r] \notin hit =>
        /\ Nobody \notin {work[r][1], work[r][2]}
        /\ r \notin hit /\ ~raced => work[r][1] = work[r][2]

Building == {r \in Runs : pc[r] \in {"build", "sum", "check", "commit"}}

\* Unity imports the project for one run only, and only while there is no valid
\* image, as long as no lock was removed by a run that had not judged it.
BuildIsNeeded ==
    ~raced => /\ Cardinality(Building) <= 1
              /\ Building # {} => ~Valid(image)

\* A valid image stays what it is: nobody quarantines or replaces it on the
\* strength of an earlier look at the store.  Only a Clear takes it away.
PublishedStays ==
    [][~raced' /\ Valid(image) => image' = image \/ \E r \in Runs : pc[r] = "clear"]_vars
=============================================================================
