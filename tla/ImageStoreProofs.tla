-------------------------- MODULE ImageStoreProofs ---------------------------
(* Machine-checked proofs about ImageStore, for every set of runs and every   *)
(* value of the bounds.                                                       *)
EXTENDS ImageStore, FiniteSetTheorems, TLAPS

-----------------------------------------------------------------------------
(* The inductive invariant *)

\* A half of a Library, and an image or a staging directory.
Halves == Runs \cup {Nobody}
Images == [by : Halves, files : Halves \X Halves, sum : Halves \X Halves, complete : BOOLEAN]
Locks == [by : Halves, written : BOOLEAN, old : BOOLEAN]

\* Where a run has the lock, where it looked at the image under the lock and found
\* none that is valid, and where it has been given an image.
Holding == {"write", "locked", "quarantine", "build", "sum", "check", "commit", "undo",
            "unlock", "unlink"}
Making  == {"quarantine", "build", "sum", "check", "commit"}
Copying == {"copy", "copying"}
Given   == Copying \cup {"commit", "verify", "compare", "ready"}
Places  == Holding \cup Given \cup {"start", "clear", "resolve", "lock", "judge", "reread",
                                     "remove", "failed", "dead"}

StoreType ==
    /\ image \in Images /\ stage \in [Runs -> Images] /\ lock \in Locks
    /\ raced \in BOOLEAN /\ hit \in SUBSET Runs
RunType ==
    /\ pc \in [Runs -> Places] /\ ok \in [Runs -> BOOLEAN]
    /\ seen \in [Runs -> Halves]
    /\ meta \in [Runs -> Halves \X Halves] /\ from \in [Runs -> Halves]
    /\ work \in [Runs -> Halves \X Halves]

\* What is staged or published was made by one run; what its metadata names covers
\* what is there, and is whole if nothing was taken from it before it was counted.
WellMade(i) ==
    /\ \A h \in {1, 2} : i.files[h] \in {i.by, Nobody}
    /\ i.complete => \A h \in {1, 2} : i.files[h] \in {i.sum[h], Nobody}
    /\ i.complete => i.by # Nobody /\ (i.by \notin hit => i.sum = <<i.by, i.by>>)
StageIsOwn(r) ==
    /\ stage[r].by \in {r, Nobody}
    /\ r \notin hit /\ stage[r].by = r => stage[r].files = <<r, r>>

\* A run between the lock and its release has the lock, until somebody's lock was
\* removed by a run that had not judged it; what is judged is a run that has gone.
LockIsHeld(r) == ~raced /\ pc[r] \in Holding => lock.by = r
JudgedIsGone(r) == pc[r] \in {"reread", "remove"} => seen[r] \in Runs /\ ~Alive(seen[r])

\* Who has the lock and makes an image saw that there is none.
NoneIsValid(r) == ~raced /\ pc[r] \in Making => ~Valid(image)

\* The metadata a run was given is that of a whole build, if nothing was taken from
\* that build.
GivenIsWhole(r) ==
    /\ pc[r] \in Given \/ (pc[r] \in {"unlock", "unlink"} /\ ok[r])
           => from[r] \in Runs /\ (from[r] \notin hit => meta[r] = <<from[r], from[r]>>)
    /\ pc[r] = "commit" => from[r] = r
    /\ ok[r] => pc[r] \in {"unlock", "unlink", "failed", "dead"} \cup (Given \ {"commit"})

\* The image a run copies stays there, unless a Clear takes it or the lock was raced.
CopyIsUndisturbed(r) ==
    r \notin hit /\ ~raced =>
        /\ pc[r] \in Copying => Valid(image)
        /\ pc[r] = "copying" => work[r][1] = image.files[1]
        /\ pc[r] \in {"compare", "ready"} =>
               work[r][1] = Nobody \/ work[r][2] = Nobody \/ work[r][1] = work[r][2]
CopyIsCounted(r) ==
    pc[r] = "ready" => \A h \in {1, 2} : work[r][h] = Nobody <=> meta[r][h] = Nobody

RunInv(r) ==
    /\ WellMade(stage[r]) /\ StageIsOwn(r) /\ LockIsHeld(r) /\ JudgedIsGone(r)
    /\ NoneIsValid(r) /\ GivenIsWhole(r) /\ CopyIsUndisturbed(r) /\ CopyIsCounted(r)
StoreInv == StoreType /\ RunType /\ WellMade(image) /\ \A r \in Runs : RunInv(r)

-----------------------------------------------------------------------------
(* Types, and what a step changes *)

\* Everything one run does.
RunStep(r) ==
    \/ StartPlain(r) \/ Clear(r) \/ Resolve(r) \/ AcquireLock(r) \/ Ensure(r) \/ Materialize(r)
    \/ RunFails(r) \/ Crash(r)

\* A step of the store is a step of a run or the ageing of the lock.
LEMMA Steps == Next <=> (\E r \in Runs : RunStep(r)) \/ Age
BY DEF Next, RunStep

\* Records and pairs that the code writes.
LEMMA Shapes ==
  /\ NoImage \in Images /\ NoLock \in Locks /\ Unset \in Halves \X Halves
  /\ NoImage.by = Nobody /\ NoLock.by = Nobody
  /\ NoImage.files = Unset /\ ~NoImage.complete /\ Unset = <<Nobody, Nobody>>
  /\ Nobody \in Halves /\ Nobody \notin Runs /\ \A r \in Runs : r \in Halves
  /\ \A i \in Images : i.by \in Halves /\ i.files \in Halves \X Halves /\ i.sum \in Halves \X Halves
                       /\ i.complete \in BOOLEAN
  /\ \A l \in Locks : l.by \in Halves /\ l.written \in BOOLEAN /\ l.old \in BOOLEAN
BY ImageStoreAssumption DEF NoImage, NoLock, Unset, Images, Locks, Halves

\* A removal takes files, and the counts before them, and never adds any.
LEMMA TornShape ==
  ASSUME NEW i \in Images, NEW j \in Torn(i)
  PROVE  /\ j \in Images /\ (j = NoImage \/ j.by = i.by)
         /\ \A h \in {1, 2} : j.files[h] \in {i.files[h], Nobody}
         /\ j.complete => i.complete /\ j.sum = i.sum
<1>1. CASE j = NoImage
  BY <1>1, Shapes
<1>2. CASE j = [i EXCEPT !.complete = FALSE, !.sum = Unset]
  BY <1>2, Shapes DEF Images
<1>3. CASE j = [i EXCEPT !.files = <<Nobody, i.files[2]>>]
  BY <1>3, Shapes DEF Images
<1>4. CASE j = [i EXCEPT !.files = <<i.files[1], Nobody>>]
  BY <1>4, Shapes DEF Images
<1> QED
  BY <1>1, <1>2, <1>3, <1>4 DEF Torn

\* A torn image is no more valid than it was.
LEMMA TornInvalid ==
  ASSUME NEW i \in Images, NEW j \in Torn(i), WellMade(i), ~Valid(i) PROVE ~Valid(j)
<1>1. CASE ~j.complete
  BY <1>1 DEF Valid
<1>2. CASE j.complete
  <2>1. i.complete /\ j.sum = i.sum /\ i.sum # i.files
    BY <1>2, TornShape DEF Valid
  <2>2. PICK h \in {1, 2} : i.files[h] # i.sum[h]
    BY <2>1, Shapes
  <2>3. i.files[h] = Nobody /\ j.files[h] = Nobody
    BY <2>1, <2>2, TornShape DEF WellMade
  <2> QED
    BY <2>1, <2>2, <2>3 DEF Valid
<1> QED
  BY <1>1, <1>2, TornShape, Shapes

\* It is still of one build.
LEMMA TornWellMade ==
  ASSUME NEW i \in Images, NEW j \in Torn(i), WellMade(i), i.by # Nobody PROVE WellMade(j)
BY TornShape, Shapes DEF WellMade

\* Who changes what is in the store.
LEMMA StoreFrame ==
  ASSUME NEW r \in Runs, RunStep(r)
  PROVE  /\ image' = image \/ ClearImage(r) \/ Quarantine(r) \/ Commit(r)
         /\ stage' = stage \/ ClearStage(r) \/ Build(r) \/ Sum(r) \/ Commit(r) \/ Undo(r)
         /\ UNCHANGED <<lock, raced>> \/ ClearLock(r) \/ TryLock(r) \/ WriteLock(r)
               \/ RemoveStale(r) \/ Unlink(r)
         /\ hit' = hit \/ ClearImage(r) \/ ClearStage(r)
<1> USE DEF RunStep, StartPlain, Clear, ClearList, ClearImage, ClearStage, ClearLock,
        ClearEnd, Resolve, AcquireLock, TryLock, WriteLock, JudgeLock, RereadLock,
        RemoveStale, Ensure, LockedResolve, Quarantine, Build, Sum, CheckStage, Commit,
        EnsureFails, Undo, ReadToken, Unlink, Materialize, Verify, Copy, CopyRest,
        Compare, RunFails, Crash
<1>1. image' = image \/ ClearImage(r) \/ Quarantine(r) \/ Commit(r)
  BY DEF store
<1>2. stage' = stage \/ ClearStage(r) \/ Build(r) \/ Sum(r) \/ Commit(r) \/ Undo(r)
  BY DEF store
<1>3. UNCHANGED <<lock, raced>> \/ ClearLock(r) \/ TryLock(r) \/ WriteLock(r)
               \/ RemoveStale(r) \/ Unlink(r)
  BY DEF store, history
<1>4. hit' = hit \/ ClearImage(r) \/ ClearStage(r)
  BY DEF history
<1> QED
  BY <1>1, <1>2, <1>3, <1>4

\* A run changes what it knows, and nothing of what another run knows.
LEMMA RunTyped ==
  ASSUME NEW r \in Runs, RunStep(r), StoreType, RunType
  PROVE  RunType'
<1> USE DEF RunStep, StartPlain, Clear, ClearList, ClearImage, ClearStage, ClearLock,
        ClearEnd, Resolve, AcquireLock, TryLock, WriteLock, JudgeLock, RereadLock,
        RemoveStale, Ensure, LockedResolve, Quarantine, Build, Sum, CheckStage, Commit,
        EnsureFails, Undo, ReadToken, Unlink, Materialize, Verify, Copy, CopyRest,
        Compare, RunFails, Crash
<1> USE Shapes DEF RunType, StoreType
<1>1. pc' \in [Runs -> Places]
  <2>1. CASE Ensure(r)
    BY <2>1 DEF At, Goto, AfterEnsure, Places, Holding, Given, Copying
  <2>2. CASE Clear(r) \/ AcquireLock(r)
    BY <2>2, SMTT(40) DEF At, Goto, Places, Holding, Given, Copying
  <2>3. CASE StartPlain(r) \/ Resolve(r) \/ Materialize(r) \/ RunFails(r) \/ Crash(r)
    BY <2>3, ZenonT(60) DEF At, Goto, Places, Holding, Given, Copying
  <2> QED
    BY <2>1, <2>2, <2>3 DEF RunStep
<1>2. ok' \in [Runs -> BOOLEAN]
  OBVIOUS
<1>3. seen' \in [Runs -> Halves]
  BY DEF lockVars
<1>4. meta' \in [Runs -> Halves \X Halves]
  BY SMTT(40) DEF Take, given
<1>5. from' \in [Runs -> Halves]
  BY ZenonT(60) DEF Take, given
<1>6. work' \in [Runs -> Halves \X Halves]
  OBVIOUS
<1> QED
  BY <1>1, <1>2, <1>3, <1>4, <1>5, <1>6

\* What a step of another run leaves of what a run knows.
LEMMA OthersKnow ==
  ASSUME NEW r \in Runs, RunStep(r), StoreType, RunType, NEW q \in Runs, q # r
  PROVE  /\ pc'[q] = pc[q] /\ ok'[q] = ok[q] /\ seen'[q] = seen[q] /\ meta'[q] = meta[q]
         /\ from'[q] = from[q] /\ work'[q] = work[q]
<1> USE DEF RunStep, StartPlain, Clear, ClearList, ClearImage, ClearStage, ClearLock,
        ClearEnd, Resolve, AcquireLock, TryLock, WriteLock, JudgeLock, RereadLock,
        RemoveStale, Ensure, LockedResolve, Quarantine, Build, Sum, CheckStage, Commit,
        EnsureFails, Undo, ReadToken, Unlink, Materialize, Verify, Copy, CopyRest,
        Compare, RunFails, Crash
<1> USE DEF RunType
<1>1. pc'[q] = pc[q]
  BY DEF At, Goto
<1>2. ok'[q] = ok[q]
  OBVIOUS
<1>3. seen'[q] = seen[q]
  BY DEF lockVars
<1>4. meta'[q] = meta[q] /\ from'[q] = from[q]
  BY DEF Take, given
<1>5. work'[q] = work[q]
  OBVIOUS
<1> QED
  BY <1>1, <1>2, <1>3, <1>4, <1>5

\* The store keeps its types.
LEMMA StoreTyped ==
  ASSUME NEW r \in Runs, RunStep(r), StoreType
  PROVE  StoreType'
<1> USE Shapes, StoreFrame DEF StoreType
<1>1. image' \in Images
  BY TornShape DEF ClearImage, Quarantine, Commit
<1>2. stage' \in [Runs -> Images]
  <2>1. CASE ClearStage(r)
    BY <2>1, TornShape DEF ClearStage
  <2>2. CASE Build(r)
    BY <2>2 DEF Build, NoImage, Images
  <2>3. CASE Sum(r)
    BY <2>3, ZenonT(60) DEF Sum, Images
  <2> QED
    BY <2>1, <2>2, <2>3 DEF Commit, Undo
<1>3. lock' \in Locks
  <2>1. CASE TryLock(r)
    BY <2>1 DEF TryLock, Locks, NoLock
  <2>2. CASE WriteLock(r)
    BY <2>2 DEF WriteLock, Locks
  <2> QED
    BY <2>1, <2>2 DEF ClearLock, RemoveStale, Unlink
<1>4. raced' \in BOOLEAN
  BY DEF ClearLock, TryLock, WriteLock, RemoveStale, Unlink, history
<1>5. hit' \in SUBSET Runs
  BY DEF ClearImage, ClearStage
<1> QED
  BY <1>1, <1>2, <1>3, <1>4, <1>5

-----------------------------------------------------------------------------
(* The lock *)

\* A run has gone for good.
LEMMA GoneStays ==
  ASSUME RunType, StoreType, Next, NEW x \in Runs, ~Alive(x) PROVE ~Alive(x)'
<1>1. ASSUME NEW r \in Runs, RunStep(r) PROVE pc'[x] = pc[x]
  <2>1. CASE r = x
    BY <1>1, <2>1
      DEF RunStep, StartPlain, Clear, ClearList, ClearImage, ClearStage, ClearLock,
            ClearEnd, Resolve, AcquireLock, TryLock, WriteLock, JudgeLock, RereadLock,
            RemoveStale, Ensure, LockedResolve, Quarantine, Build, Sum, CheckStage, Commit,
            EnsureFails, Undo, ReadToken, Unlink, Materialize, Verify, Copy, CopyRest,
            Compare, RunFails, Crash, Alive, At
  <2> QED
    BY <1>1, <2>1, OthersKnow
<1> QED
  BY <1>1, Steps DEF Alive, Age

\* Whose lock a step removes, when no lock is raced for.
LEMMA LockStep ==
  ASSUME NEW r \in Runs, RunStep(r), StoreInv, ~raced'
  PROVE  /\ ~raced
         /\ \/ lock'.by = lock.by
            \/ lock.by = Nobody /\ lock'.by = r
            \/ lock'.by = Nobody /\ lock.by = r
            \/ lock'.by = Nobody /\ lock.by \in Runs /\ ~Alive(lock.by)
<1>1. StoreType /\ RunType /\ JudgedIsGone(r) /\ lock.by \in Halves /\ lock \in Locks
  BY Shapes DEF StoreInv, StoreType, RunInv
<1>2. CASE ClearLock(r)
  BY <1>2 DEF ClearLock
<1>3. CASE TryLock(r)
  BY <1>1, <1>3, Shapes DEF TryLock, history, NoLock, Locks
<1>4. CASE WriteLock(r)
  <2>1. ~raced /\ (lock' = lock \/ lock' = [lock EXCEPT !.written = TRUE]
                     \/ (lock' = NoLock /\ lock.by \in {Nobody, r}))
    BY <1>1, <1>4 DEF WriteLock, StoreType
  <2> QED
    BY <1>1, <2>1, Shapes DEF Locks
<1>5. CASE RemoveStale(r)
  BY <1>1, <1>5, Shapes DEF RemoveStale, JudgedIsGone
<1>6. CASE Unlink(r)
  <2>1. ~raced /\ (lock' = lock \/ (lock' = NoLock /\ lock.by \in {Nobody, r}))
    <3>1. CASE UNCHANGED <<lock, raced>>
      BY <3>1
    <3>2. CASE lock' = NoLock /\ raced' = (raced \/ lock.by \notin {Nobody, r})
      BY <3>2
    <3> QED
      BY <1>6, <3>1, <3>2 DEF Unlink
  <2> QED
    BY <1>1, <2>1, Shapes
<1> QED
  BY <1>2, <1>3, <1>4, <1>5, <1>6, StoreFrame

\* A run that holds the lock goes on holding it.
LEMMA LockKept ==
  ASSUME NEW r \in Runs, RunStep(r), StoreInv, NEW q \in Runs
  PROVE  LockIsHeld(q)' /\ JudgedIsGone(q)'
<1> USE DEF RunStep, StartPlain, Clear, ClearList, ClearImage, ClearStage, ClearLock,
        ClearEnd, Resolve, AcquireLock, TryLock, WriteLock, JudgeLock, RereadLock,
        RemoveStale, Ensure, LockedResolve, Quarantine, Build, Sum, CheckStage, Commit,
        EnsureFails, Undo, ReadToken, Unlink, Materialize, Verify, Copy, CopyRest,
        Compare, RunFails, Crash
<1> USE DEF StoreInv, RunInv
<1>1. LockIsHeld(q)'
  <2> SUFFICES ASSUME ~raced', pc'[q] \in Holding PROVE lock'.by = q
    BY SMTT(40) DEF LockIsHeld
  <2>1. CASE q # r
    <3>1. pc[q] = pc'[q]
      BY <2>1, OthersKnow
    <3>2. lock.by = q /\ Alive(q)
      BY <3>1, LockStep DEF LockIsHeld, Alive, Holding
    <3> QED
      BY <2>1, <3>2, LockStep, Shapes
  <2>2. CASE q = r
    <3>1. CASE AcquireLock(r)
      BY <2>2, <3>1, Shapes
          DEF Holding, LockIsHeld, Goto, RunType, StoreType, store, history, NoLock, Locks
    <3>2. CASE Ensure(r)
      BY <2>2, <3>2, Shapes
          DEF Holding, LockIsHeld, At, Goto, AfterEnsure, RunType, store, history
    <3>3. CASE ~AcquireLock(r) /\ ~Ensure(r)
      BY <2>2, <3>3, SMTT(40)
          DEF Holding, At, Goto, RunType
    <3> QED
      BY <3>1, <3>2, <3>3
  <2> QED
    BY <2>1, <2>2
<1>2. JudgedIsGone(q)'
  <2> SUFFICES ASSUME pc'[q] \in {"reread", "remove"} 
               PROVE  seen'[q] \in Runs /\ pc'[seen'[q]] \in {"dead", "failed"}
    BY SMTT(40) DEF JudgedIsGone, Alive
  <2>1. \/ pc[q] \in {"reread", "remove"} /\ seen'[q] = seen[q]
        \/ seen'[q] = lock.by /\ Stale(lock) /\ lock.by # Nobody
    <3>1. CASE q = r
      BY <3>1 DEF At, Goto, RunType, AfterEnsure, lockVars
    <3> QED
      BY <3>1, OthersKnow
  <2>2. seen'[q] \in Runs /\ ~Alive(seen'[q])
    BY <2>1, Shapes DEF JudgedIsGone, Stale, StoreType, Halves
  <2> QED
    BY <2>2, GoneStays, Steps DEF Alive
<1> QED
  BY <1>1, <1>2

-----------------------------------------------------------------------------
(* The image and what is staged *)

\* Two runs do not hold the lock.
LEMMA OneHolder ==
  ASSUME StoreInv, ~raced, NEW r \in Runs, NEW q \in Runs, pc[r] \in Holding, pc[q] \in Holding
  PROVE  r = q
BY DEF StoreInv, RunInv, LockIsHeld

\* Nothing is valid where there is no image.
LEMMA NoneInvalid == ~Valid(NoImage)
BY DEF Valid, NoImage

\* A history only grows.
LEMMA HistoryGrows ==
  ASSUME NEW r \in Runs, RunStep(r), StoreType PROVE (raced => raced') /\ hit \subseteq hit'
<1>1. hit \subseteq hit'
  BY StoreFrame DEF ClearImage, ClearStage
<1>2. raced => raced'
  BY StoreFrame DEF ClearLock, TryLock, WriteLock, RemoveStale, Unlink, history
<1> QED
  BY <1>1, <1>2

\* Every image and staging directory is of one build.
LEMMA ImageKept ==
  ASSUME NEW r \in Runs, RunStep(r), StoreInv
  PROVE  /\ WellMade(image)' /\ \A q \in Runs : WellMade(stage[q])' /\ StageIsOwn(q)'
<1>1. /\ StoreType /\ RunType /\ WellMade(image)
      /\ \A q \in Runs : WellMade(stage[q]) /\ StageIsOwn(q) /\ stage[q] \in Images
      /\ image \in Images /\ stage \in [Runs -> Images] /\ GivenIsWhole(r)
  BY DEF StoreInv, RunInv, StoreType
<1>2. ASSUME NEW i, WellMade(i) PROVE WellMade(i)'
  BY <1>1, <1>2, HistoryGrows DEF WellMade
<1>3. WellMade(NoImage)
  BY Shapes DEF WellMade
<1>4. WellMade(image')
  <2>1. CASE ClearImage(r)
    BY <1>1, <2>1, TornWellMade DEF ClearImage
  <2> QED
    BY <1>1, <1>3, <2>1, StoreFrame DEF Quarantine, Commit
<1>5. ASSUME NEW q \in Runs PROVE WellMade(stage'[q]) /\ StageIsOwn(q)'
  <2>1. CASE ClearStage(r)
    BY <1>1, <2>1, TornWellMade, TornShape, Shapes DEF ClearStage, StageIsOwn
  <2>2. CASE Build(r)
    BY <1>1, <2>2, Shapes DEF Build, WellMade, StageIsOwn, NoImage, history
  <2>3. CASE Sum(r)
    BY <1>1, <2>3, Shapes DEF Sum, WellMade, StageIsOwn, Images, history
  <2>4. CASE Commit(r) \/ Undo(r)
    BY <1>1, <1>3, <2>4, Shapes DEF Commit, Undo, StageIsOwn, history
  <2>5. CASE stage' = stage
    BY <1>1, <2>5, HistoryGrows DEF StageIsOwn
  <2> QED
    BY <2>1, <2>2, <2>3, <2>4, <2>5, StoreFrame
<1> QED
  BY <1>2, <1>4, <1>5

\* A valid image is taken away or replaced only by a Clear, and an image becomes
\* valid only by the run that holds the lock, as long as no lock was raced for.
LEMMA ValidStep ==
  ASSUME NEW r \in Runs, RunStep(r), StoreInv, ~raced'
  PROVE  /\ Valid(image) => image' = image \/ ClearImage(r)
         /\ ~Valid(image) /\ Valid(image') => Commit(r)
<1>1. StoreType /\ WellMade(image) /\ ~raced /\ NoneIsValid(r) /\ image \in Images
  BY HistoryGrows DEF StoreInv, RunInv, StoreType
<1>2. Quarantine(r) \/ Commit(r) => ~Valid(image)
  BY <1>1 DEF Quarantine, Commit, NoneIsValid, Making, At
<1>3. ClearImage(r) /\ ~Valid(image) => ~Valid(image')
  BY <1>1, TornInvalid DEF ClearImage
<1> QED
  BY <1>1, <1>2, <1>3, StoreFrame, NoneInvalid DEF Quarantine

\* Who makes an image saw that there is none, and nobody else makes one.
LEMMA NoneKept ==
  ASSUME NEW r \in Runs, RunStep(r), StoreInv, NEW q \in Runs
  PROVE  NoneIsValid(q)'
<1> SUFFICES ASSUME ~raced', pc'[q] \in Making PROVE ~Valid(image')
  BY DEF NoneIsValid
<1>1. StoreType /\ RunType /\ ~raced /\ LockIsHeld(q)' /\ NoneIsValid(q)
  BY HistoryGrows, LockKept DEF StoreInv, RunInv
<1>2. CASE q = r
  <2>1. pc[q] \in Making \/ (LockedResolve(q) /\ ~Valid(image))
    BY <1>1, <1>2
      DEF RunStep, StartPlain, Clear, ClearList, ClearImage, ClearStage, ClearLock,
            ClearEnd, Resolve, AcquireLock, TryLock, WriteLock, JudgeLock, RereadLock,
            RemoveStale, Ensure, LockedResolve, Quarantine, Build, Sum, CheckStage, Commit,
            EnsureFails, Undo, ReadToken, Unlink, Materialize, Verify, Copy, CopyRest,
            Compare, RunFails, Crash, At, Goto, Making, RunType, AfterEnsure
  <2>2. ~Commit(r)
    BY <1>1, <1>2 DEF Commit, Goto, Making, RunType
  <2> QED
    BY <1>1, <1>2, <2>1, <2>2, ValidStep DEF NoneIsValid
<1>3. CASE q # r
  <2>1. pc[q] \in Making /\ ~Valid(image)
    BY <1>1, <1>3, OthersKnow DEF NoneIsValid
  <2>2. ~Commit(r)
    BY <1>1, <1>3, <2>1, OneHolder DEF Commit, Making, Holding
  <2> QED
    BY <2>1, <2>2, ValidStep
<1> QED
  BY <1>2, <1>3

-----------------------------------------------------------------------------
(* What a run is given *)

\* The metadata a run was given are those of a whole build.
LEMMA GivenKept ==
  ASSUME NEW r \in Runs, RunStep(r), StoreInv, NEW q \in Runs
  PROVE  GivenIsWhole(q)'
<1> USE DEF RunStep, StartPlain, Clear, ClearList, ClearImage, ClearStage, ClearLock,
        ClearEnd, Resolve, AcquireLock, TryLock, WriteLock, JudgeLock, RereadLock,
        RemoveStale, Ensure, LockedResolve, Quarantine, Build, Sum, CheckStage, Commit,
        EnsureFails, Undo, ReadToken, Unlink, Materialize, Verify, Copy, CopyRest,
        Compare, RunFails, Crash
<1>1. /\ StoreType /\ RunType /\ WellMade(image) /\ WellMade(stage[r]) /\ StageIsOwn(r)
      /\ GivenIsWhole(q) /\ GivenIsWhole(r) /\ hit \subseteq hit' /\ stage[r] \in Images
      /\ image \in Images
  BY HistoryGrows DEF StoreInv, RunInv, StoreType
<1>2. CASE q # r
  BY <1>1, <1>2, OthersKnow, ZenonT(60) DEF GivenIsWhole
<1>3. CASE q = r
  <2> DEFINE Has == from[r] \in Runs /\ (from[r] \notin hit => meta[r] = <<from[r], from[r]>>)
             Needs == pc[r] \in Given \/ (pc[r] \in {"unlock", "unlink"} /\ ok[r])
  <2>1. \/ UNCHANGED <<meta, from>> /\ (Needs' => Needs)
        \/ Take(r, image) /\ Valid(image) /\ UNCHANGED hit
        \/ CheckStage(r)
    <3>1. CASE Ensure(r)
      <4>1. ok[r] => pc[r] \in {"unlock", "unlink"}
        BY <1>1, <3>1 DEF GivenIsWhole, At, Given, Copying
      <4> QED
        BY <1>1, <3>1, <4>1
          DEF At, Goto, AfterEnsure, RunType, Given, Copying, given, history
    <3>2. CASE AcquireLock(r) \/ Clear(r)
      BY <1>1, <3>2 DEF At, Goto, RunType, Given, Copying, given
    <3>3. CASE StartPlain(r) \/ Resolve(r) \/ Materialize(r) \/ RunFails(r) \/ Crash(r)
      BY <1>1, <3>3 DEF At, Goto, RunType, Given, Copying, given, history
    <3> QED
      BY <3>1, <3>2, <3>3 DEF RunStep
  <2>2. Needs' => Has'
    <3>1. CASE UNCHANGED <<meta, from>> /\ (Needs' => Needs)
      BY <1>1, <3>1 DEF GivenIsWhole
    <3>2. CASE Take(r, image) /\ Valid(image) /\ UNCHANGED hit
      <4>1. from'[r] = image.by /\ meta'[r] = image.sum
        BY <1>1, <3>2 DEF Take, RunType
      <4>2. image.by \in Runs /\ (image.by \notin hit => image.sum = <<image.by, image.by>>)
        BY <1>1, <3>2, Shapes DEF Valid, WellMade, Halves
      <4> QED
        BY <3>2, <4>1, <4>2
    <3>3. CASE CheckStage(r)
      <4>1. /\ from'[r] = stage[r].by /\ meta'[r] = stage[r].sum /\ UNCHANGED hit
            /\ UNCHANGED ok /\ pc[r] = "check"
            /\ pc'[r] = (IF Valid(stage[r]) THEN "commit" ELSE "undo")
        BY <1>1, <3>3 DEF CheckStage, Take, At, Goto, RunType, history
      <4>2. CASE Valid(stage[r])
        <5>1. stage[r].by \in Runs
              /\ (stage[r].by \notin hit => stage[r].sum = <<stage[r].by, stage[r].by>>)
          BY <1>1, <4>2, Shapes DEF Valid, WellMade, Halves
        <5> QED
          BY <4>1, <5>1
      <4>3. CASE ~Valid(stage[r])
        BY <1>1, <4>1, <4>3 DEF Given, Copying
      <4> QED
        BY <4>2, <4>3
    <3> QED
      BY <2>1, <3>1, <3>2, <3>3
  <2>3. pc'[r] = "commit" => from'[r] = r
    <3>1. CASE CheckStage(r)
      <4>1. from'[r] = stage[r].by /\ (pc'[r] = "commit" => Valid(stage[r]))
        BY <1>1, <3>1 DEF CheckStage, Take, At, Goto, RunType
      <4>2. Valid(stage[r]) => stage[r].by = r
        BY <1>1 DEF Valid, WellMade, StageIsOwn
      <4> QED
        BY <4>1, <4>2
    <3>2. CASE ~CheckStage(r)
      BY <1>1, <3>2 DEF At, Goto, AfterEnsure, RunType
    <3> QED
      BY <3>1, <3>2
  <2>4. ok'[r] => pc'[r] \in {"unlock", "unlink", "failed", "dead"} \cup (Given \ {"commit"})
    <3>1. CASE Ensure(r)
      BY <1>1, <3>1 DEF GivenIsWhole, At, Goto, AfterEnsure, RunType, Given, Copying
    <3>2. CASE ~Ensure(r)
      BY <1>1, <3>2 DEF GivenIsWhole, At, Goto, RunType, Given, Copying
    <3> QED
      BY <3>1, <3>2
  <2> QED
    BY <1>3, <2>2, <2>3, <2>4 DEF GivenIsWhole
<1> QED
  BY <1>2, <1>3, SMTT(40)

-----------------------------------------------------------------------------
(* The copy *)

\* What is copied is there until it is copied.
LEMMA CopyKept ==
  ASSUME NEW r \in Runs, RunStep(r), StoreInv, NEW q \in Runs
  PROVE  CopyIsUndisturbed(q)' /\ CopyIsCounted(q)'
<1>1. /\ StoreType /\ RunType /\ WellMade(image) /\ (raced => raced') /\ hit \subseteq hit'
      /\ CopyIsUndisturbed(q) /\ CopyIsCounted(q) /\ image \in Images
  BY HistoryGrows DEF StoreInv, RunInv, StoreType
<1>2. ASSUME ~raced', q \notin hit', Valid(image), pc[q] \in Copying PROVE image' = image
  <2>1. ~ClearImage(r)
    BY <1>2 DEF ClearImage, Copying
  <2> QED
    BY <1>2, <2>1, ValidStep
<1>3. CASE q # r
  BY <1>1, <1>2, <1>3, OthersKnow DEF CopyIsUndisturbed, CopyIsCounted, Copying
<1>4. CASE q = r
  <2>1. CASE Materialize(r) /\ ~Compare(r)
    <3>1. CASE Verify(r)
      BY <1>1, <1>4, <3>1
         DEF Verify, At, Goto, CopyIsUndisturbed, CopyIsCounted, Copying, RunType, store
    <3>2. CASE Copy(r)
      BY <1>1, <1>2, <1>4, <3>2
         DEF Copy, At, Goto, CopyIsUndisturbed, CopyIsCounted, Copying, RunType, store, history
    <3>3. CASE CopyRest(r)
      <4>1. pc[r] = "copying" /\ pc'[r] = "compare" /\ UNCHANGED <<raced, hit>>
            /\ work'[r][1] = work[r][1] /\ work'[r][2] = image.files[2]
        BY <1>1, <3>3 DEF CopyRest, At, Goto, RunType, history
      <4> QED
        BY <1>1, <1>4, <4>1 DEF CopyIsUndisturbed, CopyIsCounted, Copying, WellMade
    <3> QED
      BY <2>1, <3>1, <3>2, <3>3 DEF Materialize
  <2>2. CASE Compare(r)
    <3>1. /\ UNCHANGED <<work, meta, raced, hit>> /\ pc[r] = "compare"
          /\ pc'[r] \in {"ready", "failed"}
      BY <1>1, <2>2 DEF Compare, At, Goto, RunType, given, history
    <3>2. pc'[r] = "ready" => \A h \in {1, 2} : work[r][h] = Nobody <=> meta[r][h] = Nobody
      BY <1>1, <2>2 DEF Compare, At, Goto, RunType
    <3>3. CopyIsUndisturbed(r)'
      BY <1>1, <1>4, <3>1 DEF CopyIsUndisturbed, Copying
    <3>4. CopyIsCounted(r)'
      BY <3>1, <3>2 DEF CopyIsCounted
    <3> QED
      BY <1>4, <3>3, <3>4
  <2>3. CASE ~Materialize(r)
    <3>1. pc'[r] \notin Copying \cup {"compare", "ready"}
      BY <1>1, <2>3
        DEF RunStep, StartPlain, Clear, ClearList, ClearImage, ClearStage, ClearLock,
              ClearEnd, Resolve, AcquireLock, TryLock, WriteLock, JudgeLock, RereadLock,
              RemoveStale, Ensure, LockedResolve, Quarantine, Build, Sum, CheckStage, Commit,
              EnsureFails, Undo, ReadToken, Unlink, RunFails, Crash, At, Goto, AfterEnsure,
              Copying, RunType
    <3> QED
      BY <1>4, <3>1 DEF CopyIsUndisturbed, CopyIsCounted, Copying
  <2> QED
    BY <2>1, <2>2, <2>3 DEF Materialize
<1> QED
  BY <1>3, <1>4

-----------------------------------------------------------------------------
(* The invariant *)

\* The invariant holds at the start.
LEMMA InitInv == Init => StoreInv
<1> SUFFICES ASSUME Init PROVE StoreInv
  OBVIOUS
<1> USE Shapes DEF Init
<1>1. StoreType /\ RunType
  BY DEF StoreType, RunType, Places
<1>2. WellMade(NoImage)
  BY DEF WellMade
<1>3. ASSUME NEW r \in Runs PROVE RunInv(r)
  <2>1. pc[r] = "start" /\ stage[r] = NoImage /\ ok[r] = FALSE
    OBVIOUS
  <2> QED
    BY <1>2, <2>1 DEF RunInv, StageIsOwn, LockIsHeld, JudgedIsGone, NoneIsValid, GivenIsWhole,
       CopyIsUndisturbed, CopyIsCounted, Holding, Making, Given, Copying
<1> QED
  BY <1>1, <1>2, <1>3 DEF StoreInv

\* The lock grows older and nothing else changes.
LEMMA AgeKeeps == ASSUME StoreInv, Age PROVE StoreInv'
<1>1. lock' \in Locks /\ lock'.by = lock.by
  BY Shapes DEF StoreInv, StoreType, Age, Locks
<1> QED
  BY <1>1 DEF StoreInv, StoreType, RunType, RunInv, Age, WellMade, StageIsOwn, LockIsHeld,
     JudgedIsGone, NoneIsValid, GivenIsWhole, CopyIsUndisturbed, CopyIsCounted, Alive,
     lockVars, given, history

\* Every step keeps the invariant.
LEMMA NextInv == StoreInv /\ [Next]_vars => StoreInv'
<1> SUFFICES ASSUME StoreInv, [Next]_vars PROVE StoreInv'
  OBVIOUS
<1>1. ASSUME NEW r \in Runs, RunStep(r) PROVE StoreInv'
  <2>1. StoreType' /\ RunType'
    BY <1>1, StoreTyped, RunTyped DEF StoreInv
  <2>2. ASSUME NEW q \in Runs PROVE RunInv(q)'
    BY <1>1, <2>2, ImageKept, LockKept, NoneKept, GivenKept, CopyKept DEF RunInv
  <2> QED
    BY <1>1, <2>1, <2>2, ImageKept DEF StoreInv
<1>2. CASE UNCHANGED vars
  BY <1>2 DEF vars, StoreInv, StoreType, RunType, RunInv, WellMade, StageIsOwn, LockIsHeld,
     JudgedIsGone, NoneIsValid, GivenIsWhole, CopyIsUndisturbed, CopyIsCounted, Alive
<1> QED
  BY <1>1, <1>2, AgeKeeps, Steps

\* The invariant of the image store, for every set of runs.
THEOREM Invariant == Spec => []StoreInv
BY InitInv, NextInv, PTL DEF Spec

\* A run that goes on to its tests has the whole Library of one build
\* (store.go: Ensure, Verify and the copy).
THEOREM HandedOutWhole == Spec => []HandedOutIsWhole
<1>1. ASSUME StoreInv PROVE HandedOutIsWhole
  <2>1. ASSUME NEW r \in Runs, pc[r] = "ready", from[r] \notin hit
        PROVE  /\ Nobody \notin {work[r][1], work[r][2]}
               /\ r \notin hit /\ ~raced => work[r][1] = work[r][2]
    <3>1. RunInv(r) /\ Nobody \notin Runs
      BY <1>1, Shapes DEF StoreInv
    <3>2. meta[r] = <<from[r], from[r]>> /\ from[r] # Nobody
      BY <2>1, <3>1 DEF RunInv, GivenIsWhole, Given
    <3>3. work[r][1] # Nobody /\ work[r][2] # Nobody
      BY <2>1, <3>1, <3>2 DEF RunInv, CopyIsCounted
    <3> QED
      BY <2>1, <3>1, <3>3 DEF RunInv, CopyIsUndisturbed
  <2> QED
    BY <2>1 DEF HandedOutIsWhole
<1> QED
  BY <1>1, Invariant, PTL

\* Unity imports the project for one run at a time, and only while there is no valid
\* image, as long as no lock was raced for (lock.go, store.go: Ensure).
THEOREM BuildNeeded == Spec => []BuildIsNeeded
<1>1. ASSUME StoreInv PROVE BuildIsNeeded
  <2> SUFFICES ASSUME ~raced
               PROVE  Cardinality(Building) <= 1 /\ (Building # {} => ~Valid(image))
    BY DEF BuildIsNeeded
  <2>1. ASSUME NEW r \in Building PROVE Building = {r} /\ ~Valid(image)
    BY <1>1, <2>1, OneHolder DEF StoreInv, RunInv, NoneIsValid, Building, Making, Holding
  <2>2. CASE Building = {}
    BY <2>2, FS_EmptySet
  <2>3. CASE Building # {}
    <3>1. PICK r \in Building : TRUE
      BY <2>3
    <3>2. Building = {r} /\ ~Valid(image)
      BY <2>1
    <3>3. Cardinality({r}) = 1
      BY FS_Singleton
    <3> QED
      BY <3>2, <3>3
  <2> QED
    BY <2>2, <2>3, <2>1
<1> QED
  BY <1>1, Invariant, PTL

\* A valid image is taken away only by a Clear (store.go: Ensure looks again under
\* the lock, and the rename does not replace a directory).
THEOREM PublishedRemains == Spec => PublishedStays
<1>1. ASSUME StoreInv, [Next]_vars, ~raced', Valid(image)
      PROVE  image' = image \/ \E r \in Runs : pc[r] = "clear"
  <2>1. ASSUME NEW r \in Runs, RunStep(r) PROVE image' = image \/ pc[r] = "clear"
    BY <1>1, <2>1, ValidStep DEF ClearImage
  <2> QED
    BY <1>1, <2>1, Steps DEF vars, Age
<1>2. StoreInv /\ [Next]_vars
          => [~raced' /\ Valid(image) => image' = image \/ \E r \in Runs : pc[r] = "clear"]_vars
  BY <1>1
<1> QED
  BY <1>2, Invariant, PTL DEF Spec, PublishedStays
==============================================================================
