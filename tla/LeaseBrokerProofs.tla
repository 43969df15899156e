------------------------- MODULE LeaseBrokerProofs -------------------------
(* Machine-checked proofs about LeaseBroker, for every set of leases and      *)
(* every value of the bounds: its types; that while a run uses its lease      *)
(* nothing else takes the child, the workspace or the mounted Library away    *)
(* (LeaseIsExclusive is inductive); and where the children, journals,         *)
(* workspaces and sessions are.  All hold whatever the timing of the Recover  *)
(* pass, but for OrderIsKept, which needs heartbeats, handlers and passes to  *)
(* keep within the grace period (Orderly).                                    *)
EXTENDS LeaseBroker, TLAPS

JournalMaps == [Leases -> MaybeJournals]
TaskMaps    == [Leases -> [Kinds -> Tasks]]

-----------------------------------------------------------------------------
(* The helpers of the handlers keep the types. *)

\* The idle handler and the idle Recover pass have their types.
LEMMA IdleType == IdleTask \in Tasks /\ IdleRec \in Recs
  BY ConstantsAssumption DEF IdleTask, IdleRec, Tasks, Recs, TaskLabels, RecLabels,
     MaybeJournals, Sessions

\* A handler at work holds a journal and a session.
LEMMA TaskRead ==
  ASSUME TypeOK, NEW l \in Leases, NEW k \in Kinds, NEW pc, At(l, k, pc), pc # "idle"
  PROVE  Copy(l, k) \in Journals /\ Ses(l, k) \in Sessions
  BY DEF TypeOK, At, Copy, Ses, Tasks, IdleTask

\* A handler that goes on keeps the types of the handlers.
LEMMA GotoType ==
  ASSUME task \in TaskMaps, NEW l \in Leases, NEW k \in Kinds, NEW pc \in TaskLabels,
         NEW copy \in Journals, NEW ses \in Sessions, Goto(l, k, pc, copy, ses)
  PROVE  task' \in TaskMaps
  BY DEF TaskMaps, Goto, Tasks

\* A handler that ends keeps the types of the handlers.
LEMMA FinishType ==
  ASSUME task \in TaskMaps, NEW l \in Leases, NEW k \in Kinds, Finish(l, k)
  PROVE  task' \in TaskMaps
  BY IdleType DEF TaskMaps, Finish

\* Store.WriteLease keeps the type of the journals.
LEMMA WriteLeaseType ==
  ASSUME journal \in JournalMaps, NEW l \in Leases, NEW j \in Journals, WriteLease(l, j)
  PROVE  journal' \in JournalMaps
  BY DEF JournalMaps, WriteLease, MaybeJournals, Journals

\* A journal written with another state keeps the type of the journals.
LEMMA WriteStateType ==
  ASSUME journal \in JournalMaps, NEW l \in Leases, NEW j \in Journals,
         NEW state \in JournalStates, WriteState(l, j, state)
  PROVE  journal' \in JournalMaps
<1>1. [j EXCEPT !.state = state] \in Journals
  BY DEF Journals
<1> QED
  BY <1>1, WriteLeaseType DEF WriteState

\* Store.RemoveLease keeps the type of the journals.
LEMMA RemoveLeaseType ==
  ASSUME journal \in JournalMaps, NEW l \in Leases, RemoveLease(l)
  PROVE  journal' \in JournalMaps
  BY DEF JournalMaps, RemoveLease, MaybeJournals

\* Attaching a child keeps the types of the sessions and mount points.
LEMMA AttachType ==
  ASSUME TypeOK, NEW l \in Leases, Attach(l)
  PROVE  /\ gen' \in [Leases -> Sessions] /\ att' \in [Leases -> Sessions]
         /\ library' \in [Leases -> BOOLEAN] /\ gen[l] + 1 \in Sessions
  BY ConstantsAssumption DEF TypeOK, Attach, Sessions

\* Releasing a session keeps the types of what it releases.
LEMMA ReleaseSessionType ==
  ASSUME TypeOK, NEW l \in Leases, NEW s, NEW delete \in BOOLEAN,
         ReleaseSession(l, s, delete)
  PROVE  /\ att' \in [Leases -> Sessions] /\ library' \in [Leases -> BOOLEAN]
         /\ child' \in [Leases -> BOOLEAN]
<1>1. att' \in [Leases -> Sessions]
  BY ConstantsAssumption, SMTT(40) DEF TypeOK, ReleaseSession, Sessions
<1>2. library' \in [Leases -> BOOLEAN]
  BY Zenon DEF TypeOK, ReleaseSession
<1>3. child' \in [Leases -> BOOLEAN]
  <2>1. (child[l] /\ ~delete) \in BOOLEAN
    BY Zenon
  <2> QED
    BY <2>1, Zenon DEF TypeOK, ReleaseSession
<1> QED
  BY <1>1, <1>2, <1>3

\* An injected failure stays within its bound.
LEMMA FaultType ==
  ASSUME TypeOK, Fault PROVE faults' \in 0 .. MaxFaults
  BY ConstantsAssumption DEF TypeOK, Fault

\* Removing a workspace keeps the type of the workspaces.
LEMMA CleanupType ==
  ASSUME TypeOK, NEW l \in Leases, Cleanup(l)
  PROVE  space' \in [Leases -> {"none", "plain", "owned"}]
  BY DEF TypeOK, Cleanup

-----------------------------------------------------------------------------
(* Type correctness. *)

\* The initial state has the types.
LEMMA InitType == Init => TypeOK
  BY IdleType, ConstantsAssumption DEF Init, TypeOK, MaybeJournals, Sessions, ClientStates

\* Every step of an acquire or release keeps the types.
LEMMA OwnerType ==
  ASSUME TypeOK, NEW l \in Leases, Owner(l) PROVE TypeOK'
<1> "owner" \in Kinds
  BY DEF Kinds
<1> USE DEF disk, mem, procs, hist
<1> DEFINE c == Copy(l, "owner")
<1> DEFINE s == Ses(l, "owner")
<1>t. task \in TaskMaps /\ journal \in JournalMaps
  BY DEF TypeOK, TaskMaps, JournalMaps
<1>1. CASE AcquireOwner(l)
  <2>1. c \in Journals /\ s \in Sessions
    BY <1>1, TaskRead DEF AcquireOwner
  <2>2. task' \in TaskMaps
    BY <1>1, <1>t, <2>1, GotoType, FinishType, ConstantsAssumption DEF AcquireOwner, TaskLabels, Sessions
  <2>3. journal' \in JournalMaps
    BY <1>1, <1>t, <2>1, RemoveLeaseType DEF AcquireOwner
  <2>4. faults' \in 0 .. MaxFaults
    BY <1>1, <1>t, <2>1, FaultType DEF AcquireOwner, TypeOK
  <2> QED
    BY <1>1, <2>2, <2>3, <2>4 DEF AcquireOwner, TypeOK, TaskMaps, JournalMaps
<1>2. CASE AcquireCreate(l)
  <2>1. c \in Journals /\ s \in Sessions
    BY <1>2, TaskRead DEF AcquireCreate
  <2>2. task' \in TaskMaps
    BY <1>2, <1>t, <2>1, GotoType, FinishType, ConstantsAssumption DEF AcquireCreate, TaskLabels, Sessions
  <2>3. journal' \in JournalMaps
    BY <1>2, <1>t, <2>1, WriteStateType DEF AcquireCreate, JournalStates
  <2>4. faults' \in 0 .. MaxFaults
    BY <1>2, <1>t, <2>1, FaultType DEF AcquireCreate, TypeOK
  <2> QED
    BY <1>2, <2>2, <2>3, <2>4 DEF AcquireCreate, TypeOK, TaskMaps, JournalMaps
<1>3. CASE AcquireAttach(l)
  <2>1. c \in Journals /\ s \in Sessions
    BY <1>3, TaskRead DEF AcquireAttach
  <2>2. att' \in [Leases -> Sessions] /\ gen' \in [Leases -> Sessions] /\ library' \in [Leases -> BOOLEAN]
    BY <1>3, <1>t, <2>1, AttachType DEF AcquireAttach, TypeOK
  <2>3. task' \in TaskMaps
    BY <1>3, <1>t, <2>1, GotoType, AttachType, ConstantsAssumption DEF AcquireAttach, TaskLabels, Sessions
  <2>4. journal' \in JournalMaps
    BY <1>3, <1>t, <2>1, WriteStateType DEF AcquireAttach, JournalStates
  <2>5. faults' \in 0 .. MaxFaults
    BY <1>3, <1>t, <2>1, FaultType DEF AcquireAttach, TypeOK
  <2> QED
    BY <1>3, <2>2, <2>3, <2>4, <2>5 DEF AcquireAttach, TypeOK, TaskMaps, JournalMaps
<1>4. CASE AcquireCommit(l)
  <2>1. c \in Journals /\ s \in Sessions
    BY <1>4, TaskRead DEF AcquireCommit
  <2>2. [c EXCEPT !.state = "ready", !.ident = TRUE] \in Journals
    BY <1>4, <1>t, <2>1 DEF AcquireCommit, Journals, JournalStates
  <2>3. task' \in TaskMaps
    BY <1>4, <1>t, <2>1, <2>2, GotoType, FinishType DEF AcquireCommit, TaskLabels
  <2>4. journal' \in JournalMaps
    BY <1>4, <1>t, <2>1, <2>2, WriteLeaseType DEF AcquireCommit
  <2>5. att' \in [Leases -> Sessions] /\ library' \in [Leases -> BOOLEAN] /\ child' \in [Leases -> BOOLEAN]
    BY <1>4, <1>t, <2>1, ReleaseSessionType DEF AcquireCommit, TypeOK
  <2>6. space' \in [Leases -> {"none", "plain", "owned"}]
    BY <1>4, <1>t, <2>1, CleanupType DEF AcquireCommit, TypeOK
  <2>7. faults' \in 0 .. MaxFaults
    BY <1>4, <1>t, <2>1, FaultType DEF AcquireCommit, TypeOK
  <2> QED
    BY <1>4, <2>2, <2>3, <2>4, <2>5, <2>6, <2>7 DEF AcquireCommit, TypeOK, TaskMaps, JournalMaps
<1>5. CASE AcquirePublish(l)
  <2>1. c \in Journals /\ s \in Sessions
    BY <1>5, TaskRead DEF AcquirePublish
  <2>2. task' \in TaskMaps
    BY <1>5, <1>t, <2>1, FinishType DEF AcquirePublish
  <2>3. children' \in [Leases -> Sessions]
    BY <1>5, <1>t, <2>1 DEF AcquirePublish, TypeOK
  <2>4. client' \in [Leases -> ClientStates]
    BY <1>5, <1>t, <2>1 DEF AcquirePublish, TypeOK, ClientStates
  <2> QED
    BY <1>5, <2>2, <2>3, <2>4 DEF AcquirePublish, TypeOK, TaskMaps, JournalMaps
<1>6. CASE AcquireUndo(l)
  <2>1. c \in Journals /\ s \in Sessions
    BY <1>6, TaskRead DEF AcquireUndo
  <2>2. task' \in TaskMaps
    BY <1>6, <1>t, <2>1, GotoType, FinishType, ConstantsAssumption DEF AcquireUndo, TaskLabels, Sessions
  <2>3. journal' \in JournalMaps
    BY <1>6, <1>t, <2>1, WriteStateType DEF AcquireUndo, JournalStates
  <2> QED
    BY <1>6, <2>2, <2>3 DEF AcquireUndo, TypeOK, TaskMaps, JournalMaps
<1>7. CASE AcquireUnlink(l)
  <2>1. c \in Journals /\ s \in Sessions
    BY <1>7, TaskRead DEF AcquireUnlink
  <2>2. task' \in TaskMaps
    BY <1>7, <1>t, <2>1, FinishType DEF AcquireUnlink
  <2>3. journal' \in JournalMaps
    BY <1>7, <1>t, <2>1, RemoveLeaseType DEF AcquireUnlink
  <2> QED
    BY <1>7, <2>2, <2>3 DEF AcquireUnlink, TypeOK, TaskMaps, JournalMaps
<1>8. CASE ReleaseNative(l)
  <2>1. c \in Journals /\ s \in Sessions
    BY <1>8, TaskRead DEF ReleaseNative
  <2>2. task' \in TaskMaps
    BY <1>8, <1>t, <2>1, GotoType, FinishType, ConstantsAssumption DEF ReleaseNative, TaskLabels, Sessions
  <2>3. journal' \in JournalMaps
    BY <1>8, <1>t, <2>1, WriteStateType DEF ReleaseNative, JournalStates
  <2>4. att' \in [Leases -> Sessions] /\ library' \in [Leases -> BOOLEAN] /\ child' \in [Leases -> BOOLEAN]
    BY <1>8, <1>t, <2>1, ReleaseSessionType DEF ReleaseNative, TypeOK, Journals
  <2>5. faults' \in 0 .. MaxFaults
    BY <1>8, <1>t, <2>1, FaultType DEF ReleaseNative, TypeOK
  <2> QED
    BY <1>8, <2>2, <2>3, <2>4, <2>5 DEF ReleaseNative, TypeOK, TaskMaps, JournalMaps
<1>9. CASE ReleaseSettle(l)
  <2>1. c \in Journals /\ s \in Sessions
    BY <1>9, TaskRead DEF ReleaseSettle
  <2>2. task' \in TaskMaps
    BY <1>9, <1>t, <2>1, GotoType, FinishType, ConstantsAssumption DEF ReleaseSettle, TaskLabels, Sessions
  <2>3. journal' \in JournalMaps
    BY <1>9, <1>t, <2>1, WriteStateType DEF ReleaseSettle, JournalStates
  <2>4. space' \in [Leases -> {"none", "plain", "owned"}]
    BY <1>9, <1>t, <2>1, CleanupType DEF ReleaseSettle, TypeOK
  <2>5. faults' \in 0 .. MaxFaults
    BY <1>9, <1>t, <2>1, FaultType DEF ReleaseSettle, TypeOK
  <2> QED
    BY <1>9, <2>2, <2>3, <2>4, <2>5 DEF ReleaseSettle, TypeOK, TaskMaps, JournalMaps
<1>10. CASE ReleaseRecord(l)
  <2>1. c \in Journals /\ s \in Sessions
    BY <1>10, TaskRead DEF ReleaseRecord
  <2>2. task' \in TaskMaps
    BY <1>10, <1>t, <2>1, GotoType, FinishType, ConstantsAssumption DEF ReleaseRecord, TaskLabels, Sessions
  <2>3. faults' \in 0 .. MaxFaults
    BY <1>10, <1>t, <2>1, FaultType DEF ReleaseRecord, TypeOK
  <2> QED
    BY <1>10, <2>2, <2>3 DEF ReleaseRecord, TypeOK, TaskMaps, JournalMaps
<1>11. CASE ReleaseUnlink(l)
  <2>1. c \in Journals /\ s \in Sessions
    BY <1>11, TaskRead DEF ReleaseUnlink
  <2>2. task' \in TaskMaps
    BY <1>11, <1>t, <2>1, GotoType, FinishType, ConstantsAssumption DEF ReleaseUnlink, TaskLabels, Sessions
  <2>3. journal' \in JournalMaps
    BY <1>11, <1>t, <2>1, RemoveLeaseType DEF ReleaseUnlink
  <2>4. faults' \in 0 .. MaxFaults
    BY <1>11, <1>t, <2>1, FaultType DEF ReleaseUnlink, TypeOK
  <2> QED
    BY <1>11, <2>2, <2>3, <2>4 DEF ReleaseUnlink, TypeOK, TaskMaps, JournalMaps
<1>12. CASE ReleaseForget(l)
  <2>1. c \in Journals /\ s \in Sessions
    BY <1>12, TaskRead DEF ReleaseForget
  <2>2. task' \in TaskMaps
    BY <1>12, <1>t, <2>1, FinishType DEF ReleaseForget
  <2>3. children' \in [Leases -> Sessions]
    BY <1>12, <1>t, <2>1, ConstantsAssumption DEF ReleaseForget, TypeOK, Sessions
  <2>4. kept' \in [Leases -> {"no", "yes", "dropped"}]
    BY <1>12, <1>t, <2>1 DEF ReleaseForget, TypeOK
  <2> QED
    BY <1>12, <2>2, <2>3, <2>4 DEF ReleaseForget, TypeOK, TaskMaps, JournalMaps
<1> QED
  BY <1>1, <1>2, <1>3, <1>4, <1>5, <1>6, <1>7, <1>8, <1>9, <1>10, <1>11, <1>12 DEF Owner

\* Every step of a retained-workspace command keeps the types.
LEMMA ToolType ==
  ASSUME TypeOK, NEW l \in Leases, Tool(l) PROVE TypeOK'
<1> "tool" \in Kinds
  BY DEF Kinds
<1> USE DEF disk, mem, procs, hist
<1> DEFINE c == Copy(l, "tool")
<1> DEFINE s == Ses(l, "tool")
<1>t. task \in TaskMaps /\ journal \in JournalMaps
  BY DEF TypeOK, TaskMaps, JournalMaps
<1>1. CASE AttachNative(l)
  <2>1. c \in Journals /\ s \in Sessions
    BY <1>1, TaskRead DEF AttachNative, ToolAttach
  <2>2. att' \in [Leases -> Sessions] /\ gen' \in [Leases -> Sessions] /\ library' \in [Leases -> BOOLEAN]
    BY <1>1, <1>t, <2>1, AttachType DEF AttachNative, TypeOK, ToolAttach
  <2>3. task' \in TaskMaps
    BY <1>1, <1>t, <2>1, GotoType, FinishType, AttachType DEF AttachNative, ToolAttach, TaskLabels
  <2>4. faults' \in 0 .. MaxFaults
    BY <1>1, <1>t, <2>1, FaultType DEF AttachNative, ToolAttach, TypeOK
  <2> QED
    BY <1>1, <2>2, <2>3, <2>4 DEF AttachNative, TypeOK, TaskMaps, JournalMaps, ToolAttach
<1>2. CASE AttachWrite(l)
  <2>1. c \in Journals /\ s \in Sessions
    BY <1>2, TaskRead DEF AttachWrite
  <2>2. [c EXCEPT !.state = "ready"] \in Journals
    BY <1>2, <1>t, <2>1 DEF AttachWrite, Journals, JournalStates
  <2>3. task' \in TaskMaps
    BY <1>2, <1>t, <2>1, <2>2, GotoType, FinishType DEF AttachWrite, TaskLabels
  <2>4. journal' \in JournalMaps
    BY <1>2, <1>t, <2>1, <2>2, WriteLeaseType DEF AttachWrite
  <2>5. att' \in [Leases -> Sessions] /\ library' \in [Leases -> BOOLEAN] /\ child' \in [Leases -> BOOLEAN]
    BY <1>2, <1>t, <2>1, ReleaseSessionType DEF AttachWrite, TypeOK
  <2>6. faults' \in 0 .. MaxFaults
    BY <1>2, <1>t, <2>1, FaultType DEF AttachWrite, TypeOK
  <2> QED
    BY <1>2, <2>2, <2>3, <2>4, <2>5, <2>6 DEF AttachWrite, TypeOK, TaskMaps, JournalMaps
<1>3. CASE AttachPublish(l)
  <2>1. c \in Journals /\ s \in Sessions
    BY <1>3, TaskRead DEF AttachPublish
  <2>2. task' \in TaskMaps
    BY <1>3, <1>t, <2>1, FinishType DEF AttachPublish
  <2>3. children' \in [Leases -> Sessions]
    BY <1>3, <1>t, <2>1 DEF AttachPublish, TypeOK
  <2> QED
    BY <1>3, <2>2, <2>3 DEF AttachPublish, TypeOK, TaskMaps, JournalMaps
<1>4. CASE RemoveAttach(l)
  <2>1. c \in Journals /\ s \in Sessions
    BY <1>4, TaskRead DEF RemoveAttach, ToolAttach
  <2>2. att' \in [Leases -> Sessions] /\ gen' \in [Leases -> Sessions] /\ library' \in [Leases -> BOOLEAN]
    BY <1>4, <1>t, <2>1, AttachType DEF RemoveAttach, TypeOK, ToolAttach
  <2>3. task' \in TaskMaps
    BY <1>4, <1>t, <2>1, GotoType, FinishType, AttachType DEF RemoveAttach, ToolAttach, TaskLabels
  <2>4. faults' \in 0 .. MaxFaults
    BY <1>4, <1>t, <2>1, FaultType DEF RemoveAttach, ToolAttach, TypeOK
  <2> QED
    BY <1>4, <2>2, <2>3, <2>4 DEF RemoveAttach, TypeOK, TaskMaps, JournalMaps, ToolAttach
<1>5. CASE RemoveRelease(l)
  <2>1. c \in Journals /\ s \in Sessions
    BY <1>5, TaskRead DEF RemoveRelease
  <2>2. 0 \in Sessions /\ "d_clean" \in TaskLabels
    BY <1>5, <1>t, <2>1, ConstantsAssumption DEF RemoveRelease, Sessions, TaskLabels
  <2>3. task' \in TaskMaps
    BY <1>5, <1>t, <2>1, <2>2, GotoType, FinishType DEF RemoveRelease
  <2>4. att' \in [Leases -> Sessions] /\ library' \in [Leases -> BOOLEAN] /\ child' \in [Leases -> BOOLEAN]
    BY <1>5, <1>t, <2>1, ReleaseSessionType DEF RemoveRelease, TypeOK
  <2>5. faults' \in 0 .. MaxFaults
    BY <1>5, <1>t, <2>1, FaultType DEF RemoveRelease, TypeOK
  <2> QED
    BY <1>5, <2>2, <2>3, <2>4, <2>5 DEF RemoveRelease, TypeOK, TaskMaps, JournalMaps
<1>6. CASE RemoveClean(l)
  <2>1. c \in Journals /\ s \in Sessions
    BY <1>6, TaskRead DEF RemoveClean
  <2>2. task' \in TaskMaps
    BY <1>6, <1>t, <2>1, GotoType, FinishType, ConstantsAssumption DEF RemoveClean, TaskLabels, Sessions
  <2>3. journal' \in JournalMaps
    BY <1>6, <1>t, <2>1, WriteStateType DEF RemoveClean, JournalStates
  <2>4. space' \in [Leases -> {"none", "plain", "owned"}]
    BY <1>6, <1>t, <2>1, CleanupType DEF RemoveClean, TypeOK
  <2>5. faults' \in 0 .. MaxFaults
    BY <1>6, <1>t, <2>1, FaultType DEF RemoveClean, TypeOK
  <2> QED
    BY <1>6, <2>2, <2>3, <2>4, <2>5 DEF RemoveClean, TypeOK, TaskMaps, JournalMaps
<1>7. CASE RemoveUnlink(l)
  <2>1. c \in Journals /\ s \in Sessions
    BY <1>7, TaskRead DEF RemoveUnlink
  <2>2. task' \in TaskMaps
    BY <1>7, <1>t, <2>1, GotoType, FinishType, ConstantsAssumption DEF RemoveUnlink, TaskLabels, Sessions
  <2>3. journal' \in JournalMaps
    BY <1>7, <1>t, <2>1, RemoveLeaseType DEF RemoveUnlink
  <2>4. faults' \in 0 .. MaxFaults
    BY <1>7, <1>t, <2>1, FaultType DEF RemoveUnlink, TypeOK
  <2> QED
    BY <1>7, <2>2, <2>3, <2>4 DEF RemoveUnlink, TypeOK, TaskMaps, JournalMaps
<1>8. CASE RemoveRecord(l)
  <2>1. c \in Journals /\ s \in Sessions
    BY <1>8, TaskRead DEF RemoveRecord
  <2>2. task' \in TaskMaps
    BY <1>8, <1>t, <2>1, FinishType DEF RemoveRecord
  <2>3. children' \in [Leases -> Sessions]
    BY <1>8, <1>t, <2>1, ConstantsAssumption, SMTT(40) DEF RemoveRecord, TypeOK, Sessions
  <2>4. faults' \in 0 .. MaxFaults
    BY <1>8, <1>t, <2>1, FaultType DEF RemoveRecord, TypeOK
  <2> QED
    BY <1>8, <2>2, <2>3, <2>4 DEF RemoveRecord, TypeOK, TaskMaps, JournalMaps
<1> QED
  BY <1>1, <1>2, <1>3, <1>4, <1>5, <1>6, <1>7, <1>8 DEF Tool

\* A Recover pass that works on a lease holds its journal's copy.
LEMMA RecRead ==
  ASSUME TypeOK, rec.pc \in RecLabels
  PROVE  /\ rec.cur \in Leases /\ rec.copy \in Journals /\ rec.ses \in Sessions
         /\ rec.todo \in [Leases -> MaybeJournals]
         /\ rec = [pc |-> rec.pc, cur |-> rec.cur, copy |-> rec.copy, ses |-> rec.ses, todo |-> rec.todo]
  BY DEF TypeOK, Recs, RecLabels

\* A Recover pass that goes on keeps its type.
LEMMA RecGoto ==
  ASSUME TypeOK, rec.pc \in RecLabels, NEW pc \in RecLabels, NEW ses \in Sessions
  PROVE  [rec EXCEPT !.pc = pc] \in Recs /\ [rec EXCEPT !.pc = pc, !.ses = ses] \in Recs
  BY RecRead DEF Recs

\* A Recover pass that turns to its next entry keeps its type.
LEMMA NextEntryType ==
  ASSUME TypeOK, NextEntry PROVE rec' \in Recs
  BY DEF TypeOK, NextEntry, Recs

\* A Recover pass that breaks off keeps its type.
LEMMA RecoverAbortType ==
  ASSUME TypeOK, RecoverAbort PROVE rec' \in Recs /\ up' \in {"down", "starting", "serving"}
  BY IdleType DEF TypeOK, RecoverAbort

\* Quarantining a lease keeps the types of the pass and of the journals.
LEMMA QuarantineType ==
  ASSUME TypeOK, rec.pc \in RecLabels, NEW l \in Leases, RecoverQuarantine(l)
  PROVE  rec' \in Recs /\ journal' \in JournalMaps
  BY RecRead, NextEntryType, WriteStateType DEF TypeOK, RecoverQuarantine, JournalMaps, JournalStates

\* Every step of a Recover pass on a lease keeps the types.
LEMMA RecoverEntryType ==
  ASSUME TypeOK, NEW l \in Leases, RecoverEntry(l) PROVE TypeOK'
<1> USE DEF disk, mem, procs, hist
<1>t. journal \in JournalMaps /\ rec.todo \in [Leases -> MaybeJournals]
  BY DEF TypeOK, JournalMaps, Recs
<1>s. 0 \in Sessions
  BY ConstantsAssumption DEF Sessions
<1>1. CASE RecoverPick(l)
  <2>1. rec.todo[l] \in Journals /\ rec.pc = "pick"
    BY <1>1, <1>t DEF RecoverPick, MaybeJournals
  <2>2. rec = [pc |-> "pick", cur |-> None, copy |-> None, ses |-> 0, todo |-> rec.todo]
    BY <2>1 DEF TypeOK, Recs, RecLabels
  <2>3. [rec.todo EXCEPT ![l] = None] \in [Leases -> MaybeJournals]
    BY <1>t DEF MaybeJournals
  <2>4. [rec EXCEPT !.todo[l] = None] \in Recs
    BY <2>2, <2>3 DEF Recs
  <2>5. ASSUME NEW pc \in RecLabels
        PROVE  [rec EXCEPT !.todo[l] = None, !.cur = l, !.copy = rec.todo[l], !.pc = pc] \in Recs
    <3> DEFINE picked == [rec EXCEPT !.todo[l] = None, !.cur = l, !.copy = rec.todo[l], !.pc = pc]
    <3>1. picked = [pc |-> pc, cur |-> l, copy |-> rec.todo[l], ses |-> 0,
                    todo |-> [rec.todo EXCEPT ![l] = None]]
      <4>1. [rec EXCEPT !.todo[l] = None]
              = [pc |-> "pick", cur |-> None, copy |-> None, ses |-> 0,
                 todo |-> [rec.todo EXCEPT ![l] = None]]
        BY <2>2
      <4>2. picked = [[rec EXCEPT !.todo[l] = None] EXCEPT !.cur = l, !.copy = rec.todo[l], !.pc = pc]
        OBVIOUS
      <4> HIDE DEF picked
      <4>3. picked = [[pc |-> "pick", cur |-> None, copy |-> None, ses |-> 0,
                       todo |-> [rec.todo EXCEPT ![l] = None]]
                        EXCEPT !.cur = l, !.copy = rec.todo[l], !.pc = pc]
        BY <4>1, <4>2, Zenon
      <4> QED
        BY <4>3
    <3> QED
      BY <1>s, <2>1, <2>3, <3>1 DEF Recs
  <2>6. rec' \in Recs
    BY <1>1, <2>4, <2>5 DEF RecoverPick, RecLabels
  <2> QED
    BY <1>1, <2>6 DEF RecoverPick, TypeOK
<1>2. CASE RecoverGone(l)
  <2>1. rec.pc \in RecLabels
    BY <1>2 DEF RecoverGone, RecLabels
  <2>2. rec' \in Recs
    BY <1>2, <1>s, <2>1, RecGoto, QuarantineType DEF RecoverGone, RecLabels
  <2>3. journal' \in JournalMaps
    BY <1>2, <1>t, <2>1, QuarantineType DEF RecoverGone
  <2>4. space' \in [Leases -> {"none", "plain", "owned"}]
    BY <1>2, CleanupType DEF RecoverGone, TypeOK
  <2>5. faults' \in 0 .. MaxFaults
    BY <1>2, FaultType DEF RecoverGone, TypeOK
  <2> QED
    BY <1>2, <2>2, <2>3, <2>4, <2>5 DEF RecoverGone, TypeOK, JournalMaps
<1>3. CASE RecoverSeize(l)
  <2>1. rec.pc \in RecLabels
    BY <1>3 DEF RecoverSeize, RecLabels
  <2>2. rec' \in Recs
    <3>1. children[l] \in Sessions /\ "release" \in RecLabels /\ "attach" \in RecLabels
      BY DEF TypeOK, RecLabels
    <3>2. [rec EXCEPT !.pc = "release", !.ses = children[l]] \in Recs
      BY <2>1, <3>1, RecGoto
    <3>3. [rec EXCEPT !.pc = "attach"] \in Recs
      BY <1>s, <2>1, <3>1, RecGoto
    <3> QED
      BY <1>3, <2>1, <3>2, <3>3, QuarantineType, RecoverAbortType DEF RecoverSeize
  <2>3. journal' \in JournalMaps
    BY <1>3, <1>t, <2>1, RecRead, WriteStateType, QuarantineType DEF RecoverSeize, JournalStates
  <2>4. up' \in {"down", "starting", "serving"}
    BY <1>3, RecoverAbortType DEF RecoverSeize, TypeOK
  <2>5. faults' \in 0 .. MaxFaults
    BY <1>3, FaultType DEF RecoverSeize, TypeOK
  <2> QED
    BY <1>3, <2>2, <2>3, <2>4, <2>5 DEF RecoverSeize, TypeOK, JournalMaps
<1>4. CASE RecoverAttach(l)
  <2>1. rec.pc \in RecLabels
    BY <1>4 DEF RecoverAttach, RecLabels
  <2>2. rec' \in Recs
    <3>1. Attach(l) => [rec EXCEPT !.pc = "release", !.ses = gen[l] + 1] \in Recs
      BY <2>1, RecGoto, AttachType DEF RecLabels
    <3> QED
      BY <1>4, <2>1, <3>1, QuarantineType DEF RecoverAttach
  <2>3. journal' \in JournalMaps
    BY <1>4, <1>t, <2>1, QuarantineType DEF RecoverAttach
  <2>4. att' \in [Leases -> Sessions] /\ gen' \in [Leases -> Sessions] /\ library' \in [Leases -> BOOLEAN]
    BY <1>4, AttachType DEF RecoverAttach, TypeOK
  <2>5. faults' \in 0 .. MaxFaults
    BY <1>4, FaultType DEF RecoverAttach, TypeOK
  <2> QED
    BY <1>4, <2>2, <2>3, <2>4, <2>5 DEF RecoverAttach, TypeOK, JournalMaps
<1>5. CASE RecoverRelease(l)
  <2>1. rec.pc \in RecLabels
    BY <1>5 DEF RecoverRelease, RecLabels
  <2>2. rec' \in Recs
    BY <1>5, <1>s, <2>1, RecGoto, QuarantineType DEF RecoverRelease, RecLabels
  <2>3. journal' \in JournalMaps
    BY <1>5, <1>t, <2>1, QuarantineType DEF RecoverRelease
  <2>4. att' \in [Leases -> Sessions] /\ library' \in [Leases -> BOOLEAN] /\ child' \in [Leases -> BOOLEAN]
    BY <1>5, ReleaseSessionType DEF RecoverRelease, TypeOK
  <2>5. faults' \in 0 .. MaxFaults
    BY <1>5, FaultType DEF RecoverRelease, TypeOK
  <2> QED
    BY <1>5, <2>2, <2>3, <2>4, <2>5 DEF RecoverRelease, TypeOK, JournalMaps
<1>6. CASE RecoverClean(l)
  <2>1. rec.pc \in RecLabels
    BY <1>6 DEF RecoverClean, RecLabels
  <2>2. rec' \in Recs
    BY <1>6, <1>s, <2>1, RecGoto, QuarantineType DEF RecoverClean, RecLabels
  <2>3. journal' \in JournalMaps
    BY <1>6, <1>t, <2>1, QuarantineType DEF RecoverClean
  <2>4. space' \in [Leases -> {"none", "plain", "owned"}]
    BY <1>6, CleanupType DEF RecoverClean, TypeOK
  <2>5. faults' \in 0 .. MaxFaults
    BY <1>6, FaultType DEF RecoverClean, TypeOK
  <2> QED
    BY <1>6, <2>2, <2>3, <2>4, <2>5 DEF RecoverClean, TypeOK, JournalMaps
<1>7. CASE RecoverUnlink(l)
  <2>1. rec' \in Recs
    BY <1>7, NextEntryType, RecoverAbortType DEF RecoverUnlink
  <2>2. journal' \in JournalMaps
    BY <1>7, <1>t, RemoveLeaseType DEF RecoverUnlink
  <2>3. children' \in [Leases -> Sessions]
    BY <1>7, <1>s DEF RecoverUnlink, TypeOK
  <2>4. up' \in {"down", "starting", "serving"}
    BY <1>7, RecoverAbortType DEF RecoverUnlink, TypeOK
  <2>5. faults' \in 0 .. MaxFaults
    BY <1>7, FaultType DEF RecoverUnlink, TypeOK
  <2> QED
    BY <1>7, <2>1, <2>2, <2>3, <2>4, <2>5 DEF RecoverUnlink, TypeOK, JournalMaps
<1> QED
  BY <1>1, <1>2, <1>3, <1>4, <1>5, <1>6, <1>7 DEF RecoverEntry

\* A request that a client or a tool sends keeps the types.
LEMMA RequestsType ==
  ASSUME TypeOK, NEW l \in Leases, Requests(l) PROVE TypeOK'
<1> USE DEF disk, mem, procs, hist
<1>t. task \in TaskMaps /\ journal \in JournalMaps
  BY DEF TypeOK, TaskMaps, JournalMaps
<1>s. 0 \in Sessions /\ children[l] \in Sessions
  BY ConstantsAssumption DEF TypeOK, Sessions
<1>j. HasJournal(l) => journal[l] \in Journals
  BY <1>t DEF HasJournal, JournalMaps, MaybeJournals
<1>1. CASE AcquireRefused(l)
  <2>1. faults' \in 0 .. MaxFaults
    BY <1>1, FaultType DEF AcquireRefused
  <2> QED
    BY <1>1, <2>1 DEF AcquireRefused, TypeOK, ClientStates
<1>2. CASE AcquireBegin(l)
  <2> DEFINE j == [state |-> "requested", retained |-> FALSE, fresh |-> TRUE,
                   unity |-> FALSE, ident |-> FALSE, sameBoot |-> TRUE]
  <2>1. j \in Journals
    BY DEF Journals, JournalStates
  <2>2. task' \in TaskMaps
    BY <1>2, <1>t, <1>s, <2>1, GotoType DEF AcquireBegin, TaskLabels, Kinds
  <2>3. journal' \in JournalMaps
    BY <1>2, <1>t, <2>1, WriteLeaseType DEF AcquireBegin
  <2>4. client' \in [Leases -> ClientStates]
    BY <1>2 DEF AcquireBegin, TypeOK, ClientStates
  <2> QED
    BY <1>2, <2>2, <2>3, <2>4 DEF AcquireBegin, TypeOK, TaskMaps, JournalMaps
<1>3. ASSUME NEW k \in {"beat", "pid"}, HeartbeatRead(l, k) PROVE TypeOK'
  <2>1. ASSUME HasJournal(l) PROVE [journal[l] EXCEPT !.unity = @ \/ k = "pid"] \in Journals
    BY <1>j, <2>1, Zenon DEF Journals
  <2>2. task' \in TaskMaps
    BY <1>3, <1>t, <1>s, <2>1, GotoType DEF HeartbeatRead, TaskLabels, Kinds
  <2>3. unity' \in [Leases -> {"none", "started", "told", "gone"}]
    BY <1>3 DEF HeartbeatRead, TypeOK
  <2> QED
    BY <1>3, <2>2, <2>3 DEF HeartbeatRead, TypeOK, TaskMaps
<1>4. ASSUME NEW retain \in BOOLEAN, ReleaseBegin(l, retain) PROVE TypeOK'
  <2>1. HasJournal(l) => [journal[l] EXCEPT !.state = "releasing", !.retained = retain] \in Journals
    BY <1>j DEF Journals, JournalStates
  <2>2. task' \in TaskMaps
    BY <1>4, <1>t, <1>s, <2>1, GotoType DEF ReleaseBegin, TaskLabels, Kinds
  <2>3. journal' \in JournalMaps
    BY <1>4, <1>t, <2>1, WriteLeaseType DEF ReleaseBegin
  <2>4. client' \in [Leases -> ClientStates]
    BY <1>4 DEF ReleaseBegin, TypeOK, ClientStates
  <2>5. faults' \in 0 .. MaxFaults
    BY <1>4, FaultType DEF ReleaseBegin, TypeOK
  <2> QED
    BY <1>4, <2>2, <2>3, <2>4, <2>5 DEF ReleaseBegin, TypeOK, TaskMaps, JournalMaps
<1>5. CASE AttachBegin(l)
  <2>1. task' \in TaskMaps
    BY <1>5, <1>t, <1>s, <1>j, GotoType DEF AttachBegin, RetainedMatches, TaskLabels, Kinds
  <2> QED
    BY <1>5, <2>1 DEF AttachBegin, TypeOK, TaskMaps
<1>6. CASE RemoveBegin(l)
  <2>1. task' \in TaskMaps
    BY <1>6, <1>t, <1>s, <1>j, GotoType DEF RemoveBegin, RetainedMatches, TaskLabels, Kinds
  <2>2. kept' \in [Leases -> {"no", "yes", "dropped"}]
    BY <1>6 DEF RemoveBegin, TypeOK
  <2> QED
    BY <1>6, <2>1, <2>2 DEF RemoveBegin, TypeOK, TaskMaps
<1> QED
  BY <1>1, <1>2, <1>3, <1>4, <1>5, <1>6 DEF Requests

\* The journal that a heartbeat writes back keeps the types.
LEMMA HeartbeatWriteType ==
  ASSUME TypeOK, NEW l \in Leases, NEW k \in {"beat", "pid"}, HeartbeatWrite(l, k)
  PROVE  TypeOK'
<1> USE DEF disk, mem, procs, hist
<1>1. k \in Kinds /\ At(l, k, "b_write")
  BY DEF HeartbeatWrite, Kinds
<1>2. journal' \in JournalMaps
  BY <1>1, TaskRead, WriteLeaseType DEF HeartbeatWrite, TypeOK, JournalMaps
<1>3. task' \in TaskMaps
  BY <1>1, FinishType DEF HeartbeatWrite, TypeOK, TaskMaps
<1>4. pidKnown' \in [Leases -> BOOLEAN]
  <2>1. (pidKnown[l] \/ (k = "pid" /\ children[l] # 0)) \in BOOLEAN
    BY Zenon DEF TypeOK
  <2> QED
    BY <2>1, Zenon DEF HeartbeatWrite, TypeOK
<1>5. faults' \in 0 .. MaxFaults
  BY FaultType DEF HeartbeatWrite, TypeOK
<1> QED
  BY <1>2, <1>3, <1>4, <1>5 DEF HeartbeatWrite, TypeOK, JournalMaps, TaskMaps

\* A step of the processes around the broker keeps the types.
LEMMA ProcessesType ==
  ASSUME TypeOK, NEW l \in Leases, Processes(l) PROVE TypeOK'
<1> USE DEF disk, mem, procs, hist
<1>j. /\ journal \in [Leases -> MaybeJournals] /\ rec.todo \in [Leases -> MaybeJournals]
      /\ rec \in Recs
  BY DEF TypeOK, Recs
<1>f. ASSUME NEW f \in [Leases -> MaybeJournals], f[l] # None
      PROVE  [f EXCEPT ![l].fresh = FALSE] \in [Leases -> MaybeJournals]
  <2>1. f[l] \in Journals
    BY <1>f DEF MaybeJournals
  <2>2. [f[l] EXCEPT !.fresh = FALSE] \in Journals
    BY <2>1 DEF Journals
  <2> QED
    BY <2>2 DEF MaybeJournals
<1>r. ASSUME rec.todo[l] # None PROVE [rec EXCEPT !.todo[l].fresh = FALSE] \in Recs
  <2>1. [rec.todo EXCEPT ![l].fresh = FALSE] \in [Leases -> MaybeJournals]
    BY <1>j, <1>f, <1>r
  <2>2. [rec EXCEPT !.todo[l].fresh = FALSE] = [rec EXCEPT !.todo = [rec.todo EXCEPT ![l].fresh = FALSE]]
    BY Zenon
  <2>3. ASSUME NEW todo \in [Leases -> MaybeJournals] PROVE [rec EXCEPT !.todo = todo] \in Recs
    BY <1>j DEF Recs
  <2> QED
    BY <2>1, <2>2, <2>3
<1>1. CASE ClientAcquireFailed(l)
  BY <1>1 DEF ClientAcquireFailed, TypeOK, ClientStates
<1>2. CASE ClientReleaseReturned(l)
  BY <1>2 DEF ClientReleaseReturned, TypeOK, ClientStates
<1>3. CASE ClientKilled(l)
  BY <1>3 DEF ClientKilled, TypeOK, ClientStates
<1>4. CASE UnityStart(l)
  BY <1>4 DEF UnityStart, TypeOK
<1>5. CASE UnityExit(l)
  BY <1>5 DEF UnityExit, TypeOK
<1>6. CASE GraceElapses(l)
  <2>1. journal' \in [Leases -> MaybeJournals]
    BY <1>6, <1>j, <1>f DEF GraceElapses, HasJournal
  <2>2. rec' \in Recs
    BY <1>6, <1>j, <1>r DEF GraceElapses
  <2> QED
    BY <1>6, <2>1, <2>2 DEF GraceElapses, TypeOK
<1>7. CASE PassOutlastsGrace(l)
  BY <1>7, <1>r DEF PassOutlastsGrace, TypeOK
<1> QED
  BY <1>1, <1>2, <1>3, <1>4, <1>5, <1>6, <1>7 DEF Processes

\* A new pass copies every journal.
LEMMA StartPassType ==
  ASSUME TypeOK, StartPass PROVE rec' \in Recs
  BY ConstantsAssumption DEF TypeOK, StartPass, IdleRec, Recs, Sessions

\* The end of the broker process keeps the types.
LEMMA LoseProcessType ==
  ASSUME TypeOK, LoseProcess, journal' \in JournalMaps,
         client' \in [Leases -> ClientStates],
         unity' \in [Leases -> {"none", "started", "told", "gone"}]
  PROVE  TypeOK'
<1>1. outages' \in 0 .. MaxOutages
  BY ConstantsAssumption DEF LoseProcess, TypeOK
<1>2. task' \in TaskMaps /\ rec' \in Recs
  BY IdleType DEF LoseProcess, TaskMaps
<1>3. att' \in [Leases -> Sessions] /\ children' \in [Leases -> Sessions]
  BY ConstantsAssumption DEF LoseProcess, Sessions
<1> QED
  BY <1>1, <1>2, <1>3 DEF LoseProcess, TypeOK, JournalMaps, TaskMaps, hist

\* Every step keeps the types.
LEMMA NextType == TypeOK /\ [Next]_vars => TypeOK'
<1> SUFFICES ASSUME TypeOK, [Next]_vars PROVE TypeOK'
  OBVIOUS
<1> USE DEF disk, mem, procs, hist
<1>1. ASSUME NEW l \in Leases,
             \/ Requests(l) \/ Owner(l) \/ Tool(l)
             \/ \E k \in {"beat", "pid"} : HeartbeatWrite(l, k)
             \/ RecoverEntry(l) \/ Processes(l)
      PROVE  TypeOK'
  BY <1>1, RequestsType, OwnerType, ToolType, HeartbeatWriteType, RecoverEntryType, ProcessesType
<1>2. CASE RecoverTick
  <2>1. rec' \in Recs
    BY <1>2, StartPassType DEF RecoverTick
  <2> QED
    BY <1>2, <2>1 DEF RecoverTick, TypeOK
<1>3. CASE RecoverDone
  BY <1>3, IdleType DEF RecoverDone, TypeOK
<1>4. CASE BrokerCrash
  BY <1>4, LoseProcessType DEF BrokerCrash, TypeOK, JournalMaps
<1>5. CASE Reboot
  <2>1. ASSUME NEW l \in Leases, HasJournal(l)
        PROVE  [journal[l] EXCEPT !.sameBoot = FALSE] \in Journals
    <3>1. journal[l] \in Journals
      BY <2>1 DEF TypeOK, MaybeJournals, HasJournal
    <3> QED
      BY <3>1 DEF Journals
  <2>2. journal' \in JournalMaps
    BY <1>5, <2>1 DEF Reboot, JournalMaps, MaybeJournals
  <2>3. client' \in [Leases -> ClientStates]
    BY <1>5 DEF Reboot, TypeOK, ClientStates
  <2>4. unity' \in [Leases -> {"none", "started", "told", "gone"}]
    BY <1>5 DEF Reboot, TypeOK
  <2> QED
    BY <1>5, <2>2, <2>3, <2>4, LoseProcessType DEF Reboot
<1>6. CASE BrokerStart
  <2>1. rec' \in Recs
    BY <1>6, StartPassType DEF BrokerStart
  <2> QED
    BY <1>6, <2>1 DEF BrokerStart, TypeOK
<1>7. CASE UNCHANGED vars
  BY <1>7 DEF vars, TypeOK
<1> QED
  BY <1>1, <1>2, <1>3, <1>4, <1>5, <1>6, <1>7 DEF Next

\* In every reachable state of the broker, the journals, handlers, sessions
\* and the Recover pass are what the code's types and labels say, whatever
\* requests, crashes and reboots came before.
THEOREM TypeCorrect == Spec => []TypeOK
  BY InitType, NextType, PTL DEF Spec

-----------------------------------------------------------------------------
(* A lease in use belongs to its run alone. *)

LeaseInv(l) == Unseized(l) /\ Untouched(l) /\ Building(l) /\ InUse(l)

\* A step that leaves lease m alone; the Recover pass may drop its copy of it.
Same(m) ==
    /\ journal'[m] = journal[m] /\ child'[m] = child[m] /\ space'[m] = space[m]
    /\ library'[m] = library[m] /\ record'[m] = record[m] /\ att'[m] = att[m]
    /\ children'[m] = children[m] /\ task'[m] = task[m] /\ client'[m] = client[m]
    /\ kept'[m] = kept[m]
RecSame(m) ==
    /\ rec'.cur = m =>
          rec.cur = m /\ rec'.pc = rec.pc /\ rec'.copy = rec.copy /\ rec'.ses = rec.ses
    /\ rec'.todo[m] = rec.todo[m] \/ rec'.todo[m] = None

\* A step that leaves a lease alone keeps the invariant of that lease.
LEMMA FrameInv ==
  ASSUME NEW m \in Leases, LeaseInv(m), Same(m), RecSame(m)
  PROVE  LeaseInv(m)'
  BY DEF LeaseInv, Same, RecSame, Unseized, Untouched, Building, InUse, Claimed, Idle, At,
     Copy, Ses, HasJournal, Kinds

\* Nothing is claimed of a lease whose client has let it go.
LEMMA UnclaimedInv ==
  ASSUME NEW m \in Leases, ~Claimed(m)'
  PROVE  LeaseInv(m)'
  BY DEF LeaseInv, Unseized, Untouched, Building, InUse, Claimed

\* No lease is claimed by anything in the initial state.
LEMMA InitInv == Init => LeaseIsExclusive
<1> SUFFICES ASSUME Init, NEW l \in Leases PROVE LeaseInv(l)
  BY DEF LeaseIsExclusive, LeaseInv
<1>1. \A k \in Kinds : Idle(l, k)
  BY DEF Init, Idle, IdleTask
<1>2. journal[l] = None /\ ~record[l] /\ client[l] = "prepared"
  BY DEF Init
<1>3. rec.cur # l /\ rec.todo[l] = None
  BY ConstantsAssumption DEF Init, IdleRec
<1> QED
  BY <1>1, <1>2, <1>3 DEF LeaseInv, Unseized, Untouched, Building, InUse, Kinds

-----------------------------------------------------------------------------
(* A handler or a pass works on one lease only. *)

\* An acquire or release works on its own lease only.
LEMMA OwnerFrame ==
  ASSUME TypeOK, NEW l \in Leases, Owner(l), NEW m \in Leases, m # l
  PROVE  Same(m) /\ RecSame(m)
<1> USE DEF disk, mem, procs, hist, Same, RecSame, TypeOK
<1>1. CASE AcquireOwner(l)
  BY <1>1 DEF AcquireOwner, Goto, Finish, RemoveLease
<1>2. CASE AcquireCreate(l)
  BY <1>2 DEF AcquireCreate, Goto, WriteState, WriteLease
<1>3. CASE AcquireAttach(l)
  BY <1>3 DEF AcquireAttach, Goto, WriteState, WriteLease, Attach
<1>4. CASE AcquireCommit(l)
  BY <1>4 DEF AcquireCommit, Goto, Finish, WriteLease, ReleaseSession, Cleanup
<1>5. CASE AcquirePublish(l)
  BY <1>5 DEF AcquirePublish, Finish
<1>6. CASE AcquireUndo(l)
  BY <1>6 DEF AcquireUndo, Goto, Finish, WriteState, WriteLease
<1>7. CASE AcquireUnlink(l)
  BY <1>7 DEF AcquireUnlink, Finish, RemoveLease
<1>8. CASE ReleaseNative(l)
  BY <1>8 DEF ReleaseNative, Goto, Finish, WriteState, WriteLease, ReleaseSession
<1>9. CASE ReleaseSettle(l)
  BY <1>9 DEF ReleaseSettle, Goto, Finish, WriteState, WriteLease, Cleanup
<1>10. CASE ReleaseRecord(l)
  BY <1>10 DEF ReleaseRecord, Goto, Finish
<1>11. CASE ReleaseUnlink(l)
  BY <1>11 DEF ReleaseUnlink, Goto, Finish, RemoveLease
<1>12. CASE ReleaseForget(l)
  BY <1>12 DEF ReleaseForget, Finish
<1> QED
  BY <1>1, <1>2, <1>3, <1>4, <1>5, <1>6, <1>7, <1>8, <1>9, <1>10, <1>11, <1>12 DEF Owner

\* A retained-workspace command works on its own lease only.
LEMMA ToolFrame ==
  ASSUME TypeOK, NEW l \in Leases, Tool(l), NEW m \in Leases, m # l
  PROVE  Same(m) /\ RecSame(m)
<1> USE DEF disk, mem, procs, hist, Same, RecSame, TypeOK
<1>1. CASE AttachNative(l)
  BY <1>1 DEF AttachNative, ToolAttach, Goto, Finish, Attach
<1>2. CASE AttachWrite(l)
  BY <1>2 DEF AttachWrite, Goto, Finish, WriteLease, ReleaseSession
<1>3. CASE AttachPublish(l)
  BY <1>3 DEF AttachPublish, Finish
<1>4. CASE RemoveAttach(l)
  BY <1>4 DEF RemoveAttach, ToolAttach, Goto, Finish, Attach
<1>5. CASE RemoveRelease(l)
  BY <1>5 DEF RemoveRelease, Goto, Finish, ReleaseSession
<1>6. CASE RemoveClean(l)
  BY <1>6 DEF RemoveClean, Goto, Finish, WriteState, WriteLease, Cleanup
<1>7. CASE RemoveUnlink(l)
  BY <1>7 DEF RemoveUnlink, Goto, Finish, RemoveLease
<1>8. CASE RemoveRecord(l)
  BY <1>8 DEF RemoveRecord, Finish
<1> QED
  BY <1>1, <1>2, <1>3, <1>4, <1>5, <1>6, <1>7, <1>8 DEF Tool

\* A step of the Recover pass works on the lease of its current entry only.
LEMMA RecoverFrame ==
  ASSUME TypeOK, NEW l \in Leases, RecoverEntry(l), NEW m \in Leases, m # l
  PROVE  Same(m) /\ RecSame(m)
<1> USE ConstantsAssumption DEF disk, mem, procs, hist, Same, RecSame
<1>a. rec.todo \in [Leases -> MaybeJournals] /\ rec \in Recs
  BY DEF TypeOK, Recs
<1>b. NextEntry => rec'.cur = None /\ rec'.todo = rec.todo
  BY <1>a DEF Recs, NextEntry
<1>c. RecoverAbort => rec'.cur = None /\ rec'.todo[m] = None
  BY DEF RecoverAbort, IdleRec
<1>0. /\ rec.todo \in [Leases -> MaybeJournals] /\ rec \in Recs
      /\ NextEntry => rec'.cur = None /\ rec'.todo = rec.todo
      /\ RecoverAbort => rec'.cur = None /\ rec'.todo[m] = None
  BY <1>a, <1>b, <1>c
<1>q. RecoverQuarantine(l) => journal'[m] = journal[m] /\ rec'.cur = None /\ rec'.todo = rec.todo
  BY <1>0 DEF RecoverQuarantine, WriteState, WriteLease, TypeOK
<1>1. CASE RecoverPick(l)
  <2>1. rec'.cur # m \/ rec'.cur = rec.cur
    BY <1>0, <1>1 DEF RecoverPick, Recs
  <2>2. rec'.todo = [rec.todo EXCEPT ![l] = None]
    BY <1>0, <1>1 DEF RecoverPick, Recs
  <2> QED
    BY <1>0, <1>1, <2>1, <2>2 DEF RecoverPick
<1>2. CASE RecoverGone(l)
  BY <1>0, <1>q, <1>2, SMTT(40) DEF RecoverGone, Cleanup, Recs, TypeOK
<1>3. CASE RecoverSeize(l)
  BY <1>0, <1>q, <1>3, ZenonT(40) DEF RecoverSeize, WriteState, WriteLease, Recs, TypeOK
<1>4. CASE RecoverAttach(l)
  BY <1>0, <1>q, <1>4, ZenonT(40) DEF RecoverAttach, Attach, Recs, TypeOK
<1>5. CASE RecoverRelease(l)
  BY <1>0, <1>q, <1>5, SMTT(40) DEF RecoverRelease, ReleaseSession, Recs, TypeOK
<1>6. CASE RecoverClean(l)
  BY <1>0, <1>q, <1>6, SMTT(40) DEF RecoverClean, Cleanup, Recs, TypeOK
<1>7. CASE RecoverUnlink(l)
  BY <1>0, <1>7 DEF RecoverUnlink, RemoveLease, Recs, TypeOK
<1> QED
  BY <1>1, <1>2, <1>3, <1>4, <1>5, <1>6, <1>7 DEF RecoverEntry

\* A request concerns its own lease only.
LEMMA RequestsFrame ==
  ASSUME TypeOK, NEW l \in Leases, Requests(l), NEW m \in Leases, m # l
  PROVE  Same(m) /\ RecSame(m)
<1> USE DEF disk, mem, procs, hist, Same, RecSame, TypeOK
<1>1. CASE AcquireRefused(l)
  BY <1>1 DEF AcquireRefused
<1>2. CASE AcquireBegin(l)
  BY <1>2 DEF AcquireBegin, Goto, WriteLease
<1>3. ASSUME NEW k \in {"beat", "pid"}, HeartbeatRead(l, k) PROVE Same(m) /\ RecSame(m)
  BY <1>3 DEF HeartbeatRead, Goto
<1>4. ASSUME NEW retain \in BOOLEAN, ReleaseBegin(l, retain) PROVE Same(m) /\ RecSame(m)
  BY <1>4 DEF ReleaseBegin, Goto, WriteLease
<1>5. CASE AttachBegin(l)
  BY <1>5 DEF AttachBegin, Goto
<1>6. CASE RemoveBegin(l)
  BY <1>6 DEF RemoveBegin, Goto
<1> QED
  BY <1>1, <1>2, <1>3, <1>4, <1>5, <1>6 DEF Requests

\* A heartbeat writes the journal of its own lease only.
LEMMA HeartbeatWriteFrame ==
  ASSUME TypeOK, NEW l \in Leases, NEW k \in {"beat", "pid"}, HeartbeatWrite(l, k),
         NEW m \in Leases, m # l
  PROVE  Same(m) /\ RecSame(m)
  BY DEF HeartbeatWrite, WriteLease, Finish, disk, mem, procs, hist, Same, RecSame, TypeOK

\* What a client, its Unity or the clock does concerns one lease only.
LEMMA ProcessesFrame ==
  ASSUME TypeOK, NEW l \in Leases, Processes(l), NEW m \in Leases, m # l
  PROVE  Same(m) /\ RecSame(m)
<1> USE DEF disk, mem, procs, hist, Same, RecSame, TypeOK
<1>1. CASE ClientAcquireFailed(l)
  BY <1>1 DEF ClientAcquireFailed
<1>2. CASE ClientReleaseReturned(l)
  BY <1>2 DEF ClientReleaseReturned
<1>3. CASE ClientKilled(l)
  BY <1>3 DEF ClientKilled
<1>4. CASE UnityStart(l)
  BY <1>4 DEF UnityStart
<1>5. CASE UnityExit(l)
  BY <1>5 DEF UnityExit
<1>r. rec' = [rec EXCEPT !.todo[l].fresh = FALSE] => RecSame(m)
  BY DEF Recs
<1>6. CASE GraceElapses(l)
  BY <1>r, <1>6 DEF GraceElapses
<1>7. CASE PassOutlastsGrace(l)
  BY <1>r, <1>7 DEF PassOutlastsGrace
<1> QED
  BY <1>1, <1>2, <1>3, <1>4, <1>5, <1>6, <1>7 DEF Processes

-----------------------------------------------------------------------------
(* The handlers of a lease keep the invariant of that lease. *)

\* What a reader finds in a journal that was just written.
LEMMA WriteLeaseReads ==
  ASSUME TypeOK, NEW l \in Leases, NEW j \in Journals, WriteLease(l, j)
  PROVE  journal'[l] # None /\ journal'[l].sameBoot = j.sameBoot
<1>1. journal'[l] = [j EXCEPT !.fresh = TRUE]
  BY DEF WriteLease, TypeOK
<1>2. [j EXCEPT !.fresh = TRUE] \in Journals
  BY DEF Journals
<1> QED
  BY <1>1, <1>2, ConstantsAssumption DEF Journals

\* What a reader finds in a journal that was just written with another state.
LEMMA WriteStateReads ==
  ASSUME TypeOK, NEW l \in Leases, NEW j \in Journals, NEW state \in JournalStates,
         WriteState(l, j, state)
  PROVE  journal'[l] # None /\ journal'[l].sameBoot = j.sameBoot
<1>1. [j EXCEPT !.state = state] \in Journals
  BY DEF Journals
<1> QED
  BY <1>1, WriteLeaseReads DEF WriteState, Journals

\* An acquire or release keeps the invariant of its lease.
LEMMA OwnerInv ==
  ASSUME TypeOK, NEW l \in Leases, LeaseInv(l), Owner(l)
  PROVE  LeaseInv(l)'
<1> USE DEF disk, mem, procs, hist
<1>r. rec' = rec
  BY DEF Owner, AcquireOwner, AcquireCreate, AcquireAttach, AcquireCommit, AcquirePublish, AcquireUndo,
     AcquireUnlink, ReleaseNative, ReleaseSettle, ReleaseRecord, ReleaseUnlink, ReleaseForget
<1>i. ~Idle(l, "owner")
  BY DEF Idle, At, Owner, AcquireOwner, AcquireCreate, AcquireAttach, AcquireCommit, AcquirePublish,
     AcquireUndo, AcquireUnlink, ReleaseNative, ReleaseSettle, ReleaseRecord, ReleaseUnlink, ReleaseForget
<1>c. Claimed(l)' => Claimed(l)
  BY DEF TypeOK, Claimed, Owner, AcquireOwner, AcquireCreate, AcquireAttach, AcquireCommit, AcquirePublish,
     AcquireUndo, AcquireUnlink, ReleaseNative, ReleaseSettle, ReleaseRecord, ReleaseUnlink, ReleaseForget
<1> SUFFICES ASSUME Claimed(l) PROVE LeaseInv(l)'
  BY <1>c, UnclaimedInv
<1>a. client[l] = "acquiring"
  BY <1>i DEF LeaseInv, Claimed, Untouched, InUse, Kinds
<1>b. /\ "owner" \in Kinds /\ "beat" \in Kinds /\ "pid" \in Kinds /\ "tool" \in Kinds
      /\ Idle(l, "beat") /\ Idle(l, "pid") /\ Idle(l, "tool")
      /\ Copy(l, "owner") \in Journals /\ Copy(l, "owner").sameBoot
      /\ ~record[l] /\ rec.cur # l
      /\ journal[l] # None => journal[l].sameBoot
      /\ rec.todo[l] # None => rec.todo[l].sameBoot
  <2>1. Copy(l, "owner") \in Journals
    BY <1>i DEF TypeOK, Kinds, Tasks, IdleTask, Idle, Copy
  <2> QED
    BY <1>a, <1>i, <2>1 DEF LeaseInv, Claimed, Unseized, Building, Kinds
\* What is left to show of an acquire step that stays in service.
<1>u. ASSUME client'[l] = "acquiring" \/ client'[l] = "running", record' = record,
             task'[l]["beat"] = task[l]["beat"], task'[l]["pid"] = task[l]["pid"],
             task'[l]["tool"] = task[l]["tool"],
             journal'[l] # None => journal'[l].sameBoot,
             Idle(l, "owner")' \/ task'[l]["owner"].copy.sameBoot
      PROVE  Unseized(l)' /\ Untouched(l)' /\ Idle(l, "beat")' /\ Idle(l, "pid")'
  BY <1>u, <1>r, <1>b DEF Unseized, Untouched, Claimed, Kinds, Idle, Copy
<1>1. CASE AcquireOwner(l)
  <2>1. Unseized(l)' /\ Untouched(l)' /\ Idle(l, "beat")' /\ Idle(l, "pid")'
    BY <1>1, <1>a, <1>b, <1>u DEF AcquireOwner, Goto, Finish, RemoveLease, TypeOK, Idle, IdleTask, Kinds
  <2> QED
    BY <1>1, <1>a, <2>1 DEF LeaseInv, Building, InUse, AcquireOwner, Goto, Finish, TypeOK, IdleTask, At, Kinds
<1>2. CASE AcquireCreate(l)
  <2>1. Unseized(l)' /\ Untouched(l)' /\ Idle(l, "beat")' /\ Idle(l, "pid")'
    BY <1>2, <1>a, <1>b, <1>u DEF AcquireCreate, Goto, WriteState, WriteLease, TypeOK, Idle, Kinds, Journals
  <2>2. space[l] = "owned"
    BY <1>2, <1>a DEF AcquireCreate, At, LeaseInv, Building
  <2> QED
    BY <1>2, <1>a, <2>1, <2>2 DEF LeaseInv, Building, InUse, AcquireCreate, Goto, TypeOK, At, Kinds
<1>3. CASE AcquireAttach(l)
  <2>1. Unseized(l)' /\ Untouched(l)' /\ Idle(l, "beat")' /\ Idle(l, "pid")'
    BY <1>3, <1>a, <1>b, <1>u DEF AcquireAttach, Goto, WriteState, WriteLease, TypeOK, Idle, Kinds, Journals
  <2>2. space[l] = "owned" /\ child[l]
    BY <1>3, <1>a DEF AcquireAttach, At, LeaseInv, Building
  <2>3. HasJournal(l)'
    BY <1>3, <1>b, WriteStateReads DEF AcquireAttach, HasJournal, JournalStates
  <2> QED
    BY <1>3, <1>a, <2>1, <2>2, <2>3
       DEF LeaseInv, Building, InUse, AcquireAttach, Attach, Goto, TypeOK, At, Ses, Kinds
<1>4. CASE AcquireCommit(l)
  <2> DEFINE ready == [Copy(l, "owner") EXCEPT !.state = "ready", !.ident = TRUE]
  <2>1. ready \in Journals /\ ready.sameBoot
    BY <1>b DEF Journals, JournalStates
  <2>2. space[l] = "owned" /\ child[l] /\ HasJournal(l) /\ library[l] /\ att[l] = Ses(l, "owner")
    BY <1>4, <1>a DEF AcquireCommit, At, LeaseInv, Building
  <2> HIDE DEF ready
  <2>3. client' = client /\ record' = record
    BY <1>4 DEF AcquireCommit
  <2>4. CASE /\ WriteLease(l, ready) /\ Goto(l, "owner", "a_publish", ready, Ses(l, "owner"))
             /\ UNCHANGED <<att, library, child, space>>
    <3>1. journal'[l] # None /\ journal'[l].sameBoot
      BY <2>1, <2>4, WriteLeaseReads
    <3>2. /\ task'[l]["owner"] = [pc |-> "a_publish", copy |-> ready, ses |-> Ses(l, "owner")]
          /\ \A k \in Kinds : k # "owner" => task'[l][k] = task[l][k]
      BY <1>b, <2>4 DEF Goto, TypeOK
    <3>3. Unseized(l)' /\ Untouched(l)' /\ Idle(l, "beat")' /\ Idle(l, "pid")'
      BY <1>a, <1>b, <1>u, <2>1, <2>3, <3>1, <3>2 DEF Kinds
    <3> QED
      BY <1>a, <2>2, <2>3, <2>4, <3>1, <3>2, <3>3 DEF LeaseInv, Building, InUse, At, Ses, HasJournal
  <2>5. CASE Finish(l, "owner") /\ UNCHANGED journal
    <3>1. /\ Idle(l, "owner")' /\ task'[l]["owner"].pc = "idle"
          /\ \A k \in Kinds : k # "owner" => task'[l][k] = task[l][k]
      BY <1>b, <2>5 DEF Finish, TypeOK, Idle, IdleTask
    <3>2. Unseized(l)' /\ Untouched(l)' /\ Idle(l, "beat")' /\ Idle(l, "pid")'
      BY <1>a, <1>b, <1>u, <2>3, <2>5, <3>1 DEF Kinds
    <3> QED
      BY <1>a, <2>3, <3>1, <3>2 DEF LeaseInv, Building, InUse, At
  <2> QED
    BY <1>4, <2>4, <2>5 DEF AcquireCommit, ready
<1>5. CASE AcquirePublish(l)
  <2>1. Unseized(l)' /\ Untouched(l)' /\ Idle(l, "beat")' /\ Idle(l, "pid")'
    BY <1>5, <1>a, <1>b, <1>u DEF AcquirePublish, Finish, TypeOK, Idle, IdleTask, Kinds
  <2>2. space[l] = "owned" /\ child[l] /\ HasJournal(l) /\ library[l] /\ att[l] = Ses(l, "owner")
    BY <1>5, <1>a DEF AcquirePublish, At, LeaseInv, Building
  <2> QED
    BY <1>5, <1>a, <2>1, <2>2
       DEF LeaseInv, Building, InUse, AcquirePublish, Finish, TypeOK, Idle, IdleTask, Kinds, HasJournal
<1>6. CASE AcquireUndo(l)
  <2>1. journal'[l] # None => journal'[l].sameBoot
    BY <1>6, <1>b, WriteStateReads DEF AcquireUndo, JournalStates
  <2>2. /\ task'[l]["owner"].pc \in {"idle", "a_unlink"}
        /\ Idle(l, "owner")' \/ task'[l]["owner"].copy.sameBoot
        /\ \A k \in Kinds : k # "owner" => task'[l][k] = task[l][k]
    BY <1>6, <1>b DEF AcquireUndo, Goto, Finish, TypeOK, Idle, IdleTask
  <2>3. client' = client /\ record' = record
    BY <1>6 DEF AcquireUndo
  <2>4. Unseized(l)' /\ Untouched(l)' /\ Idle(l, "beat")' /\ Idle(l, "pid")'
    BY <1>a, <1>b, <1>u, <2>1, <2>2, <2>3 DEF Kinds
  <2> QED
    BY <1>a, <2>2, <2>3, <2>4 DEF LeaseInv, Building, InUse, At
<1>7. CASE AcquireUnlink(l)
  <2>1. Unseized(l)' /\ Untouched(l)' /\ Idle(l, "beat")' /\ Idle(l, "pid")'
    BY <1>7, <1>a, <1>b, <1>u DEF AcquireUnlink, Finish, RemoveLease, TypeOK, Idle, IdleTask, Kinds
  <2> QED
    BY <1>7, <1>a, <2>1 DEF LeaseInv, Building, InUse, AcquireUnlink, Finish, TypeOK, IdleTask, At, Kinds
<1>8. ~ (ReleaseNative(l) \/ ReleaseSettle(l) \/ ReleaseRecord(l) \/ ReleaseUnlink(l) \/ ReleaseForget(l))
  BY <1>a DEF LeaseInv, Building, At, ReleaseNative, ReleaseSettle, ReleaseRecord, ReleaseUnlink, ReleaseForget
<1> QED
  BY <1>1, <1>2, <1>3, <1>4, <1>5, <1>6, <1>7, <1>8 DEF Owner

\* A claimed lease has no retained record, so no tool is at work on it.
LEMMA ToolInv ==
  ASSUME TypeOK, NEW l \in Leases, LeaseInv(l), Tool(l)
  PROVE  LeaseInv(l)'
<1>1. client' = client
  BY DEF procs, Tool, AttachNative, RemoveAttach, ToolAttach, AttachWrite, AttachPublish, RemoveRelease,
     RemoveClean, RemoveUnlink, RemoveRecord
<1>2. ~Idle(l, "tool")
  BY DEF Idle, At, Tool, AttachNative, RemoveAttach, ToolAttach, AttachWrite, AttachPublish, RemoveRelease,
     RemoveClean, RemoveUnlink, RemoveRecord
<1>3. ~Claimed(l)
  BY <1>2 DEF LeaseInv, Unseized
<1> QED
  BY <1>1, <1>3, UnclaimedInv DEF Claimed

\* Recover lets go of a claimed lease, and never works on one.
LEMMA RecoverInv ==
  ASSUME TypeOK, NEW l \in Leases, LeaseInv(l), RecoverEntry(l)
  PROVE  LeaseInv(l)'
<1> USE DEF disk, mem, procs, hist
<1>1. client' = client
  BY DEF RecoverEntry, RecoverPick, RecoverGone, RecoverSeize, RecoverAttach, RecoverRelease, RecoverClean,
     RecoverUnlink
<1>2. CASE ~Claimed(l)
  BY <1>1, <1>2, UnclaimedInv DEF Claimed
<1>3. CASE Claimed(l) /\ RecoverPick(l)
  <2>1. Preserved(l, rec.todo[l])
    BY <1>3 DEF RecoverPick, LeaseInv, Unseized, Preserved, Alive, Claimed
  <2>2. rec' = [rec EXCEPT !.todo[l] = None]
    BY <1>3, <2>1 DEF RecoverPick
  <2>3. RecSame(l)
    BY <2>2 DEF RecSame, TypeOK, Recs
  <2> QED
    BY <1>3, <2>3, FrameInv DEF RecoverPick, Same
<1>4. CASE Claimed(l) /\ ~RecoverPick(l)
  <2>1. rec.cur = l
    BY <1>4 DEF RecoverEntry, RecoverGone, RecoverSeize, RecoverAttach, RecoverRelease, RecoverClean, RecoverUnlink
  <2> QED
    BY <1>4, <2>1 DEF LeaseInv, Unseized
<1> QED
  BY <1>2, <1>3, <1>4

\* Requests open a claim, use it or end it.
LEMMA RequestsInv ==
  ASSUME TypeOK, NEW l \in Leases, LeaseInv(l), Requests(l)
  PROVE  LeaseInv(l)'
<1> USE DEF disk, mem, procs, hist
<1>k. "owner" \in Kinds /\ "beat" \in Kinds /\ "pid" \in Kinds /\ "tool" \in Kinds
  BY DEF Kinds
<1>1. CASE AcquireRefused(l)
  <2>1. client'[l] = "acquiring" /\ UNCHANGED <<disk, mem, task, rec>> /\ client[l] = "prepared"
    BY <1>1 DEF AcquireRefused, TypeOK
  <2> QED
    BY <2>1, <1>k DEF LeaseInv, Unseized, Untouched, Building, InUse, Claimed, Idle, At, Copy
<1>2. CASE AcquireBegin(l)
  <2> DEFINE j == [state |-> "requested", retained |-> FALSE, fresh |-> TRUE,
                   unity |-> FALSE, ident |-> FALSE, sameBoot |-> TRUE]
  <2>1. j \in Journals /\ j.sameBoot
    BY DEF Journals, JournalStates
  <2>2. journal'[l] # None /\ journal'[l].sameBoot
    BY <1>2, <2>1, WriteLeaseReads DEF AcquireBegin
  <2>3. /\ task'[l]["owner"].pc = "a_owner" /\ task'[l]["owner"].copy.sameBoot
        /\ \A k \in Kinds : k # "owner" => task'[l][k] = task[l][k]
    BY <1>2, <1>k, <2>1 DEF AcquireBegin, Goto, TypeOK
  <2>4. client'[l] = "acquiring" /\ client[l] = "prepared" /\ record' = record /\ rec' = rec
    BY <1>2 DEF AcquireBegin, TypeOK
  <2> QED
    BY <1>k, <2>2, <2>3, <2>4 DEF LeaseInv, Unseized, Untouched, Building, InUse, Claimed, Idle, At, Copy, Kinds
<1>3. ASSUME NEW k \in {"beat", "pid"}, HeartbeatRead(l, k) PROVE LeaseInv(l)'
  <2>1. UNCHANGED <<disk, mem, rec, client>> /\ client[l] = "running" /\ k \in Kinds /\ k # "owner" /\ k # "tool"
    BY <1>3 DEF HeartbeatRead, Kinds
  <2>2. \A n \in Kinds : n # k => task'[l][n] = task[l][n]
    BY <1>3, <2>1 DEF HeartbeatRead, Goto, TypeOK
  <2>3. Idle(l, k)' \/ Copy(l, k)'.sameBoot
    <3>1. CASE HasJournal(l) /\ journal[l].state = "ready"
      <4>1. journal[l] \in Journals /\ journal[l].sameBoot
        BY <2>1, <3>1 DEF TypeOK, MaybeJournals, HasJournal, LeaseInv, Unseized, Claimed
      <4>2. task'[l][k].copy = [journal[l] EXCEPT !.unity = @ \/ k = "pid"]
        BY <1>3, <2>1, <3>1 DEF HeartbeatRead, Goto, TypeOK
      <4>3. [journal[l] EXCEPT !.unity = @ \/ k = "pid"].sameBoot
        BY <4>1 DEF Journals
      <4> QED
        BY <4>2, <4>3 DEF Copy
    <3>2. CASE ~ (HasJournal(l) /\ journal[l].state = "ready")
      BY <1>3, <3>2 DEF HeartbeatRead, Request, Idle
    <3> QED
      BY <3>1, <3>2
  <2> QED
    BY <1>k, <2>1, <2>2, <2>3
       DEF LeaseInv, Unseized, Untouched, Building, InUse, Claimed, Idle, Copy, HasJournal
<1>4. ASSUME NEW retain \in BOOLEAN, ReleaseBegin(l, retain) PROVE LeaseInv(l)'
  BY <1>4, UnclaimedInv DEF ReleaseBegin, Claimed, TypeOK
<1>5. CASE AttachBegin(l) \/ RemoveBegin(l)
  BY <1>5, UnclaimedInv DEF AttachBegin, RemoveBegin, RetainedMatches, LeaseInv, Unseized, Claimed
<1> QED
  BY <1>1, <1>2, <1>3, <1>4, <1>5 DEF Requests

\* The journal that a heartbeat writes back is still the lease's own.
LEMMA HeartbeatWriteInv ==
  ASSUME TypeOK, NEW l \in Leases, LeaseInv(l), NEW k \in {"beat", "pid"}, HeartbeatWrite(l, k)
  PROVE  LeaseInv(l)'
<1> USE DEF disk, mem, procs, hist
<1>1. k \in Kinds /\ k # "owner" /\ k # "tool" /\ ~Idle(l, k) /\ Copy(l, k) \in Journals
  BY TaskRead DEF HeartbeatWrite, Kinds, At, Idle
<1>2. \/ journal'[l] # None /\ journal'[l].sameBoot = Copy(l, k).sameBoot
      \/ UNCHANGED journal
  BY <1>1, WriteLeaseReads DEF HeartbeatWrite
<1>3. Idle(l, k)' /\ \A n \in Kinds : n # k => task'[l][n] = task[l][n]
  BY <1>1 DEF HeartbeatWrite, Finish, TypeOK, Idle, IdleTask
<1>4. UNCHANGED <<child, space, library, record, mem, rec, client>>
  BY DEF HeartbeatWrite
<1>5. ~Claimed(l) \/ client[l] = "running"
  BY <1>1 DEF LeaseInv, Claimed, Untouched, Building
<1> QED
  BY <1>1, <1>2, <1>3, <1>4, <1>5, UnclaimedInv
     DEF LeaseInv, Unseized, Untouched, Building, InUse, Claimed, Idle, Copy, HasJournal, Kinds

\* A client that leaves drops its claim; time changes only UpdatedAt.
LEMMA ProcessesInv ==
  ASSUME TypeOK, NEW l \in Leases, LeaseInv(l), Processes(l)
  PROVE  LeaseInv(l)'
<1> USE DEF disk, mem, procs, hist
<1>1. CASE ClientAcquireFailed(l) \/ ClientReleaseReturned(l) \/ ClientKilled(l)
  BY <1>1, UnclaimedInv DEF ClientAcquireFailed, ClientReleaseReturned, ClientKilled, Claimed, TypeOK
<1>2. CASE UnityStart(l) \/ UnityExit(l)
  BY <1>2, FrameInv DEF UnityStart, UnityExit, Same, RecSame
<1>r. ASSUME rec' = rec \/ (rec.todo[l] # None /\ rec' = [rec EXCEPT !.todo[l].fresh = FALSE])
      PROVE  /\ rec'.cur = rec.cur
             /\ (rec.todo[l] # None => rec.todo[l].sameBoot)
                   => (rec'.todo[l] # None => rec'.todo[l].sameBoot)
  <2>1. rec.todo \in [Leases -> MaybeJournals] /\ rec \in Recs
    BY DEF TypeOK, Recs
  <2>2. rec'.cur = rec.cur
    BY <1>r, <2>1 DEF Recs
  <2>3. ASSUME rec.todo[l] # None, rec' = [rec EXCEPT !.todo[l].fresh = FALSE]
        PROVE  rec'.todo[l].sameBoot = rec.todo[l].sameBoot
    <3>1. rec.todo[l] \in Journals
      BY <2>1, <2>3 DEF MaybeJournals
    <3>2. rec'.todo[l] = [rec.todo[l] EXCEPT !.fresh = FALSE]
      BY <2>1, <2>3 DEF Recs
    <3> QED
      BY <3>1, <3>2 DEF Journals
  <2> QED
    BY <1>r, <2>2, <2>3
<1>3. CASE GraceElapses(l)
  <2>1. journal[l] \in Journals /\ journal'[l] = [journal[l] EXCEPT !.fresh = FALSE]
    BY <1>3 DEF GraceElapses, HasJournal, TypeOK, MaybeJournals
  <2>2. [journal[l] EXCEPT !.fresh = FALSE] \in Journals
    BY <2>1 DEF Journals
  <2>3. journal'[l] # None /\ journal'[l].sameBoot = journal[l].sameBoot /\ journal[l] # None
    BY <2>1, <2>2, ConstantsAssumption DEF Journals
  <2>4. UNCHANGED <<child, space, library, record, mem, task, client>>
    BY <1>3 DEF GraceElapses
  <2>5. /\ rec'.cur = rec.cur
        /\ (rec.todo[l] # None => rec.todo[l].sameBoot)
              => (rec'.todo[l] # None => rec'.todo[l].sameBoot)
    BY <1>3, <1>r DEF GraceElapses
  <2> QED
    BY <2>3, <2>4, <2>5
       DEF LeaseInv, Unseized, Untouched, Building, InUse, Claimed, Idle, At, Copy, Ses, HasJournal, Kinds
<1>4. CASE PassOutlastsGrace(l)
  <2>1. UNCHANGED <<disk, mem, task, client>>
    BY <1>4 DEF PassOutlastsGrace
  <2>2. /\ rec'.cur = rec.cur
        /\ (rec.todo[l] # None => rec.todo[l].sameBoot)
              => (rec'.todo[l] # None => rec'.todo[l].sameBoot)
    BY <1>4, <1>r DEF PassOutlastsGrace
  <2> QED
    BY <2>1, <2>2
       DEF LeaseInv, Unseized, Untouched, Building, InUse, Claimed, Idle, At, Copy, Ses, HasJournal, Kinds
<1> QED
  BY <1>1, <1>2, <1>3, <1>4 DEF Processes

-----------------------------------------------------------------------------
(* The whole system. *)

\* A pass begins with copies of the journals as they are.
LEMMA StartPassInv ==
  ASSUME TypeOK, NEW m \in Leases, LeaseInv(m), StartPass, UNCHANGED <<disk, mem, task, client>>
  PROVE  LeaseInv(m)'
<1>1. rec'.cur = None /\ rec'.todo = journal
  BY DEF StartPass, IdleRec
<1>2. rec'.cur # m
  BY <1>1, ConstantsAssumption
<1> QED
  BY <1>1, <1>2 DEF disk, mem, LeaseInv, Unseized, Untouched, Building, InUse, Claimed, Idle, At, Copy,
     Ses, HasJournal, Kinds

\* With the process, its handlers, sessions and pass are gone.
LEMMA LoseProcessInv ==
  ASSUME TypeOK, NEW m \in Leases, LeaseInv(m), LoseProcess, UNCHANGED <<journal, client>>
  PROVE  LeaseInv(m)'
<1>1. \A k \in Kinds : Idle(m, k)' /\ task'[m][k].pc = "idle"
  BY DEF LoseProcess, Idle, IdleTask
<1>2. rec'.cur # m /\ rec'.todo[m] = None
  BY ConstantsAssumption DEF LoseProcess, IdleRec
<1>3. UNCHANGED <<child, space, library, record>> /\ children'[m] = 0
  BY DEF LoseProcess
<1> QED
  BY <1>1, <1>2, <1>3 DEF LeaseInv, Unseized, Untouched, Building, InUse, Claimed, At, HasJournal, Kinds

\* Every step keeps the exclusion invariant.
LEMMA NextInv == TypeOK /\ LeaseIsExclusive /\ [Next]_vars => LeaseIsExclusive'
<1> SUFFICES ASSUME TypeOK, LeaseIsExclusive, [Next]_vars, NEW m \in Leases PROVE LeaseInv(m)'
  BY DEF LeaseIsExclusive, LeaseInv
<1> USE DEF disk, mem, procs, hist
<1>0. LeaseInv(m)
  BY DEF LeaseIsExclusive, LeaseInv
<1>1. ASSUME NEW l \in Leases,
             \/ Requests(l) \/ Owner(l) \/ Tool(l)
             \/ \E k \in {"beat", "pid"} : HeartbeatWrite(l, k)
             \/ RecoverEntry(l) \/ Processes(l)
      PROVE  LeaseInv(m)'
  <2>1. CASE m = l
    BY <1>0, <1>1, <2>1, RequestsInv, OwnerInv, ToolInv, HeartbeatWriteInv, RecoverInv, ProcessesInv
  <2>2. CASE m # l
    <3>1. Same(m) /\ RecSame(m)
      BY <1>1, <2>2, RequestsFrame, OwnerFrame, ToolFrame, HeartbeatWriteFrame, RecoverFrame, ProcessesFrame
    <3> QED
      BY <1>0, <3>1, FrameInv
  <2> QED
    BY <2>1, <2>2
<1>2. CASE RecoverTick
  BY <1>0, <1>2, StartPassInv DEF RecoverTick
<1>3. CASE RecoverDone
  <2>1. rec'.cur # m /\ rec'.todo[m] = None
    BY <1>3, ConstantsAssumption DEF RecoverDone, IdleRec
  <2> QED
    BY <1>0, <1>3, <2>1, FrameInv DEF RecoverDone, Same, RecSame
<1>4. CASE BrokerCrash
  BY <1>0, <1>4, LoseProcessInv DEF BrokerCrash
<1>5. CASE Reboot
  <2>1. client'[m] = IF Alive(m) THEN "killed" ELSE client[m]
    BY <1>5 DEF Reboot
  <2> QED
    BY <2>1, UnclaimedInv DEF Alive, Claimed
<1>6. CASE BrokerStart
  BY <1>0, <1>6, StartPassInv DEF BrokerStart
<1>7. CASE UNCHANGED vars
  BY <1>0, <1>7, FrameInv DEF vars, Same, RecSame
<1> QED
  BY <1>1, <1>2, <1>3, <1>4, <1>5, <1>6, <1>7 DEF Next

\* A lease that a run claims is never seized, and its acquire builds the child,
\* the mount and the session in order: no journal copy that Recover or a
\* heartbeat holds, however old, lets anybody else work on it.
THEOREM LeaseExclusive == Spec => []LeaseIsExclusive
<1>1. TypeOK /\ LeaseIsExclusive /\ [Next]_vars => (TypeOK /\ LeaseIsExclusive)'
  BY NextType, NextInv
<1>2. Init => TypeOK /\ LeaseIsExclusive
  BY InitType, InitInv
<1> QED
  BY <1>1, <1>2, PTL DEF Spec

\* While the testplay process of a run is using its lease, its child, journal
\* and owned workspace are there, and as long as the broker process lives its
\* Library is mounted: Broker.Recover, attachRetained and removeRetained never
\* take them away.
THEOREM RunningStaysMounted == Spec => []RunningLeaseMounted
<1>1. LeaseIsExclusive => RunningLeaseMounted
  BY DEF LeaseIsExclusive, InUse, RunningLeaseMounted
<1> QED
  BY <1>1, LeaseExclusive, PTL

-----------------------------------------------------------------------------
(* What a step of a lease's handlers leaves of that lease *)

\* A handler that goes on, and one that ends.
Goes(l, k, pc, copy, ses) ==
    task'[l][k].pc = pc /\ task'[l][k].copy = copy /\ task'[l][k].ses = ses
Ends(l, k) == task'[l][k].pc = "idle"

\* A journal written from a copy.
Wrote(l, j) ==
    /\ journal'[l] # None /\ journal'[l].ident = j.ident /\ journal'[l].retained = j.retained
    /\ journal'[l].sameBoot = j.sameBoot /\ journal'[l].fresh

\* A child attached, and a session released.
Opened(l) == att'[l] = gen[l] + 1 /\ gen[l] + 1 # 0 /\ library'[l]
Closed(l, s, delete) ==
    \/ att[l] = s /\ att'[l] = 0 /\ ~library'[l] /\ (child'[l] <=> child[l] /\ ~delete)
    \/ att[l] # s /\ att'[l] = att[l] /\ library'[l] = library[l] /\ child'[l] = child[l]

\* A pass that goes on with its entry.
Passes(pc, ses) ==
    /\ rec'.pc = pc /\ rec'.cur = rec.cur /\ rec'.copy = rec.copy
    /\ rec'.ses = ses /\ rec'.todo = rec.todo

\* Goto changes one handler of one lease.
LEMMA GotoReads ==
  ASSUME TypeOK, NEW l \in Leases, NEW k \in Kinds, NEW pc, NEW copy, NEW ses,
         Goto(l, k, pc, copy, ses)
  PROVE  /\ Goes(l, k, pc, copy, ses)
         /\ \A h \in Kinds : h # k => task'[l][h] = task[l][h]
  BY DEF Goto, TypeOK, Goes

\* Finish ends one handler of one lease.
LEMMA FinishReads ==
  ASSUME TypeOK, NEW l \in Leases, NEW k \in Kinds, Finish(l, k)
  PROVE  Ends(l, k) /\ \A h \in Kinds : h # k => task'[l][h] = task[l][h]
  BY DEF Finish, TypeOK, IdleTask, Ends

\* A journal that is removed is gone.
LEMMA RemoveReads ==
  ASSUME TypeOK, NEW l \in Leases, RemoveLease(l) PROVE journal'[l] = None
  BY DEF RemoveLease, TypeOK

\* A journal that is written is fresh and says what the copy says.
LEMMA WriteReads ==
  ASSUME TypeOK, NEW l \in Leases, NEW j \in Journals, WriteLease(l, j)
  PROVE  Wrote(l, j)
<1>1. journal'[l] = [j EXCEPT !.fresh = TRUE]
  BY DEF WriteLease, TypeOK
<1>2. [j EXCEPT !.fresh = TRUE] \in Journals
  BY DEF Journals
<1> QED
  BY <1>1, <1>2, ConstantsAssumption DEF Journals, Wrote

\* So does one that is written with another state.
LEMMA StateReads ==
  ASSUME TypeOK, NEW l \in Leases, NEW j \in Journals, NEW state \in JournalStates,
         WriteState(l, j, state)
  PROVE  Wrote(l, j)
<1>1. [j EXCEPT !.state = state] \in Journals /\ [j EXCEPT !.state = state].ident = j.ident
      /\ [j EXCEPT !.state = state].retained = j.retained
      /\ [j EXCEPT !.state = state].sameBoot = j.sameBoot
  BY DEF Journals
<1> QED
  BY <1>1, WriteReads DEF WriteState, Wrote

\* A child that is attached is mounted, under a new session.
LEMMA AttachReads ==
  ASSUME TypeOK, NEW l \in Leases, Attach(l) PROVE Opened(l) /\ gen[l] + 1 \in Sessions
  BY ConstantsAssumption DEF Attach, TypeOK, Sessions, Opened

\* A session that is released lets go of the child, unless it was released before.
LEMMA ReleaseReads ==
  ASSUME TypeOK, NEW l \in Leases, NEW s, NEW delete \in BOOLEAN, ReleaseSession(l, s, delete)
  PROVE  Closed(l, s, delete)
<1>1. CASE att[l] = s
  <2>1. att'[l] = 0 /\ library'[l] = FALSE /\ child'[l] = (child[l] /\ ~delete)
    BY <1>1, Zenon DEF ReleaseSession, TypeOK
  <2>2. child[l] \in BOOLEAN
    BY DEF TypeOK
  <2> QED
    BY <2>1, <2>2, <1>1 DEF Closed
<1>2. CASE att[l] # s
  BY <1>2 DEF ReleaseSession, Closed
<1> QED
  BY <1>1, <1>2

\* A workspace that is removed is gone.
LEMMA CleanupReads ==
  ASSUME TypeOK, NEW l \in Leases, Cleanup(l) PROVE space'[l] = "none"
  BY DEF Cleanup, TypeOK

\* The kinds of handlers, one by one.
LEMMA KindsOf ==
  /\ "owner" \in Kinds /\ "beat" \in Kinds /\ "pid" \in Kinds /\ "tool" \in Kinds
  /\ \A k \in Kinds : k = "owner" \/ k = "beat" \/ k = "pid" \/ k = "tool"
  BY DEF Kinds

\* A ready journal says of its child what the copy says, or that it is identified.
LEMMA ReadyReads ==
  ASSUME NEW j \in Journals
  PROVE  LET ready == [j EXCEPT !.state = "ready", !.ident = TRUE]
             again == [j EXCEPT !.state = "ready"]
         IN  /\ ready \in Journals /\ ready.ident
             /\ ready.retained = j.retained /\ ready.sameBoot = j.sameBoot
             /\ again \in Journals /\ again.ident = j.ident
             /\ again.retained = j.retained /\ again.sameBoot = j.sameBoot
  BY DEF Journals, JournalStates

\* An entry in the hand of a Recover pass.
LEMMA RecReads ==
  ASSUME TypeOK, NEW l \in Leases, rec.cur = l
  PROVE  rec.pc \in RecLabels /\ rec.copy \in Journals /\ rec.ses \in Sessions
<1>1. rec.pc \in RecLabels
  BY ConstantsAssumption DEF TypeOK, Recs
<1> QED
  BY <1>1, RecRead

\* The same of a release that deletes the child, of one that keeps it, and of one
\* that does what the journal says.
LEMMA ReleaseKinds ==
  ASSUME TypeOK, NEW l \in Leases, NEW s
  PROVE  /\ ReleaseSession(l, s, TRUE) => Closed(l, s, TRUE)
         /\ ReleaseSession(l, s, FALSE) => Closed(l, s, FALSE)
         /\ \A j \in Journals : ReleaseSession(l, s, ~j.retained)
               => IF j.retained THEN Closed(l, s, FALSE) ELSE Closed(l, s, TRUE)
<1>1. ReleaseSession(l, s, TRUE) => Closed(l, s, TRUE)
  BY ReleaseReads
<1>2. ReleaseSession(l, s, FALSE) => Closed(l, s, FALSE)
  BY ReleaseReads
<1>3. ASSUME NEW j \in Journals, ReleaseSession(l, s, ~j.retained)
      PROVE  IF j.retained THEN Closed(l, s, FALSE) ELSE Closed(l, s, TRUE)
  <2>1. j.retained = TRUE \/ j.retained = FALSE
    BY DEF Journals
  <2>2. CASE j.retained = TRUE
    <3>1. (~j.retained) = FALSE
      BY <2>2, Zenon
    <3> QED
      BY <1>2, <1>3, <2>2, <3>1, Zenon
  <2>3. CASE j.retained = FALSE
    <3>1. (~j.retained) = TRUE
      BY <2>3, Zenon
    <3> QED
      BY <1>1, <1>3, <2>3, <3>1, Zenon
  <2> QED
    BY <2>1, <2>2, <2>3
<1> QED
  BY <1>1, <1>2, <1>3
\* A copy of the journal in the hand of a handler.
CopyIdentifies(l, k) == ~Idle(l, k) /\ Copy(l, k).ident

\* A copy of the journal that records the identity of the child: only such a copy
\* lets anybody but the acquire that creates the child attach it.
Identified(l) ==
    \/ journal[l] # None /\ journal[l].ident
    \/ rec.todo[l] # None /\ rec.todo[l].ident
    \/ rec.cur = l /\ rec.copy.ident
    \/ CopyIdentifies(l, "owner") \/ CopyIdentifies(l, "beat")
    \/ CopyIdentifies(l, "pid") \/ CopyIdentifies(l, "tool")

\* Before its acquire has committed the child, nothing identifies it, and only that
\* acquire has it attached.
Making(l) ==
    \/ client[l] = "prepared"
    \/ task[l]["owner"].pc \in {"a_owner", "a_create", "a_attach", "a_commit", "a_undo", "a_unlink"}
Unidentified(l) ==
    Making(l) =>
        /\ ~Identified(l) /\ ~record[l] /\ children[l] = 0 /\ Idle(l, "tool")
        /\ rec.cur = l => rec.pc # "release"
        /\ task[l]["owner"].pc \in {"a_create", "a_attach"} => space[l] # "plain"
        /\ att[l] = IF At(l, "owner", "a_commit") THEN Ses(l, "owner") ELSE 0
        /\ At(l, "owner", "a_commit") => att[l] # 0

\* What is identified is in its owned workspace, with a journal, until the workspace
\* is removed; only then does the journal go.
InWorkspace(l) ==
    /\ Identified(l) => space[l] # "plain" /\ (space[l] = "owned" => HasJournal(l))
    /\ att[l] # 0 => HasJournal(l) /\ child[l] /\ space[l] = "owned" /\ library[l]
    /\ At(l, "owner", "x_unlink") \/ At(l, "tool", "d_unlink") => space[l] = "none"
    /\ rec.cur = l /\ rec.pc = "unlink" => space[l] = "none"

\* An acquire that has given up or has failed holds nothing attached.
GivenUp(l) == client[l] = "acquiring" /\ Idle(l, "owner") => att[l] = 0

MountInv(l) == Unidentified(l) /\ InWorkspace(l) /\ GivenUp(l)
MountIsSafe == \A l \in Leases : MountInv(l)
\* A journal that a Recover pass does not preserve, once the client is gone.
Doomed(j) == j # None /\ ~j.retained /\ ~(j.sameBoot /\ j.fresh)

\* No handler is at work on a lease.
Quiet(l) == Idle(l, "owner") /\ Idle(l, "beat") /\ Idle(l, "pid") /\ Idle(l, "tool")

\* What is doomed, or in the hand of a Recover pass, nobody is at work on.
Abandoned(l) ==
    Doomed(journal[l]) \/ Doomed(rec.todo[l]) \/ rec.cur = l =>
        /\ ~Alive(l) /\ Quiet(l)
        /\ journal[l] # None => ~journal[l].retained
        /\ rec.cur = l => ~rec.copy.retained

\* A handler of the run writes what is not doomed, one of the tool what is retained.
Current(l) ==
    /\ Idle(l, "owner") \/ Copy(l, "owner").sameBoot
    /\ Idle(l, "beat") \/ Copy(l, "beat").sameBoot
    /\ Idle(l, "pid") \/ Copy(l, "pid").sameBoot
    /\ Idle(l, "tool") \/ Copy(l, "tool").retained
    /\ Idle(l, "owner") \/ Idle(l, "tool")

\* A release has the session of the lease, then what it kept, or nothing.
Releasing == {"x_native", "x_settle", "x_record", "x_unlink", "x_forget"}
Released(l) ==
    task[l]["owner"].pc \in Releasing =>
        /\ Idle(l, "beat") /\ Idle(l, "pid") /\ client[l] \in {"releasing", "killed"}
        /\ record[l] <=> At(l, "owner", "x_forget") /\ Copy(l, "owner").retained
        /\ At(l, "owner", "x_native") =>
              att[l] = Ses(l, "owner") /\ children[l] = Ses(l, "owner") /\ child[l]
        /\ IF Copy(l, "owner").retained
           THEN child[l] /\ HasJournal(l) /\ journal[l].retained /\ ~At(l, "owner", "x_unlink")
           ELSE ~At(l, "owner", "x_native") => ~child[l] /\ ~At(l, "owner", "x_record")

\* The session that is registered, or that a handler or a pass has, is the one that
\* is attached, unless the child is gone or a retaining release has just let go of it.
Attached(l) ==
    /\ children[l] # 0 =>
         \/ att[l] = children[l] \/ ~child[l]
         \/ task[l]["owner"].pc \in Releasing /\ Copy(l, "owner").retained
         \/ HasJournal(l) /\ journal[l].retained /\ ~record[l] /\ Quiet(l)
    /\ At(l, "owner", "a_publish") => att[l] = Ses(l, "owner")
    /\ task[l]["tool"].pc \in {"t_attach", "t_write", "t_publish"} => children[l] = 0
    /\ task[l]["tool"].pc \in {"t_write", "t_publish", "d_release"}
         => att[l] = Ses(l, "tool") \/ ~child[l]
    /\ task[l]["tool"].pc \in {"d_clean", "d_unlink", "d_record"} => ~child[l]
    /\ rec.cur = l /\ rec.pc = "release" => att[l] = rec.ses \/ ~child[l]
    /\ rec.cur = l /\ rec.pc \in {"gone", "clean", "unlink"} => ~child[l]

\* What was kept stays, and nobody but a tool that attaches it is at work on it.
KeptInv(l) ==
    /\ kept[l] = "yes" =>
         /\ child[l] /\ record[l] /\ HasJournal(l) /\ journal[l].retained
         /\ ~Claimed(l) /\ Idle(l, "owner") /\ Idle(l, "beat") /\ Idle(l, "pid")
    /\ task[l]["tool"].pc \in {"d_attach", "d_release", "d_clean", "d_unlink", "d_record"}
         => kept[l] = "dropped"

\* No child without a journal; a child is made once.
ChildInv(l) ==
    /\ child[l] => HasJournal(l)
    /\ client[l] = "prepared" \/ task[l]["owner"].pc \in {"a_owner", "a_create", "a_unlink"}
         => ~child[l]

OrderlyInv(l) ==
    Abandoned(l) /\ Current(l) /\ Released(l) /\ Attached(l) /\ KeptInv(l) /\ ChildInv(l)
OrderIsKept == \A l \in Leases : OrderlyInv(l)

\* The types of what is looked at, and the states a journal is written with.
LEMMA Shapes ==
  ASSUME TypeOK
  PROVE  /\ space \in [Leases -> {"none", "plain", "owned"}] /\ children \in [Leases -> Sessions]
         /\ client \in [Leases -> ClientStates] /\ child \in [Leases -> BOOLEAN]
         /\ record \in [Leases -> BOOLEAN] /\ library \in [Leases -> BOOLEAN]
         /\ journal \in [Leases -> MaybeJournals]
         /\ kept \in [Leases -> {"no", "yes", "dropped"}]
  BY DEF TypeOK

\* The states a journal is written with.
LEMMA StatesOf ==
  /\ "requested" \in JournalStates /\ "creating" \in JournalStates /\ "attaching" \in JournalStates
  /\ "releasing" \in JournalStates /\ "released" \in JournalStates /\ "recovering" \in JournalStates
  /\ "quarantined" \in JournalStates
  BY DEF JournalStates

\* What the invariants of a lease in use say, one handler at a time.
LEMMA InUseReads ==
  ASSUME NEW l \in Leases, LeaseInv(l)
  PROVE  /\ Claimed(l) => ~record[l] /\ rec.cur # l /\ Idle(l, "tool")
         /\ Claimed(l) /\ journal[l] # None => journal[l].sameBoot
         /\ client[l] = "prepared" => Quiet(l)
         /\ Building(l) /\ InUse(l)
<1>1. Claimed(l) => ~record[l] /\ rec.cur # l /\ Idle(l, "tool")
  BY Zenon DEF LeaseInv, Unseized
<1>2. Claimed(l) /\ journal[l] # None => journal[l].sameBoot
  BY Zenon DEF LeaseInv, Unseized
<1>3. client[l] = "prepared" => Quiet(l)
  BY KindsOf, Zenon DEF LeaseInv, Untouched, Quiet
<1> QED
  BY <1>1, <1>2, <1>3, Zenon DEF LeaseInv

-----------------------------------------------------------------------------
(* The handlers of a lease and the pass keep what is said of that lease. *)

\* An acquire or a release keeps what is said of its lease.
LEMMA OwnerMount ==
  ASSUME TypeOK, NEW l \in Leases, LeaseInv(l), MountInv(l), Owner(l)
  PROVE  MountInv(l)' /\ (Orderly /\ OrderlyInv(l) => OrderlyInv(l)')
<1>c. ~Idle(l, "owner") => Copy(l, "owner") \in Journals /\ Ses(l, "owner") \in Sessions
  BY KindsOf, TaskRead DEF At, Idle
<1>o. /\ task'[l]["beat"] = task[l]["beat"] /\ task'[l]["pid"] = task[l]["pid"]
      /\ task'[l]["tool"] = task[l]["tool"] /\ rec' = rec
  <2>1. CASE AcquireOwner(l)
    BY <2>1, KindsOf, GotoReads, FinishReads DEF AcquireOwner
  <2>2. CASE AcquireCreate(l)
    BY <2>2, KindsOf, GotoReads, FinishReads DEF AcquireCreate
  <2>3. CASE AcquireAttach(l)
    BY <2>3, KindsOf, GotoReads, FinishReads DEF AcquireAttach
  <2>4. CASE AcquireCommit(l)
    BY <2>4, KindsOf, GotoReads, FinishReads DEF AcquireCommit
  <2>5. CASE AcquirePublish(l)
    BY <2>5, KindsOf, GotoReads, FinishReads DEF AcquirePublish
  <2>6. CASE AcquireUndo(l)
    BY <2>6, KindsOf, GotoReads, FinishReads DEF AcquireUndo
  <2>7. CASE AcquireUnlink(l)
    BY <2>7, KindsOf, GotoReads, FinishReads DEF AcquireUnlink
  <2>8. CASE ReleaseNative(l)
    BY <2>8, KindsOf, GotoReads, FinishReads DEF ReleaseNative
  <2>9. CASE ReleaseSettle(l)
    BY <2>9, KindsOf, GotoReads, FinishReads DEF ReleaseSettle
  <2>10. CASE ReleaseRecord(l)
    BY <2>10, KindsOf, GotoReads, FinishReads DEF ReleaseRecord
  <2>11. CASE ReleaseUnlink(l)
    BY <2>11, KindsOf, GotoReads, FinishReads DEF ReleaseUnlink
  <2>12. CASE ReleaseForget(l)
    BY <2>12, KindsOf, GotoReads, FinishReads DEF ReleaseForget
  <2> QED
    BY <2>1, <2>2, <2>3, <2>4, <2>5, <2>6, <2>7, <2>8, <2>9, <2>10, <2>11, <2>12 DEF Owner
<1>r. /\ ReleaseSession(l, Ses(l, "owner"), TRUE) => Closed(l, Ses(l, "owner"), TRUE)
      /\ ~Idle(l, "owner") /\ ReleaseSession(l, Ses(l, "owner"), ~Copy(l, "owner").retained)
           => IF Copy(l, "owner").retained
              THEN Closed(l, Ses(l, "owner"), FALSE) ELSE Closed(l, Ses(l, "owner"), TRUE)
  BY <1>c, ReleaseKinds, Zenon
<1>w. ~Idle(l, "owner") =>
        LET ready == [Copy(l, "owner") EXCEPT !.state = "ready", !.ident = TRUE]
        IN  /\ WriteLease(l, ready) => Wrote(l, ready)
            /\ Goto(l, "owner", "a_publish", ready, Ses(l, "owner"))
                   => Goes(l, "owner", "a_publish", ready, Ses(l, "owner"))
            /\ ready.ident /\ ready.retained = Copy(l, "owner").retained
            /\ ready.sameBoot = Copy(l, "owner").sameBoot
  BY <1>c, KindsOf, ReadyReads, WriteReads, GotoReads, ZenonT(40)
<1> USE DEF disk, mem, procs, hist, Building, InUse, Claimed, Alive, MountInv, Unidentified,
        Making, Identified, CopyIdentifies, InWorkspace, GivenUp, Idle, At, Copy, Ses,
        HasJournal, CanAttach, CanCleanup, ToolAttach, Goes, Ends, Wrote, Opened, Closed,
        OrderlyInv, Abandoned, Current, Released, Attached, KeptInv, ChildInv, Quiet, Doomed,
        Releasing
<1>1. CASE AcquireOwner(l)
  <2>e. /\ (Goto(l, "owner", "a_create", Copy(l, "owner"), 0)
              => Goes(l, "owner", "a_create", Copy(l, "owner"), 0))
        /\ (Finish(l, "owner") => Ends(l, "owner"))
        /\ (RemoveLease(l) => journal'[l] = None)
    BY <1>1, <1>c, KindsOf, StatesOf, FinishReads, GotoReads, RemoveReads DEF AcquireOwner
  <2>1. Unidentified(l)'
    BY <1>1, <1>o, <2>e, Shapes, InUseReads DEF AcquireOwner
  <2>2. InWorkspace(l)'
    BY <1>1, <1>o, <2>e, Shapes, InUseReads DEF AcquireOwner
  <2>3. GivenUp(l)'
    BY <1>1, <1>o, <2>e, Shapes, InUseReads DEF AcquireOwner
  <2>4. Orderly /\ OrderlyInv(l) => Abandoned(l)'
    BY <1>1, <1>o, <2>e, Shapes, InUseReads DEF AcquireOwner
  <2>5. Orderly /\ OrderlyInv(l) => Current(l)'
    BY <1>1, <1>o, <2>e, Shapes, InUseReads DEF AcquireOwner
  <2>6. Orderly /\ OrderlyInv(l) => Released(l)'
    BY <1>1, <1>o, <2>e, Shapes, InUseReads DEF AcquireOwner
  <2>7. Orderly /\ OrderlyInv(l) => Attached(l)'
    BY <1>1, <1>o, <2>e, Shapes, InUseReads DEF AcquireOwner
  <2>8. Orderly /\ OrderlyInv(l) => KeptInv(l)'
    BY <1>1, <1>o, <2>e, Shapes, InUseReads DEF AcquireOwner
  <2>9. Orderly /\ OrderlyInv(l) => ChildInv(l)'
    BY <1>1, <1>o, <2>e, Shapes, InUseReads DEF AcquireOwner
  <2> QED
    BY <2>1, <2>2, <2>3, <2>4, <2>5, <2>6, <2>7, <2>8, <2>9
<1>2. CASE AcquireCreate(l)
  <2>e. /\ (Goto(l, "owner", "a_attach", Copy(l, "owner"), 0)
              => Goes(l, "owner", "a_attach", Copy(l, "owner"), 0))
        /\ (Goto(l, "owner", "a_undo", Copy(l, "owner"), 0)
              => Goes(l, "owner", "a_undo", Copy(l, "owner"), 0))
        /\ (WriteState(l, Copy(l, "owner"), "creating") => Wrote(l, Copy(l, "owner")))
    BY <1>2, <1>c, KindsOf, StatesOf, GotoReads, StateReads DEF AcquireCreate
  <2>1. Unidentified(l)'
    BY <1>2, <1>o, <2>e, Shapes, InUseReads DEF AcquireCreate
  <2>2. InWorkspace(l)'
    BY <1>2, <1>o, <2>e, Shapes, InUseReads DEF AcquireCreate
  <2>3. GivenUp(l)'
    BY <1>2, <1>o, <2>e, Shapes, InUseReads DEF AcquireCreate
  <2>4. Orderly /\ OrderlyInv(l) => Abandoned(l)'
    BY <1>2, <1>o, <2>e, Shapes, InUseReads, SMTT(40) DEF AcquireCreate
  <2>5. Orderly /\ OrderlyInv(l) => Current(l)'
    BY <1>2, <1>o, <2>e, Shapes, InUseReads, SMTT(40) DEF AcquireCreate
  <2>6. Orderly /\ OrderlyInv(l) => Released(l)'
    BY <1>2, <1>o, <2>e, Shapes, InUseReads, SMTT(40) DEF AcquireCreate
  <2>7. Orderly /\ OrderlyInv(l) => Attached(l)'
    BY <1>2, <1>o, <2>e, Shapes, InUseReads, SMTT(40) DEF AcquireCreate
  <2>8. Orderly /\ OrderlyInv(l) => KeptInv(l)'
    BY <1>2, <1>o, <2>e, Shapes, InUseReads DEF AcquireCreate
  <2>9. Orderly /\ OrderlyInv(l) => ChildInv(l)'
    BY <1>2, <1>o, <2>e, Shapes, InUseReads DEF AcquireCreate
  <2> QED
    BY <2>1, <2>2, <2>3, <2>4, <2>5, <2>6, <2>7, <2>8, <2>9
<1>3. CASE AcquireAttach(l)
  <2>e. /\ (Goto(l, "owner", "a_commit", Copy(l, "owner"), gen[l] + 1)
              => Goes(l, "owner", "a_commit", Copy(l, "owner"), gen[l] + 1))
        /\ (Goto(l, "owner", "a_undo", Copy(l, "owner"), 0)
              => Goes(l, "owner", "a_undo", Copy(l, "owner"), 0))
        /\ (WriteState(l, Copy(l, "owner"), "attaching") => Wrote(l, Copy(l, "owner")))
        /\ (Attach(l) => Opened(l))
    BY <1>3, <1>c, KindsOf, StatesOf, AttachReads, GotoReads, StateReads DEF AcquireAttach
  <2>1. Unidentified(l)'
    BY <1>3, <1>o, <2>e, Shapes, InUseReads DEF AcquireAttach
  <2>2. InWorkspace(l)'
    BY <1>3, <1>o, <2>e, Shapes, InUseReads DEF AcquireAttach
  <2>3. GivenUp(l)'
    BY <1>3, <1>o, <2>e, Shapes, InUseReads DEF AcquireAttach
  <2>4. Orderly /\ OrderlyInv(l) => Abandoned(l)'
    BY <1>3, <1>o, <2>e, Shapes, InUseReads DEF AcquireAttach
  <2>5. Orderly /\ OrderlyInv(l) => Current(l)'
    BY <1>3, <1>o, <2>e, Shapes, InUseReads DEF AcquireAttach
  <2>6. Orderly /\ OrderlyInv(l) => Released(l)'
    BY <1>3, <1>o, <2>e, Shapes, InUseReads DEF AcquireAttach
  <2>7. Orderly /\ OrderlyInv(l) => Attached(l)'
    BY <1>3, <1>o, <2>e, Shapes, InUseReads DEF AcquireAttach
  <2>8. Orderly /\ OrderlyInv(l) => KeptInv(l)'
    BY <1>3, <1>o, <2>e, Shapes, InUseReads DEF AcquireAttach
  <2>9. Orderly /\ OrderlyInv(l) => ChildInv(l)'
    BY <1>3, <1>o, <2>e, Shapes, InUseReads DEF AcquireAttach
  <2> QED
    BY <2>1, <2>2, <2>3, <2>4, <2>5, <2>6, <2>7, <2>8, <2>9
<1>4. CASE AcquireCommit(l)
  <2>e. /\ (Finish(l, "owner") => Ends(l, "owner"))
        /\ (Cleanup(l) => space'[l] = "none")
    BY <1>4, <1>c, KindsOf, StatesOf, CleanupReads, FinishReads, GotoReads DEF AcquireCommit
  <2>b. /\ At(l, "owner", "a_commit")
        /\ \/ /\ journal'[l] # None /\ journal'[l].ident /\ journal'[l].fresh
              /\ journal'[l].retained = Copy(l, "owner").retained
              /\ journal'[l].sameBoot = Copy(l, "owner").sameBoot
              /\ At(l, "owner", "a_publish")' /\ Ses(l, "owner")' = Ses(l, "owner")
              /\ Copy(l, "owner")'.ident /\ Copy(l, "owner")'.retained = Copy(l, "owner").retained
              /\ Copy(l, "owner")'.sameBoot = Copy(l, "owner").sameBoot
              /\ UNCHANGED <<att, library, child, space>>
           \/ /\ Ends(l, "owner") /\ Closed(l, Ses(l, "owner"), TRUE) /\ UNCHANGED journal
              /\ IF space[l] = "owned" THEN space'[l] = "none" ELSE space'[l] = space[l]
        /\ UNCHANGED <<record, gen, children, up, client, kept>>
    BY <1>4, <1>r, <1>w, <2>e DEF AcquireCommit
  <2>1. Unidentified(l)'
    BY <1>o, <2>b, Shapes, InUseReads
  <2>2. InWorkspace(l)'
    BY <1>o, <2>b, Shapes, InUseReads
  <2>3. GivenUp(l)'
    BY <1>o, <2>b, Shapes, InUseReads
  <2>4. Orderly /\ OrderlyInv(l) => Abandoned(l)'
    BY <1>o, <2>b, Shapes, InUseReads
  <2>5. Orderly /\ OrderlyInv(l) => Current(l)'
    BY <1>o, <2>b, Shapes, InUseReads
  <2>6. Orderly /\ OrderlyInv(l) => Released(l)'
    BY <1>o, <2>b, Shapes, InUseReads, SMTT(40)
  <2>7. Orderly /\ OrderlyInv(l) => Attached(l)'
    BY <1>o, <2>b, Shapes, InUseReads, SMTT(40)
  <2>8. Orderly /\ OrderlyInv(l) => KeptInv(l)'
    BY <1>o, <2>b, Shapes, InUseReads, SMTT(40)
  <2>9. Orderly /\ OrderlyInv(l) => ChildInv(l)'
    BY <1>o, <2>b, Shapes, InUseReads
  <2> QED
    BY <2>1, <2>2, <2>3, <2>4, <2>5, <2>6, <2>7, <2>8, <2>9
<1>5. CASE AcquirePublish(l)
  <2>e. /\ (Finish(l, "owner") => Ends(l, "owner"))
    BY <1>5, <1>c, KindsOf, StatesOf, FinishReads DEF AcquirePublish
  <2>1. Unidentified(l)'
    BY <1>5, <1>o, <2>e, Shapes, InUseReads DEF AcquirePublish
  <2>2. InWorkspace(l)'
    BY <1>5, <1>o, <2>e, Shapes, InUseReads DEF AcquirePublish
  <2>3. GivenUp(l)'
    BY <1>5, <1>o, <2>e, Shapes, InUseReads DEF AcquirePublish
  <2>4. Orderly /\ OrderlyInv(l) => Abandoned(l)'
    BY <1>5, <1>o, <2>e, Shapes, InUseReads DEF AcquirePublish
  <2>5. Orderly /\ OrderlyInv(l) => Current(l)'
    BY <1>5, <1>o, <2>e, Shapes, InUseReads DEF AcquirePublish
  <2>6. Orderly /\ OrderlyInv(l) => Released(l)'
    BY <1>5, <1>o, <2>e, Shapes, InUseReads DEF AcquirePublish
  <2>7. Orderly /\ OrderlyInv(l) => Attached(l)'
    BY <1>5, <1>o, <2>e, Shapes, InUseReads DEF AcquirePublish
  <2>8. Orderly /\ OrderlyInv(l) => KeptInv(l)'
    BY <1>5, <1>o, <2>e, Shapes, InUseReads DEF AcquirePublish
  <2>9. Orderly /\ OrderlyInv(l) => ChildInv(l)'
    BY <1>5, <1>o, <2>e, Shapes, InUseReads DEF AcquirePublish
  <2> QED
    BY <2>1, <2>2, <2>3, <2>4, <2>5, <2>6, <2>7, <2>8, <2>9
<1>6. CASE AcquireUndo(l)
  <2>e. /\ (Goto(l, "owner", "a_unlink", Copy(l, "owner"), 0)
              => Goes(l, "owner", "a_unlink", Copy(l, "owner"), 0))
        /\ (Finish(l, "owner") => Ends(l, "owner"))
        /\ (WriteState(l, Copy(l, "owner"), "quarantined") => Wrote(l, Copy(l, "owner")))
    BY <1>6, <1>c, KindsOf, StatesOf, FinishReads, GotoReads, StateReads DEF AcquireUndo
  <2>1. Unidentified(l)'
    BY <1>6, <1>o, <2>e, Shapes, InUseReads DEF AcquireUndo
  <2>2. InWorkspace(l)'
    BY <1>6, <1>o, <2>e, Shapes, InUseReads DEF AcquireUndo
  <2>3. GivenUp(l)'
    BY <1>6, <1>o, <2>e, Shapes, InUseReads DEF AcquireUndo
  <2>4. Orderly /\ OrderlyInv(l) => Abandoned(l)'
    BY <1>6, <1>o, <2>e, Shapes, InUseReads DEF AcquireUndo
  <2>5. Orderly /\ OrderlyInv(l) => Current(l)'
    BY <1>6, <1>o, <2>e, Shapes, InUseReads DEF AcquireUndo
  <2>6. Orderly /\ OrderlyInv(l) => Released(l)'
    BY <1>6, <1>o, <2>e, Shapes, InUseReads DEF AcquireUndo
  <2>7. Orderly /\ OrderlyInv(l) => Attached(l)'
    BY <1>6, <1>o, <2>e, Shapes, InUseReads DEF AcquireUndo
  <2>8. Orderly /\ OrderlyInv(l) => KeptInv(l)'
    BY <1>6, <1>o, <2>e, Shapes, InUseReads DEF AcquireUndo
  <2>9. Orderly /\ OrderlyInv(l) => ChildInv(l)'
    BY <1>6, <1>o, <2>e, Shapes, InUseReads DEF AcquireUndo
  <2> QED
    BY <2>1, <2>2, <2>3, <2>4, <2>5, <2>6, <2>7, <2>8, <2>9
<1>7. CASE AcquireUnlink(l)
  <2>e. /\ (Finish(l, "owner") => Ends(l, "owner"))
        /\ (RemoveLease(l) => journal'[l] = None)
    BY <1>7, <1>c, KindsOf, StatesOf, FinishReads, RemoveReads DEF AcquireUnlink
  <2>1. Unidentified(l)'
    BY <1>7, <1>o, <2>e, Shapes, InUseReads DEF AcquireUnlink
  <2>2. InWorkspace(l)'
    BY <1>7, <1>o, <2>e, Shapes, InUseReads DEF AcquireUnlink
  <2>3. GivenUp(l)'
    BY <1>7, <1>o, <2>e, Shapes, InUseReads DEF AcquireUnlink
  <2>4. Orderly /\ OrderlyInv(l) => Abandoned(l)'
    BY <1>7, <1>o, <2>e, Shapes, InUseReads DEF AcquireUnlink
  <2>5. Orderly /\ OrderlyInv(l) => Current(l)'
    BY <1>7, <1>o, <2>e, Shapes, InUseReads DEF AcquireUnlink
  <2>6. Orderly /\ OrderlyInv(l) => Released(l)'
    BY <1>7, <1>o, <2>e, Shapes, InUseReads DEF AcquireUnlink
  <2>7. Orderly /\ OrderlyInv(l) => Attached(l)'
    BY <1>7, <1>o, <2>e, Shapes, InUseReads DEF AcquireUnlink
  <2>8. Orderly /\ OrderlyInv(l) => KeptInv(l)'
    BY <1>7, <1>o, <2>e, Shapes, InUseReads DEF AcquireUnlink
  <2>9. Orderly /\ OrderlyInv(l) => ChildInv(l)'
    BY <1>7, <1>o, <2>e, Shapes, InUseReads DEF AcquireUnlink
  <2> QED
    BY <2>1, <2>2, <2>3, <2>4, <2>5, <2>6, <2>7, <2>8, <2>9
<1>8. CASE ReleaseNative(l)
  <2>e. /\ (Goto(l, "owner", "x_settle", Copy(l, "owner"), Ses(l, "owner"))
              => Goes(l, "owner", "x_settle", Copy(l, "owner"), Ses(l, "owner")))
        /\ (Finish(l, "owner") => Ends(l, "owner"))
        /\ (WriteState(l, Copy(l, "owner"), "quarantined") => Wrote(l, Copy(l, "owner")))
    BY <1>8, <1>c, KindsOf, StatesOf, FinishReads, GotoReads, StateReads DEF ReleaseNative
  <2>1. Unidentified(l)'
    BY <1>8, <1>o, <1>r, <2>e, Shapes, InUseReads DEF ReleaseNative
  <2>2. InWorkspace(l)'
    BY <1>8, <1>o, <1>r, <2>e, Shapes, InUseReads DEF ReleaseNative
  <2>3. GivenUp(l)'
    BY <1>8, <1>o, <1>r, <2>e, Shapes, InUseReads, SMTT(40) DEF ReleaseNative
  <2>4. Orderly /\ OrderlyInv(l) => Abandoned(l)'
    BY <1>8, <1>o, <1>r, <2>e, Shapes, InUseReads DEF ReleaseNative
  <2>5. Orderly /\ OrderlyInv(l) => Current(l)'
    BY <1>8, <1>o, <1>r, <2>e, Shapes, InUseReads, SMTT(40) DEF ReleaseNative
  <2>6. Orderly /\ OrderlyInv(l) => Released(l)'
    <3>1. Orderly /\ OrderlyInv(l) /\ Copy(l, "owner").retained
            /\ Goto(l, "owner", "x_settle", Copy(l, "owner"), Ses(l, "owner"))
            => child'[l]
      BY <1>8, <1>o, <1>r, <2>e, Shapes, InUseReads DEF ReleaseNative
    <3>2. Orderly /\ OrderlyInv(l) /\ ~Copy(l, "owner").retained
            /\ Goto(l, "owner", "x_settle", Copy(l, "owner"), Ses(l, "owner"))
            => ~child'[l]
      BY <1>8, <1>o, <1>r, <2>e, Shapes, InUseReads, ZenonT(60) DEF ReleaseNative
    <3> QED
      BY <3>1, <3>2, <1>8, <1>o, <1>r, <2>e, Shapes, InUseReads, SMTT(40) DEF ReleaseNative
  <2>7. Orderly /\ OrderlyInv(l) => Attached(l)'
    <3>1. Orderly /\ OrderlyInv(l) /\ ~Copy(l, "owner").retained
            /\ Goto(l, "owner", "x_settle", Copy(l, "owner"), Ses(l, "owner"))
            => Attached(l)'
      BY <1>8, <1>o, <1>r, <2>e, Shapes, InUseReads DEF ReleaseNative
    <3>2. Orderly /\ OrderlyInv(l) /\ Copy(l, "owner").retained
            /\ Goto(l, "owner", "x_settle", Copy(l, "owner"), Ses(l, "owner"))
            => Attached(l)'
      BY <1>8, <1>o, <1>r, <2>e, Shapes, InUseReads DEF ReleaseNative
    <3>3. Orderly /\ OrderlyInv(l) /\ ~Goto(l, "owner", "x_settle", Copy(l, "owner"), Ses(l, "owner"))
            => Attached(l)'
      BY <1>8, <1>o, <1>r, <2>e, Shapes, InUseReads DEF ReleaseNative
    <3> QED
      BY <3>1, <3>2, <3>3, <1>8, <1>o, <1>r, <2>e, Shapes, InUseReads DEF ReleaseNative
  <2>8. Orderly /\ OrderlyInv(l) => KeptInv(l)'
    BY <1>8, <1>o, <1>r, <2>e, Shapes, InUseReads DEF ReleaseNative
  <2>9. Orderly /\ OrderlyInv(l) => ChildInv(l)'
    BY <1>8, <1>o, <1>r, <2>e, Shapes, InUseReads DEF ReleaseNative
  <2> QED
    BY <2>1, <2>2, <2>3, <2>4, <2>5, <2>6, <2>7, <2>8, <2>9
<1>9. CASE ReleaseSettle(l)
  <2>e. /\ (Goto(l, "owner", "x_record", Copy(l, "owner"), 0)
              => Goes(l, "owner", "x_record", Copy(l, "owner"), 0))
        /\ (Goto(l, "owner", "x_unlink", Copy(l, "owner"), 0)
              => Goes(l, "owner", "x_unlink", Copy(l, "owner"), 0))
        /\ (Finish(l, "owner") => Ends(l, "owner"))
        /\ (WriteState(l, Copy(l, "owner"), "released") => Wrote(l, Copy(l, "owner")))
        /\ (WriteState(l, Copy(l, "owner"), "quarantined") => Wrote(l, Copy(l, "owner")))
        /\ (Cleanup(l) => space'[l] = "none")
    BY <1>9, <1>c, KindsOf, StatesOf, CleanupReads, FinishReads, GotoReads, StateReads DEF
       ReleaseSettle
  <2>1. Unidentified(l)'
    BY <1>9, <1>o, <2>e, Shapes, InUseReads DEF ReleaseSettle
  <2>2. InWorkspace(l)'
    BY <1>9, <1>o, <2>e, Shapes, InUseReads DEF ReleaseSettle
  <2>3. GivenUp(l)'
    BY <1>9, <1>o, <2>e, Shapes, InUseReads DEF ReleaseSettle
  <2>4. Orderly /\ OrderlyInv(l) => Abandoned(l)'
    BY <1>9, <1>o, <2>e, Shapes, InUseReads DEF ReleaseSettle
  <2>5. Orderly /\ OrderlyInv(l) => Current(l)'
    BY <1>9, <1>o, <2>e, Shapes, InUseReads DEF ReleaseSettle
  <2>6. Orderly /\ OrderlyInv(l) => Released(l)'
    BY <1>9, <1>o, <2>e, Shapes, InUseReads DEF ReleaseSettle
  <2>7. Orderly /\ OrderlyInv(l) => Attached(l)'
    BY <1>9, <1>o, <2>e, Shapes, InUseReads DEF ReleaseSettle
  <2>8. Orderly /\ OrderlyInv(l) => KeptInv(l)'
    BY <1>9, <1>o, <2>e, Shapes, InUseReads DEF ReleaseSettle
  <2>9. Orderly /\ OrderlyInv(l) => ChildInv(l)'
    BY <1>9, <1>o, <2>e, Shapes, InUseReads DEF ReleaseSettle
  <2> QED
    BY <2>1, <2>2, <2>3, <2>4, <2>5, <2>6, <2>7, <2>8, <2>9
<1>10. CASE ReleaseRecord(l)
  <2>e. /\ (Goto(l, "owner", "x_forget", Copy(l, "owner"), 0)
              => Goes(l, "owner", "x_forget", Copy(l, "owner"), 0))
        /\ (Finish(l, "owner") => Ends(l, "owner"))
    BY <1>10, <1>c, KindsOf, StatesOf, FinishReads, GotoReads DEF ReleaseRecord
  <2>1. Unidentified(l)'
    BY <1>10, <1>o, <2>e, Shapes, InUseReads DEF ReleaseRecord
  <2>2. InWorkspace(l)'
    BY <1>10, <1>o, <2>e, Shapes, InUseReads DEF ReleaseRecord
  <2>3. GivenUp(l)'
    BY <1>10, <1>o, <2>e, Shapes, InUseReads, SMTT(40) DEF ReleaseRecord
  <2>4. Orderly /\ OrderlyInv(l) => Abandoned(l)'
    BY <1>10, <1>o, <2>e, Shapes, InUseReads DEF ReleaseRecord
  <2>5. Orderly /\ OrderlyInv(l) => Current(l)'
    BY <1>10, <1>o, <2>e, Shapes, InUseReads DEF ReleaseRecord
  <2>6. Orderly /\ OrderlyInv(l) => Released(l)'
    BY <1>10, <1>o, <2>e, Shapes, InUseReads DEF ReleaseRecord
  <2>7. Orderly /\ OrderlyInv(l) => Attached(l)'
    BY <1>10, <1>o, <2>e, Shapes, InUseReads DEF ReleaseRecord
  <2>8. Orderly /\ OrderlyInv(l) => KeptInv(l)'
    BY <1>10, <1>o, <2>e, Shapes, InUseReads DEF ReleaseRecord
  <2>9. Orderly /\ OrderlyInv(l) => ChildInv(l)'
    BY <1>10, <1>o, <2>e, Shapes, InUseReads DEF ReleaseRecord
  <2> QED
    BY <2>1, <2>2, <2>3, <2>4, <2>5, <2>6, <2>7, <2>8, <2>9
<1>11. CASE ReleaseUnlink(l)
  <2>e. /\ (Goto(l, "owner", "x_forget", Copy(l, "owner"), 0)
              => Goes(l, "owner", "x_forget", Copy(l, "owner"), 0))
        /\ (Finish(l, "owner") => Ends(l, "owner"))
        /\ (RemoveLease(l) => journal'[l] = None)
    BY <1>11, <1>c, KindsOf, StatesOf, FinishReads, GotoReads, RemoveReads DEF ReleaseUnlink
  <2>1. Unidentified(l)'
    BY <1>11, <1>o, <2>e, Shapes, InUseReads DEF ReleaseUnlink
  <2>2. InWorkspace(l)'
    BY <1>11, <1>o, <2>e, Shapes, InUseReads DEF ReleaseUnlink
  <2>3. GivenUp(l)'
    BY <1>11, <1>o, <2>e, Shapes, InUseReads DEF ReleaseUnlink
  <2>4. Orderly /\ OrderlyInv(l) => Abandoned(l)'
    BY <1>11, <1>o, <2>e, Shapes, InUseReads DEF ReleaseUnlink
  <2>5. Orderly /\ OrderlyInv(l) => Current(l)'
    BY <1>11, <1>o, <2>e, Shapes, InUseReads DEF ReleaseUnlink
  <2>6. Orderly /\ OrderlyInv(l) => Released(l)'
    BY <1>11, <1>o, <2>e, Shapes, InUseReads DEF ReleaseUnlink
  <2>7. Orderly /\ OrderlyInv(l) => Attached(l)'
    BY <1>11, <1>o, <2>e, Shapes, InUseReads DEF ReleaseUnlink
  <2>8. Orderly /\ OrderlyInv(l) => KeptInv(l)'
    BY <1>11, <1>o, <2>e, Shapes, InUseReads DEF ReleaseUnlink
  <2>9. Orderly /\ OrderlyInv(l) => ChildInv(l)'
    BY <1>11, <1>o, <2>e, Shapes, InUseReads DEF ReleaseUnlink
  <2> QED
    BY <2>1, <2>2, <2>3, <2>4, <2>5, <2>6, <2>7, <2>8, <2>9
<1>12. CASE ReleaseForget(l)
  <2>e. /\ (Finish(l, "owner") => Ends(l, "owner"))
    BY <1>12, <1>c, KindsOf, StatesOf, FinishReads DEF ReleaseForget
  <2>b. /\ At(l, "owner", "x_forget") /\ Ends(l, "owner") /\ children'[l] = 0
        /\ kept'[l] = IF kept[l] = "no" /\ Copy(l, "owner").retained THEN "yes" ELSE kept[l]
        /\ UNCHANGED <<disk, att, client>>
    BY <1>12, <2>e, Shapes DEF ReleaseForget
  <2>1. Unidentified(l)'
    BY <1>o, <2>b, Shapes, InUseReads
  <2>2. InWorkspace(l)'
    BY <1>o, <2>b, Shapes, InUseReads
  <2>3. GivenUp(l)'
    BY <1>o, <2>b, Shapes, InUseReads
  <2>4. Orderly /\ OrderlyInv(l) => Abandoned(l)'
    BY <1>o, <2>b, Shapes, InUseReads
  <2>5. Orderly /\ OrderlyInv(l) => Current(l)'
    BY <1>o, <2>b, Shapes, InUseReads
  <2>6. Orderly /\ OrderlyInv(l) => Released(l)'
    BY <1>o, <2>b, Shapes, InUseReads
  <2>7. Orderly /\ OrderlyInv(l) => Attached(l)'
    BY <1>o, <2>b, Shapes, InUseReads
  <2>8. Orderly /\ OrderlyInv(l) => KeptInv(l)'
    BY <1>o, <2>b, Shapes, InUseReads
  <2>9. Orderly /\ OrderlyInv(l) => ChildInv(l)'
    BY <1>o, <2>b, Shapes, InUseReads
  <2> QED
    BY <2>1, <2>2, <2>3, <2>4, <2>5, <2>6, <2>7, <2>8, <2>9
<1> QED
  BY <1>1, <1>2, <1>3, <1>4, <1>5, <1>6, <1>7, <1>8, <1>9, <1>10, <1>11, <1>12, Zenon DEF Owner

\* A retained-workspace command keeps what is said of its lease.
LEMMA ToolMount ==
  ASSUME TypeOK, NEW l \in Leases, LeaseInv(l), MountInv(l), Tool(l)
  PROVE  MountInv(l)' /\ (Orderly /\ OrderlyInv(l) => OrderlyInv(l)')
<1>c. ~Idle(l, "tool") => Copy(l, "tool") \in Journals /\ Ses(l, "tool") \in Sessions
  BY KindsOf, TaskRead DEF At, Idle
<1>o. /\ task'[l]["owner"] = task[l]["owner"] /\ task'[l]["beat"] = task[l]["beat"]
      /\ task'[l]["pid"] = task[l]["pid"] /\ rec' = rec
  <2>1. CASE AttachNative(l)
    BY <2>1, KindsOf, GotoReads, FinishReads DEF AttachNative, ToolAttach
  <2>2. CASE AttachWrite(l)
    BY <2>2, KindsOf, GotoReads, FinishReads DEF AttachWrite, ToolAttach
  <2>3. CASE AttachPublish(l)
    BY <2>3, KindsOf, GotoReads, FinishReads DEF AttachPublish, ToolAttach
  <2>4. CASE RemoveAttach(l)
    BY <2>4, KindsOf, GotoReads, FinishReads DEF RemoveAttach, ToolAttach
  <2>5. CASE RemoveRelease(l)
    BY <2>5, KindsOf, GotoReads, FinishReads DEF RemoveRelease, ToolAttach
  <2>6. CASE RemoveClean(l)
    BY <2>6, KindsOf, GotoReads, FinishReads DEF RemoveClean, ToolAttach
  <2>7. CASE RemoveUnlink(l)
    BY <2>7, KindsOf, GotoReads, FinishReads DEF RemoveUnlink, ToolAttach
  <2>8. CASE RemoveRecord(l)
    BY <2>8, KindsOf, GotoReads, FinishReads DEF RemoveRecord, ToolAttach
  <2> QED
    BY <2>1, <2>2, <2>3, <2>4, <2>5, <2>6, <2>7, <2>8 DEF Tool
<1>r. /\ ReleaseSession(l, Ses(l, "tool"), TRUE) => Closed(l, Ses(l, "tool"), TRUE)
      /\ ReleaseSession(l, Ses(l, "tool"), FALSE) => Closed(l, Ses(l, "tool"), FALSE)
  BY ReleaseKinds, Zenon
<1>w. ~Idle(l, "tool") =>
        LET ready == [Copy(l, "tool") EXCEPT !.state = "ready"]
        IN  /\ WriteLease(l, ready) => Wrote(l, ready)
            /\ Goto(l, "tool", "t_publish", ready, Ses(l, "tool"))
                   => Goes(l, "tool", "t_publish", ready, Ses(l, "tool"))
            /\ ready.ident = Copy(l, "tool").ident /\ ready.retained = Copy(l, "tool").retained
            /\ ready.sameBoot = Copy(l, "tool").sameBoot
  BY <1>c, KindsOf, ReadyReads, WriteReads, GotoReads
<1> USE DEF disk, mem, procs, hist, Building, InUse, Claimed, Alive, MountInv, Unidentified,
        Making, Identified, CopyIdentifies, InWorkspace, GivenUp, Idle, At, Copy, Ses,
        HasJournal, CanAttach, CanCleanup, ToolAttach, Goes, Ends, Wrote, Opened, Closed,
        OrderlyInv, Abandoned, Current, Released, Attached, KeptInv, ChildInv, Quiet, Doomed,
        Releasing
<1>1. CASE AttachNative(l)
  <2>e. /\ (Goto(l, "tool", "t_write", Copy(l, "tool"), gen[l] + 1)
              => Goes(l, "tool", "t_write", Copy(l, "tool"), gen[l] + 1))
        /\ (Finish(l, "tool") => Ends(l, "tool"))
        /\ (Attach(l) => Opened(l))
    BY <1>1, <1>c, KindsOf, StatesOf, AttachReads, FinishReads, GotoReads DEF AttachNative
  <2>1. Unidentified(l)'
    BY <1>1, <1>o, <2>e, Shapes, InUseReads DEF AttachNative
  <2>2. InWorkspace(l)'
    BY <1>1, <1>o, <2>e, Shapes, InUseReads DEF AttachNative
  <2>3. GivenUp(l)'
    BY <1>1, <1>o, <2>e, Shapes, InUseReads DEF AttachNative
  <2>4. Orderly /\ OrderlyInv(l) => Abandoned(l)'
    BY <1>1, <1>o, <2>e, Shapes, InUseReads DEF AttachNative
  <2>5. Orderly /\ OrderlyInv(l) => Current(l)'
    BY <1>1, <1>o, <2>e, Shapes, InUseReads DEF AttachNative
  <2>6. Orderly /\ OrderlyInv(l) => Released(l)'
    BY <1>1, <1>o, <2>e, Shapes, InUseReads DEF AttachNative
  <2>7. Orderly /\ OrderlyInv(l) => Attached(l)'
    BY <1>1, <1>o, <2>e, Shapes, InUseReads DEF AttachNative
  <2>8. Orderly /\ OrderlyInv(l) => KeptInv(l)'
    BY <1>1, <1>o, <2>e, Shapes, InUseReads DEF AttachNative
  <2>9. Orderly /\ OrderlyInv(l) => ChildInv(l)'
    BY <1>1, <1>o, <2>e, Shapes, InUseReads DEF AttachNative
  <2> QED
    BY <2>1, <2>2, <2>3, <2>4, <2>5, <2>6, <2>7, <2>8, <2>9
<1>2. CASE AttachWrite(l)
  <2>e. /\ (Finish(l, "tool") => Ends(l, "tool"))
    BY <1>2, <1>c, KindsOf, StatesOf, FinishReads, GotoReads DEF AttachWrite
  <2>b. /\ At(l, "tool", "t_write")
        /\ \/ /\ journal'[l] # None /\ journal'[l].ident = Copy(l, "tool").ident
              /\ journal'[l].fresh /\ journal'[l].sameBoot = Copy(l, "tool").sameBoot
              /\ journal'[l].retained = Copy(l, "tool").retained
              /\ At(l, "tool", "t_publish")' /\ Ses(l, "tool")' = Ses(l, "tool")
              /\ Copy(l, "tool")'.ident = Copy(l, "tool").ident
              /\ Copy(l, "tool")'.retained = Copy(l, "tool").retained
              /\ UNCHANGED <<att, library, child>>
           \/ Ends(l, "tool") /\ Closed(l, Ses(l, "tool"), FALSE) /\ UNCHANGED journal
        /\ UNCHANGED <<space, record, gen, children, client, kept>>
    BY <1>2, <1>r, <1>w, <2>e DEF AttachWrite
  <2>1. Unidentified(l)'
    BY <1>o, <2>b, Shapes, InUseReads
  <2>2. InWorkspace(l)'
    BY <1>o, <2>b, Shapes, InUseReads
  <2>3. GivenUp(l)'
    BY <1>o, <2>b, Shapes, InUseReads
  <2>4. Orderly /\ OrderlyInv(l) => Abandoned(l)'
    BY <1>o, <2>b, Shapes, InUseReads
  <2>5. Orderly /\ OrderlyInv(l) => Current(l)'
    BY <1>o, <2>b, Shapes, InUseReads
  <2>6. Orderly /\ OrderlyInv(l) => Released(l)'
    BY <1>o, <2>b, Shapes, InUseReads
  <2>7. Orderly /\ OrderlyInv(l) => Attached(l)'
    BY <1>o, <2>b, Shapes, InUseReads
  <2>8. Orderly /\ OrderlyInv(l) => KeptInv(l)'
    BY <1>o, <2>b, Shapes, InUseReads
  <2>9. Orderly /\ OrderlyInv(l) => ChildInv(l)'
    BY <1>o, <2>b, Shapes, InUseReads
  <2> QED
    BY <2>1, <2>2, <2>3, <2>4, <2>5, <2>6, <2>7, <2>8, <2>9
<1>3. CASE AttachPublish(l)
  <2>e. /\ (Finish(l, "tool") => Ends(l, "tool"))
    BY <1>3, <1>c, KindsOf, StatesOf, FinishReads DEF AttachPublish
  <2>1. Unidentified(l)'
    BY <1>3, <1>o, <2>e, Shapes, InUseReads DEF AttachPublish
  <2>2. InWorkspace(l)'
    BY <1>3, <1>o, <2>e, Shapes, InUseReads DEF AttachPublish
  <2>3. GivenUp(l)'
    BY <1>3, <1>o, <2>e, Shapes, InUseReads DEF AttachPublish
  <2>4. Orderly /\ OrderlyInv(l) => Abandoned(l)'
    BY <1>3, <1>o, <2>e, Shapes, InUseReads DEF AttachPublish
  <2>5. Orderly /\ OrderlyInv(l) => Current(l)'
    BY <1>3, <1>o, <2>e, Shapes, InUseReads DEF AttachPublish
  <2>6. Orderly /\ OrderlyInv(l) => Released(l)'
    BY <1>3, <1>o, <2>e, Shapes, InUseReads DEF AttachPublish
  <2>7. Orderly /\ OrderlyInv(l) => Attached(l)'
    BY <1>3, <1>o, <2>e, Shapes, InUseReads DEF AttachPublish
  <2>8. Orderly /\ OrderlyInv(l) => KeptInv(l)'
    BY <1>3, <1>o, <2>e, Shapes, InUseReads DEF AttachPublish
  <2>9. Orderly /\ OrderlyInv(l) => ChildInv(l)'
    BY <1>3, <1>o, <2>e, Shapes, InUseReads DEF AttachPublish
  <2> QED
    BY <2>1, <2>2, <2>3, <2>4, <2>5, <2>6, <2>7, <2>8, <2>9
<1>4. CASE RemoveAttach(l)
  <2>e. /\ (Goto(l, "tool", "d_release", Copy(l, "tool"), gen[l] + 1)
              => Goes(l, "tool", "d_release", Copy(l, "tool"), gen[l] + 1))
        /\ (Finish(l, "tool") => Ends(l, "tool"))
        /\ (Attach(l) => Opened(l))
    BY <1>4, <1>c, KindsOf, StatesOf, AttachReads, FinishReads, GotoReads DEF RemoveAttach
  <2>1. Unidentified(l)'
    BY <1>4, <1>o, <2>e, Shapes, InUseReads DEF RemoveAttach
  <2>2. InWorkspace(l)'
    BY <1>4, <1>o, <2>e, Shapes, InUseReads DEF RemoveAttach
  <2>3. GivenUp(l)'
    BY <1>4, <1>o, <2>e, Shapes, InUseReads DEF RemoveAttach
  <2>4. Orderly /\ OrderlyInv(l) => Abandoned(l)'
    BY <1>4, <1>o, <2>e, Shapes, InUseReads DEF RemoveAttach
  <2>5. Orderly /\ OrderlyInv(l) => Current(l)'
    BY <1>4, <1>o, <2>e, Shapes, InUseReads DEF RemoveAttach
  <2>6. Orderly /\ OrderlyInv(l) => Released(l)'
    BY <1>4, <1>o, <2>e, Shapes, InUseReads DEF RemoveAttach
  <2>7. Orderly /\ OrderlyInv(l) => Attached(l)'
    BY <1>4, <1>o, <2>e, Shapes, InUseReads DEF RemoveAttach
  <2>8. Orderly /\ OrderlyInv(l) => KeptInv(l)'
    BY <1>4, <1>o, <2>e, Shapes, InUseReads DEF RemoveAttach
  <2>9. Orderly /\ OrderlyInv(l) => ChildInv(l)'
    BY <1>4, <1>o, <2>e, Shapes, InUseReads DEF RemoveAttach
  <2> QED
    BY <2>1, <2>2, <2>3, <2>4, <2>5, <2>6, <2>7, <2>8, <2>9
<1>5. CASE RemoveRelease(l)
  <2>e. /\ (Goto(l, "tool", "d_clean", Copy(l, "tool"), 0)
              => Goes(l, "tool", "d_clean", Copy(l, "tool"), 0))
        /\ (Finish(l, "tool") => Ends(l, "tool"))
    BY <1>5, <1>c, KindsOf, StatesOf, FinishReads, GotoReads DEF RemoveRelease
  <2>b. /\ At(l, "tool", "d_release")
        /\ \/ Goes(l, "tool", "d_clean", Copy(l, "tool"), 0) /\ Closed(l, Ses(l, "tool"), TRUE)
           \/ Ends(l, "tool") /\ UNCHANGED <<att, library, child>>
        /\ UNCHANGED <<journal, space, record, gen, children, client, kept>>
    BY <1>5, <1>r, <2>e DEF RemoveRelease
  <2>1. Unidentified(l)'
    BY <1>o, <2>b, Shapes, InUseReads
  <2>2. InWorkspace(l)'
    BY <1>o, <2>b, Shapes, InUseReads
  <2>3. GivenUp(l)'
    BY <1>o, <2>b, Shapes, InUseReads
  <2>4. Orderly /\ OrderlyInv(l) => Abandoned(l)'
    BY <1>o, <2>b, Shapes, InUseReads
  <2>5. Orderly /\ OrderlyInv(l) => Current(l)'
    BY <1>o, <2>b, Shapes, InUseReads
  <2>6. Orderly /\ OrderlyInv(l) => Released(l)'
    BY <1>o, <2>b, Shapes, InUseReads
  <2>7. Orderly /\ OrderlyInv(l) => Attached(l)'
    BY <1>o, <2>b, Shapes, InUseReads
  <2>8. Orderly /\ OrderlyInv(l) => KeptInv(l)'
    BY <1>o, <2>b, Shapes, InUseReads
  <2>9. Orderly /\ OrderlyInv(l) => ChildInv(l)'
    BY <1>o, <2>b, Shapes, InUseReads
  <2> QED
    BY <2>1, <2>2, <2>3, <2>4, <2>5, <2>6, <2>7, <2>8, <2>9
<1>6. CASE RemoveClean(l)
  <2>e. /\ (Goto(l, "tool", "d_unlink", Copy(l, "tool"), 0)
              => Goes(l, "tool", "d_unlink", Copy(l, "tool"), 0))
        /\ (Finish(l, "tool") => Ends(l, "tool"))
        /\ (WriteState(l, Copy(l, "tool"), "quarantined") => Wrote(l, Copy(l, "tool")))
        /\ (Cleanup(l) => space'[l] = "none")
    BY <1>6, <1>c, KindsOf, StatesOf, CleanupReads, FinishReads, GotoReads, StateReads DEF
       RemoveClean
  <2>1. Unidentified(l)'
    BY <1>6, <1>o, <2>e, Shapes, InUseReads DEF RemoveClean
  <2>2. InWorkspace(l)'
    BY <1>6, <1>o, <2>e, Shapes, InUseReads DEF RemoveClean
  <2>3. GivenUp(l)'
    BY <1>6, <1>o, <2>e, Shapes, InUseReads DEF RemoveClean
  <2>4. Orderly /\ OrderlyInv(l) => Abandoned(l)'
    BY <1>6, <1>o, <2>e, Shapes, InUseReads DEF RemoveClean
  <2>5. Orderly /\ OrderlyInv(l) => Current(l)'
    BY <1>6, <1>o, <2>e, Shapes, InUseReads DEF RemoveClean
  <2>6. Orderly /\ OrderlyInv(l) => Released(l)'
    BY <1>6, <1>o, <2>e, Shapes, InUseReads DEF RemoveClean
  <2>7. Orderly /\ OrderlyInv(l) => Attached(l)'
    BY <1>6, <1>o, <2>e, Shapes, InUseReads DEF RemoveClean
  <2>8. Orderly /\ OrderlyInv(l) => KeptInv(l)'
    BY <1>6, <1>o, <2>e, Shapes, InUseReads DEF RemoveClean
  <2>9. Orderly /\ OrderlyInv(l) => ChildInv(l)'
    BY <1>6, <1>o, <2>e, Shapes, InUseReads DEF RemoveClean
  <2> QED
    BY <2>1, <2>2, <2>3, <2>4, <2>5, <2>6, <2>7, <2>8, <2>9
<1>7. CASE RemoveUnlink(l)
  <2>e. /\ (Goto(l, "tool", "d_record", Copy(l, "tool"), 0)
              => Goes(l, "tool", "d_record", Copy(l, "tool"), 0))
        /\ (Finish(l, "tool") => Ends(l, "tool"))
        /\ (RemoveLease(l) => journal'[l] = None)
    BY <1>7, <1>c, KindsOf, StatesOf, FinishReads, GotoReads, RemoveReads DEF RemoveUnlink
  <2>1. Unidentified(l)'
    BY <1>7, <1>o, <2>e, Shapes, InUseReads DEF RemoveUnlink
  <2>2. InWorkspace(l)'
    BY <1>7, <1>o, <2>e, Shapes, InUseReads DEF RemoveUnlink
  <2>3. GivenUp(l)'
    BY <1>7, <1>o, <2>e, Shapes, InUseReads DEF RemoveUnlink
  <2>4. Orderly /\ OrderlyInv(l) => Abandoned(l)'
    BY <1>7, <1>o, <2>e, Shapes, InUseReads DEF RemoveUnlink
  <2>5. Orderly /\ OrderlyInv(l) => Current(l)'
    BY <1>7, <1>o, <2>e, Shapes, InUseReads DEF RemoveUnlink
  <2>6. Orderly /\ OrderlyInv(l) => Released(l)'
    BY <1>7, <1>o, <2>e, Shapes, InUseReads DEF RemoveUnlink
  <2>7. Orderly /\ OrderlyInv(l) => Attached(l)'
    BY <1>7, <1>o, <2>e, Shapes, InUseReads DEF RemoveUnlink
  <2>8. Orderly /\ OrderlyInv(l) => KeptInv(l)'
    BY <1>7, <1>o, <2>e, Shapes, InUseReads DEF RemoveUnlink
  <2>9. Orderly /\ OrderlyInv(l) => ChildInv(l)'
    BY <1>7, <1>o, <2>e, Shapes, InUseReads DEF RemoveUnlink
  <2> QED
    BY <2>1, <2>2, <2>3, <2>4, <2>5, <2>6, <2>7, <2>8, <2>9
<1>8. CASE RemoveRecord(l)
  <2>e. /\ (Finish(l, "tool") => Ends(l, "tool"))
    BY <1>8, <1>c, KindsOf, StatesOf, FinishReads DEF RemoveRecord
  <2>1. Unidentified(l)'
    BY <1>8, <1>o, <2>e, Shapes, InUseReads DEF RemoveRecord
  <2>2. InWorkspace(l)'
    BY <1>8, <1>o, <2>e, Shapes, InUseReads DEF RemoveRecord
  <2>3. GivenUp(l)'
    BY <1>8, <1>o, <2>e, Shapes, InUseReads DEF RemoveRecord
  <2>4. Orderly /\ OrderlyInv(l) => Abandoned(l)'
    BY <1>8, <1>o, <2>e, Shapes, InUseReads DEF RemoveRecord
  <2>5. Orderly /\ OrderlyInv(l) => Current(l)'
    BY <1>8, <1>o, <2>e, Shapes, InUseReads DEF RemoveRecord
  <2>6. Orderly /\ OrderlyInv(l) => Released(l)'
    BY <1>8, <1>o, <2>e, Shapes, InUseReads DEF RemoveRecord
  <2>7. Orderly /\ OrderlyInv(l) => Attached(l)'
    BY <1>8, <1>o, <2>e, Shapes, InUseReads DEF RemoveRecord
  <2>8. Orderly /\ OrderlyInv(l) => KeptInv(l)'
    BY <1>8, <1>o, <2>e, Shapes, InUseReads DEF RemoveRecord
  <2>9. Orderly /\ OrderlyInv(l) => ChildInv(l)'
    BY <1>8, <1>o, <2>e, Shapes, InUseReads DEF RemoveRecord
  <2> QED
    BY <2>1, <2>2, <2>3, <2>4, <2>5, <2>6, <2>7, <2>8, <2>9
<1> QED
  BY <1>1, <1>2, <1>3, <1>4, <1>5, <1>6, <1>7, <1>8, Zenon DEF Tool

\* What a step of a Recover pass leaves of the pass.
LEMMA PassReads ==
  ASSUME TypeOK, NEW l \in Leases
  PROVE  /\ NextEntry => rec'.pc = "pick" /\ rec'.cur = None /\ rec'.todo = rec.todo
         /\ RecoverAbort => rec'.pc = "idle" /\ rec'.cur = None /\ rec'.todo[l] = None
         /\ \A pc \in RecLabels : rec' = [rec EXCEPT !.pc = pc] =>
               Passes(pc, rec.ses)
         /\ \A pc \in RecLabels, ses \in Sessions : rec' = [rec EXCEPT !.pc = pc, !.ses = ses] =>
               Passes(pc, ses)
         /\ rec.todo \in [Leases -> MaybeJournals]
<1>1. /\ rec = [pc |-> rec.pc, cur |-> rec.cur, copy |-> rec.copy,
                  ses |-> rec.ses, todo |-> rec.todo]
      /\ rec.todo \in [Leases -> MaybeJournals]
  BY DEF TypeOK, Recs
<1>2. NextEntry => rec'.pc = "pick" /\ rec'.cur = None /\ rec'.todo = rec.todo
  BY <1>1 DEF NextEntry
<1>3. RecoverAbort => rec'.pc = "idle" /\ rec'.cur = None /\ rec'.todo[l] = None
  BY DEF RecoverAbort, IdleRec
<1>4. ASSUME NEW pc \in RecLabels, rec' = [rec EXCEPT !.pc = pc]
      PROVE  Passes(pc, rec.ses)
  BY <1>1, <1>4 DEF Passes
<1>5. ASSUME NEW pc \in RecLabels, NEW ses \in Sessions, rec' = [rec EXCEPT !.pc = pc, !.ses = ses]
      PROVE  Passes(pc, ses)
  <2>1. rec'.pc = pc /\ rec'.cur = rec.cur /\ rec'.copy = rec.copy
    BY <1>1, <1>5
  <2>2. rec'.ses = ses /\ rec'.todo = rec.todo
    BY <1>1, <1>5
  <2> QED
    BY <2>1, <2>2 DEF Passes
<1> QED
  BY <1>1, <1>2, <1>3, <1>4, <1>5

\* A step of a Recover pass keeps what is said of the lease of its entry.
LEMMA RecoverMount ==
  ASSUME TypeOK, NEW l \in Leases, LeaseInv(l), MountInv(l), RecoverEntry(l)
  PROVE  MountInv(l)' /\ (Orderly /\ OrderlyInv(l) => OrderlyInv(l)')
<1>c. rec.cur = l => rec.pc \in RecLabels /\ rec.copy \in Journals /\ rec.ses \in Sessions
  BY RecReads
<1>s. children[l] \in Sessions
  BY DEF TypeOK
<1>l. /\ "gone" \in RecLabels /\ "seize" \in RecLabels /\ "attach" \in RecLabels
      /\ "release" \in RecLabels /\ "clean" \in RecLabels /\ "unlink" \in RecLabels
  BY DEF RecLabels
<1>n. None # l
  BY ConstantsAssumption
<1>r. ReleaseSession(l, rec.ses, TRUE) => Closed(l, rec.ses, TRUE)
  BY ReleaseKinds, Zenon
<1>w. rec.cur = l =>
        /\ WriteState(l, rec.copy, "quarantined") => Wrote(l, rec.copy)
        /\ WriteState(l, rec.copy, "recovering") => Wrote(l, rec.copy)
  BY <1>c, StateReads, StatesOf
<1>p. /\ NextEntry => rec'.pc = "pick" /\ rec'.cur = None /\ rec'.todo = rec.todo
      /\ RecoverAbort => rec'.pc = "idle" /\ rec'.cur = None /\ rec'.todo[l] = None
  BY PassReads
<1>q. RecoverQuarantine(l) /\ rec.cur = l =>
        Wrote(l, rec.copy) /\ rec'.cur = None /\ rec'.todo = rec.todo
  BY <1>w, <1>p DEF RecoverQuarantine
<1> USE DEF disk, mem, procs, hist, Building, InUse, Claimed, Alive, MountInv, Unidentified,
        Making, Identified, CopyIdentifies, InWorkspace, GivenUp, Idle, At, Copy, Ses,
        HasJournal, CanAttach, CanCleanup, Wrote, Opened, Closed, OrderlyInv, Abandoned,
        Current, Released, Attached, KeptInv, ChildInv, Quiet, Doomed, Releasing, Preserved,
        Passes
<1>1. CASE RecoverPick(l)
  <2>0. /\ rec.pc = "pick" /\ rec.cur = None /\ rec.ses = 0
        /\ rec = [pc |-> rec.pc, cur |-> rec.cur, copy |-> rec.copy,
                  ses |-> rec.ses, todo |-> rec.todo]
        /\ rec.todo \in [Leases -> MaybeJournals]
    BY <1>1 DEF RecoverPick, TypeOK, Recs, RecLabels
  <2>e. /\ rec.cur = None /\ rec'.todo[l] = None
        /\ \/ rec'.cur = None
           \/ /\ ~Preserved(l, rec.todo[l]) /\ rec.todo[l] # None
              /\ rec'.cur = l /\ rec'.copy = rec.todo[l]
              /\ rec'.pc = IF child[l] THEN "seize" ELSE "gone"
    BY <1>1, <2>0 DEF RecoverPick
  <2>1. Unidentified(l)'
    BY <1>1, <1>c, <1>n, <1>p, <1>q, <1>r, <1>w, <2>e, Shapes, InUseReads DEF RecoverPick
  <2>2. InWorkspace(l)'
    BY <1>1, <1>c, <1>n, <1>p, <1>q, <1>r, <1>w, <2>e, Shapes, InUseReads DEF RecoverPick
  <2>3. GivenUp(l)'
    BY <1>1, <1>c, <1>n, <1>p, <1>q, <1>r, <1>w, <2>e, Shapes, InUseReads, SMTT(40) DEF RecoverPick
  <2>4. Orderly /\ OrderlyInv(l) => Abandoned(l)'
    BY <1>1, <1>c, <1>n, <1>p, <1>q, <1>r, <1>w, <2>e, Shapes, InUseReads, SMTT(40) DEF RecoverPick
  <2>5. Orderly /\ OrderlyInv(l) => Current(l)'
    BY <1>1, <1>c, <1>n, <1>p, <1>q, <1>r, <1>w, <2>e, Shapes, InUseReads, SMTT(40) DEF RecoverPick
  <2>6. Orderly /\ OrderlyInv(l) => Released(l)'
    BY <1>1, <1>c, <1>n, <1>p, <1>q, <1>r, <1>w, <2>e, Shapes, InUseReads, SMTT(40) DEF RecoverPick
  <2>7. Orderly /\ OrderlyInv(l) => Attached(l)'
    BY <1>1, <1>c, <1>n, <1>p, <1>q, <1>r, <1>w, <2>e, Shapes, InUseReads, SMTT(40) DEF RecoverPick
  <2>8. Orderly /\ OrderlyInv(l) => KeptInv(l)'
    BY <1>1, <1>c, <1>n, <1>p, <1>q, <1>r, <1>w, <2>e, Shapes, InUseReads, SMTT(40) DEF RecoverPick
  <2>9. Orderly /\ OrderlyInv(l) => ChildInv(l)'
    BY <1>1, <1>c, <1>n, <1>p, <1>q, <1>r, <1>w, <2>e, Shapes, InUseReads DEF RecoverPick
  <2> QED
    BY <2>1, <2>2, <2>3, <2>4, <2>5, <2>6, <2>7, <2>8, <2>9
<1>2. CASE RecoverGone(l)
  <2>e. /\ (rec' = [rec EXCEPT !.pc = "unlink"] =>
             Passes("unlink", rec.ses))
        /\ (Cleanup(l) => space'[l] = "none")
    BY <1>l, <1>s, PassReads, CleanupReads
  <2>1. Unidentified(l)'
    BY <1>2, <1>c, <1>n, <1>p, <1>q, <1>r, <1>w, <2>e, Shapes, InUseReads DEF RecoverGone
  <2>2. InWorkspace(l)'
    BY <1>2, <1>c, <1>n, <1>p, <1>q, <1>r, <1>w, <2>e, Shapes, InUseReads DEF RecoverGone
  <2>3. GivenUp(l)'
    BY <1>2, <1>c, <1>n, <1>p, <1>q, <1>r, <1>w, <2>e, Shapes, InUseReads DEF RecoverGone
  <2>4. Orderly /\ OrderlyInv(l) => Abandoned(l)'
    BY <1>2, <1>c, <1>n, <1>p, <1>q, <1>r, <1>w, <2>e, Shapes, InUseReads DEF RecoverGone
  <2>5. Orderly /\ OrderlyInv(l) => Current(l)'
    BY <1>2, <1>c, <1>n, <1>p, <1>q, <1>r, <1>w, <2>e, Shapes, InUseReads DEF RecoverGone
  <2>6. Orderly /\ OrderlyInv(l) => Released(l)'
    BY <1>2, <1>c, <1>n, <1>p, <1>q, <1>r, <1>w, <2>e, Shapes, InUseReads DEF RecoverGone
  <2>7. Orderly /\ OrderlyInv(l) => Attached(l)'
    BY <1>2, <1>c, <1>n, <1>p, <1>q, <1>r, <1>w, <2>e, Shapes, InUseReads DEF RecoverGone
  <2>8. Orderly /\ OrderlyInv(l) => KeptInv(l)'
    BY <1>2, <1>c, <1>n, <1>p, <1>q, <1>r, <1>w, <2>e, Shapes, InUseReads DEF RecoverGone
  <2>9. Orderly /\ OrderlyInv(l) => ChildInv(l)'
    BY <1>2, <1>c, <1>n, <1>p, <1>q, <1>r, <1>w, <2>e, Shapes, InUseReads DEF RecoverGone
  <2> QED
    BY <2>1, <2>2, <2>3, <2>4, <2>5, <2>6, <2>7, <2>8, <2>9
<1>3. CASE RecoverSeize(l)
  <2>e. /\ (rec' = [rec EXCEPT !.pc = "attach"] =>
             Passes("attach", rec.ses))
        /\ (rec' = [rec EXCEPT !.pc = "release", !.ses = children[l]] =>
             Passes("release", children[l]))
    BY <1>l, <1>s, PassReads
  <2>1. Unidentified(l)'
    BY <1>3, <1>c, <1>n, <1>p, <1>q, <1>r, <1>w, <2>e, Shapes, InUseReads DEF RecoverSeize
  <2>2. InWorkspace(l)'
    BY <1>3, <1>c, <1>n, <1>p, <1>q, <1>r, <1>w, <2>e, Shapes, InUseReads DEF RecoverSeize
  <2>3. GivenUp(l)'
    BY <1>3, <1>c, <1>n, <1>p, <1>q, <1>r, <1>w, <2>e, Shapes, InUseReads DEF RecoverSeize
  <2>4. Orderly /\ OrderlyInv(l) => Abandoned(l)'
    BY <1>3, <1>c, <1>n, <1>p, <1>q, <1>r, <1>w, <2>e, Shapes, InUseReads DEF RecoverSeize
  <2>5. Orderly /\ OrderlyInv(l) => Current(l)'
    BY <1>3, <1>c, <1>n, <1>p, <1>q, <1>r, <1>w, <2>e, Shapes, InUseReads DEF RecoverSeize
  <2>6. Orderly /\ OrderlyInv(l) => Released(l)'
    BY <1>3, <1>c, <1>n, <1>p, <1>q, <1>r, <1>w, <2>e, Shapes, InUseReads DEF RecoverSeize
  <2>7. Orderly /\ OrderlyInv(l) => Attached(l)'
    BY <1>3, <1>c, <1>n, <1>p, <1>q, <1>r, <1>w, <2>e, Shapes, InUseReads DEF RecoverSeize
  <2>8. Orderly /\ OrderlyInv(l) => KeptInv(l)'
    BY <1>3, <1>c, <1>n, <1>p, <1>q, <1>r, <1>w, <2>e, Shapes, InUseReads DEF RecoverSeize
  <2>9. Orderly /\ OrderlyInv(l) => ChildInv(l)'
    BY <1>3, <1>c, <1>n, <1>p, <1>q, <1>r, <1>w, <2>e, Shapes, InUseReads DEF RecoverSeize
  <2> QED
    BY <2>1, <2>2, <2>3, <2>4, <2>5, <2>6, <2>7, <2>8, <2>9
<1>4. CASE RecoverAttach(l)
  <2>a. Attach(l) => Opened(l) /\ gen[l] + 1 \in Sessions
    BY AttachReads
  <2>e. /\ (Attach(l) /\ rec' = [rec EXCEPT !.pc = "release", !.ses = gen[l] + 1] =>
             Passes("release", gen[l] + 1))
    BY <1>l, <1>s, <2>a, PassReads
  <2>1. Unidentified(l)'
    BY <1>4, <1>c, <1>n, <1>p, <1>q, <1>r, <1>w, <2>a, <2>e, Shapes, InUseReads DEF RecoverAttach
  <2>2. InWorkspace(l)'
    BY <1>4, <1>c, <1>n, <1>p, <1>q, <1>r, <1>w, <2>a, <2>e, Shapes, InUseReads DEF RecoverAttach
  <2>3. GivenUp(l)'
    BY <1>4, <1>c, <1>n, <1>p, <1>q, <1>r, <1>w, <2>a, <2>e, Shapes, InUseReads DEF RecoverAttach
  <2>4. Orderly /\ OrderlyInv(l) => Abandoned(l)'
    BY <1>4, <1>c, <1>n, <1>p, <1>q, <1>r, <1>w, <2>a, <2>e, Shapes, InUseReads DEF RecoverAttach
  <2>5. Orderly /\ OrderlyInv(l) => Current(l)'
    BY <1>4, <1>c, <1>n, <1>p, <1>q, <1>r, <1>w, <2>a, <2>e, Shapes, InUseReads DEF RecoverAttach
  <2>6. Orderly /\ OrderlyInv(l) => Released(l)'
    BY <1>4, <1>c, <1>n, <1>p, <1>q, <1>r, <1>w, <2>a, <2>e, Shapes, InUseReads DEF RecoverAttach
  <2>7. Orderly /\ OrderlyInv(l) => Attached(l)'
    BY <1>4, <1>c, <1>n, <1>p, <1>q, <1>r, <1>w, <2>a, <2>e, Shapes, InUseReads DEF RecoverAttach
  <2>8. Orderly /\ OrderlyInv(l) => KeptInv(l)'
    BY <1>4, <1>c, <1>n, <1>p, <1>q, <1>r, <1>w, <2>a, <2>e, Shapes, InUseReads DEF RecoverAttach
  <2>9. Orderly /\ OrderlyInv(l) => ChildInv(l)'
    BY <1>4, <1>c, <1>n, <1>p, <1>q, <1>r, <1>w, <2>a, <2>e, Shapes, InUseReads DEF RecoverAttach
  <2> QED
    BY <2>1, <2>2, <2>3, <2>4, <2>5, <2>6, <2>7, <2>8, <2>9
<1>5. CASE RecoverRelease(l)
  <2>e. /\ (rec' = [rec EXCEPT !.pc = "clean"] =>
             Passes("clean", rec.ses))
    BY <1>l, <1>s, PassReads
  <2>b. /\ rec.pc = "release" /\ rec.cur = l
        /\ \/ Closed(l, rec.ses, TRUE) /\ Passes("clean", rec.ses) /\ UNCHANGED journal
           \/ /\ Wrote(l, rec.copy) /\ rec'.cur = None /\ rec'.todo = rec.todo
              /\ UNCHANGED <<att, library, child>>
        /\ UNCHANGED <<space, record, gen, children, task, client, kept>>
    BY <1>5, <1>q, <1>r, <2>e DEF RecoverRelease
  <2>1. Unidentified(l)'
    BY <1>c, <1>n, <2>b, Shapes, InUseReads
  <2>2. InWorkspace(l)'
    BY <1>c, <1>n, <2>b, Shapes, InUseReads
  <2>3. GivenUp(l)'
    BY <1>c, <1>n, <2>b, Shapes, InUseReads
  <2>4. Orderly /\ OrderlyInv(l) => Abandoned(l)'
    BY <1>c, <1>n, <2>b, Shapes, InUseReads
  <2>5. Orderly /\ OrderlyInv(l) => Current(l)'
    BY <1>c, <1>n, <2>b, Shapes, InUseReads
  <2>6. Orderly /\ OrderlyInv(l) => Released(l)'
    BY <1>c, <1>n, <2>b, Shapes, InUseReads
  <2>7. Orderly /\ OrderlyInv(l) => Attached(l)'
    BY <1>c, <1>n, <2>b, Shapes, InUseReads
  <2>8. Orderly /\ OrderlyInv(l) => KeptInv(l)'
    BY <1>c, <1>n, <2>b, Shapes, InUseReads
  <2>9. Orderly /\ OrderlyInv(l) => ChildInv(l)'
    BY <1>c, <1>n, <2>b, Shapes, InUseReads
  <2> QED
    BY <2>1, <2>2, <2>3, <2>4, <2>5, <2>6, <2>7, <2>8, <2>9
<1>6. CASE RecoverClean(l)
  <2>e. /\ (rec' = [rec EXCEPT !.pc = "unlink"] =>
             Passes("unlink", rec.ses))
        /\ (Cleanup(l) => space'[l] = "none")
    BY <1>l, <1>s, PassReads, CleanupReads
  <2>1. Unidentified(l)'
    BY <1>6, <1>c, <1>n, <1>p, <1>q, <1>r, <1>w, <2>e, Shapes, InUseReads DEF RecoverClean
  <2>2. InWorkspace(l)'
    BY <1>6, <1>c, <1>n, <1>p, <1>q, <1>r, <1>w, <2>e, Shapes, InUseReads DEF RecoverClean
  <2>3. GivenUp(l)'
    BY <1>6, <1>c, <1>n, <1>p, <1>q, <1>r, <1>w, <2>e, Shapes, InUseReads DEF RecoverClean
  <2>4. Orderly /\ OrderlyInv(l) => Abandoned(l)'
    BY <1>6, <1>c, <1>n, <1>p, <1>q, <1>r, <1>w, <2>e, Shapes, InUseReads DEF RecoverClean
  <2>5. Orderly /\ OrderlyInv(l) => Current(l)'
    BY <1>6, <1>c, <1>n, <1>p, <1>q, <1>r, <1>w, <2>e, Shapes, InUseReads DEF RecoverClean
  <2>6. Orderly /\ OrderlyInv(l) => Released(l)'
    BY <1>6, <1>c, <1>n, <1>p, <1>q, <1>r, <1>w, <2>e, Shapes, InUseReads DEF RecoverClean
  <2>7. Orderly /\ OrderlyInv(l) => Attached(l)'
    BY <1>6, <1>c, <1>n, <1>p, <1>q, <1>r, <1>w, <2>e, Shapes, InUseReads DEF RecoverClean
  <2>8. Orderly /\ OrderlyInv(l) => KeptInv(l)'
    BY <1>6, <1>c, <1>n, <1>p, <1>q, <1>r, <1>w, <2>e, Shapes, InUseReads DEF RecoverClean
  <2>9. Orderly /\ OrderlyInv(l) => ChildInv(l)'
    BY <1>6, <1>c, <1>n, <1>p, <1>q, <1>r, <1>w, <2>e, Shapes, InUseReads DEF RecoverClean
  <2> QED
    BY <2>1, <2>2, <2>3, <2>4, <2>5, <2>6, <2>7, <2>8, <2>9
<1>7. CASE RecoverUnlink(l)
  <2>e. /\ (RemoveLease(l) => journal'[l] = None)
    BY <1>l, <1>s, PassReads, RemoveReads
  <2>1. Unidentified(l)'
    BY <1>7, <1>c, <1>n, <1>p, <1>q, <1>r, <1>w, <2>e, Shapes, InUseReads DEF RecoverUnlink
  <2>2. InWorkspace(l)'
    BY <1>7, <1>c, <1>n, <1>p, <1>q, <1>r, <1>w, <2>e, Shapes, InUseReads DEF RecoverUnlink
  <2>3. GivenUp(l)'
    BY <1>7, <1>c, <1>n, <1>p, <1>q, <1>r, <1>w, <2>e, Shapes, InUseReads DEF RecoverUnlink
  <2>4. Orderly /\ OrderlyInv(l) => Abandoned(l)'
    BY <1>7, <1>c, <1>n, <1>p, <1>q, <1>r, <1>w, <2>e, Shapes, InUseReads DEF RecoverUnlink
  <2>5. Orderly /\ OrderlyInv(l) => Current(l)'
    BY <1>7, <1>c, <1>n, <1>p, <1>q, <1>r, <1>w, <2>e, Shapes, InUseReads DEF RecoverUnlink
  <2>6. Orderly /\ OrderlyInv(l) => Released(l)'
    BY <1>7, <1>c, <1>n, <1>p, <1>q, <1>r, <1>w, <2>e, Shapes, InUseReads DEF RecoverUnlink
  <2>7. Orderly /\ OrderlyInv(l) => Attached(l)'
    BY <1>7, <1>c, <1>n, <1>p, <1>q, <1>r, <1>w, <2>e, Shapes, InUseReads DEF RecoverUnlink
  <2>8. Orderly /\ OrderlyInv(l) => KeptInv(l)'
    BY <1>7, <1>c, <1>n, <1>p, <1>q, <1>r, <1>w, <2>e, Shapes, InUseReads DEF RecoverUnlink
  <2>9. Orderly /\ OrderlyInv(l) => ChildInv(l)'
    BY <1>7, <1>c, <1>n, <1>p, <1>q, <1>r, <1>w, <2>e, Shapes, InUseReads, SMTT(40) DEF RecoverUnlink
  <2> QED
    BY <2>1, <2>2, <2>3, <2>4, <2>5, <2>6, <2>7, <2>8, <2>9
<1> QED
  BY <1>1, <1>2, <1>3, <1>4, <1>5, <1>6, <1>7, Zenon DEF RecoverEntry

-----------------------------------------------------------------------------
\* A step that leaves a lease alone keeps what is said of it.
LEMMA FrameMount ==
  ASSUME NEW l \in Leases, MountInv(l), Same(l), RecSame(l)
  PROVE  MountInv(l)' /\ (Orderly /\ OrderlyInv(l) => OrderlyInv(l)')
<1> USE DEF disk, mem, procs, hist, Building, InUse, Claimed, Alive, MountInv, Unidentified,
        Making, Identified, CopyIdentifies, InWorkspace, GivenUp, Idle, At, Copy, Ses,
        HasJournal, Quiet, Same, RecSame, OrderlyInv, Abandoned, Current, Released, Attached,
        KeptInv, ChildInv, Doomed, Releasing
<1>1. Unidentified(l)'
  OBVIOUS
<1>2. InWorkspace(l)'
  OBVIOUS
<1>3. GivenUp(l)'
  OBVIOUS
<1>4. Orderly /\ OrderlyInv(l) => Abandoned(l)'
  OBVIOUS
<1>5. Orderly /\ OrderlyInv(l) => Current(l)'
  OBVIOUS
<1>6. Orderly /\ OrderlyInv(l) => Released(l)'
  OBVIOUS
<1>7. Orderly /\ OrderlyInv(l) => Attached(l)'
  OBVIOUS
<1>8. Orderly /\ OrderlyInv(l) => KeptInv(l)'
  BY SMTT(40)
<1>9. Orderly /\ OrderlyInv(l) => ChildInv(l)'
  BY SMTT(40)
<1> QED
  BY <1>1, <1>2, <1>3, <1>4, <1>5, <1>6, <1>7, <1>8, <1>9

\* A pass begins with copies of the journals as they are.
LEMMA StartPassMount ==
  ASSUME TypeOK, NEW l \in Leases, MountInv(l), StartPass, UNCHANGED <<disk, mem, task, client, kept>>
  PROVE  MountInv(l)' /\ (Orderly /\ OrderlyInv(l) => OrderlyInv(l)')
<1>p. rec'.cur # l /\ rec'.todo = journal
  BY ConstantsAssumption DEF StartPass, IdleRec
<1> USE DEF disk, mem, procs, hist, Building, InUse, Claimed, Alive, MountInv, Unidentified,
        Making, Identified, CopyIdentifies, InWorkspace, GivenUp, Idle, At, Copy, Ses,
        HasJournal, Quiet, OrderlyInv, Abandoned, Current, Released, Attached, KeptInv,
        ChildInv, Doomed, Releasing
<1>1. Unidentified(l)'
  BY <1>p
<1>2. InWorkspace(l)'
  BY <1>p
<1>3. GivenUp(l)'
  BY <1>p
<1>4. Orderly /\ OrderlyInv(l) => Abandoned(l)'
  BY <1>p
<1>5. Orderly /\ OrderlyInv(l) => Current(l)'
  BY <1>p
<1>6. Orderly /\ OrderlyInv(l) => Released(l)'
  BY <1>p
<1>7. Orderly /\ OrderlyInv(l) => Attached(l)'
  BY <1>p
<1>8. Orderly /\ OrderlyInv(l) => KeptInv(l)'
  BY <1>p
<1>9. Orderly /\ OrderlyInv(l) => ChildInv(l)'
  BY <1>p, SMTT(40)
<1> QED
  BY <1>1, <1>2, <1>3, <1>4, <1>5, <1>6, <1>7, <1>8, <1>9

\* With the process, its handlers, sessions and pass are gone.
LEMMA LoseProcessMount ==
  ASSUME TypeOK, NEW l \in Leases, LeaseInv(l), MountInv(l), LoseProcess,
         client'[l] = client[l] \/ client'[l] = "killed",
         \/ journal'[l] = journal[l]
         \/ /\ journal[l] # None /\ journal'[l] # None
            /\ journal'[l].ident = journal[l].ident /\ journal'[l].retained = journal[l].retained
            /\ ~Alive(l)'
  PROVE  MountInv(l)' /\ (Orderly /\ OrderlyInv(l) => OrderlyInv(l)')
<1>p. /\ rec'.cur # l /\ rec'.todo[l] = None /\ att'[l] = 0 /\ children'[l] = 0
      /\ task'[l]["owner"].pc = "idle" /\ task'[l]["beat"].pc = "idle"
      /\ task'[l]["pid"].pc = "idle" /\ task'[l]["tool"].pc = "idle"
      /\ UNCHANGED <<child, space, library, record, kept>>
  BY ConstantsAssumption, KindsOf DEF LoseProcess, IdleRec, IdleTask, hist
<1> USE DEF disk, mem, procs, hist, Building, InUse, Claimed, Alive, MountInv, Unidentified,
        Making, Identified, CopyIdentifies, InWorkspace, GivenUp, Idle, At, Copy, Ses,
        HasJournal, Quiet, OrderlyInv, Abandoned, Current, Released, Attached, KeptInv,
        ChildInv, Doomed, Releasing
<1>1. Unidentified(l)'
  BY <1>p, InUseReads
<1>2. InWorkspace(l)'
  BY <1>p, InUseReads
<1>3. GivenUp(l)'
  BY <1>p, InUseReads
<1>4. Orderly /\ OrderlyInv(l) => Abandoned(l)'
  BY <1>p, InUseReads
<1>5. Orderly /\ OrderlyInv(l) => Current(l)'
  BY <1>p, InUseReads
<1>6. Orderly /\ OrderlyInv(l) => Released(l)'
  BY <1>p, InUseReads
<1>7. Orderly /\ OrderlyInv(l) => Attached(l)'
  BY <1>p, InUseReads
<1>8. Orderly /\ OrderlyInv(l) => KeptInv(l)'
  BY <1>p, InUseReads
<1>9. Orderly /\ OrderlyInv(l) => ChildInv(l)'
  BY <1>p, InUseReads, SMTT(40)
<1> QED
  BY <1>1, <1>2, <1>3, <1>4, <1>5, <1>6, <1>7, <1>8, <1>9

\* A heartbeat writes back the journal that it read.
LEMMA HeartbeatWriteMount ==
  ASSUME TypeOK, NEW l \in Leases, LeaseInv(l), MountInv(l), NEW k \in {"beat", "pid"},
         HeartbeatWrite(l, k)
  PROVE  MountInv(l)' /\ (Orderly /\ OrderlyInv(l) => OrderlyInv(l)')
<1>k. k \in Kinds /\ At(l, k, "b_write") /\ ~Idle(l, k)
  BY DEF HeartbeatWrite, Kinds, At, Idle
<1>c. Copy(l, k) \in Journals
  BY <1>k, TaskRead
<1>w. WriteLease(l, Copy(l, k)) => Wrote(l, Copy(l, k))
  BY <1>c, WriteReads
<1>e. Ends(l, k) /\ \A h \in Kinds : h # k => task'[l][h] = task[l][h]
  BY <1>k, FinishReads DEF HeartbeatWrite
<1>u. /\ UNCHANGED <<child, space, library, record, att, children, rec, client, kept>>
      /\ Wrote(l, Copy(l, k)) \/ journal'[l] = journal[l]
  BY <1>w, SMTT(40) DEF HeartbeatWrite, disk, mem, procs
<1>o. /\ task'[l]["owner"] = task[l]["owner"] /\ task'[l]["tool"] = task[l]["tool"]
  BY <1>e, KindsOf, SMTT(40)
<1> USE DEF disk, mem, procs, hist, Building, InUse, Claimed, Alive, MountInv, Unidentified,
        Making, Identified, CopyIdentifies, InWorkspace, GivenUp, Idle, At, Copy, Ses,
        HasJournal, Quiet, Ends, Wrote, OrderlyInv, Abandoned, Current, Released, Attached,
        KeptInv, ChildInv, Doomed, Releasing
<1>1. CASE k = "beat"
  <2>e. task'[l]["beat"].pc = "idle" /\ task'[l]["pid"] = task[l]["pid"]
    BY <1>e, <1>1, KindsOf
  <2>1. Unidentified(l)'
    BY <1>k, <1>u, <1>o, <1>1, <2>e, Shapes, InUseReads
  <2>2. InWorkspace(l)'
    BY <1>k, <1>u, <1>o, <1>1, <2>e, Shapes, InUseReads
  <2>3. GivenUp(l)'
    BY <1>k, <1>u, <1>o, <1>1, <2>e, Shapes, InUseReads
  <2>4. Orderly /\ OrderlyInv(l) => Abandoned(l)'
    BY <1>k, <1>u, <1>o, <1>1, <2>e, Shapes, InUseReads
  <2>5. Orderly /\ OrderlyInv(l) => Current(l)'
    BY <1>k, <1>u, <1>o, <1>1, <2>e, Shapes, InUseReads
  <2>6. Orderly /\ OrderlyInv(l) => Released(l)'
    BY <1>k, <1>u, <1>o, <1>1, <2>e, Shapes, InUseReads
  <2>7. Orderly /\ OrderlyInv(l) => Attached(l)'
    BY <1>k, <1>u, <1>o, <1>1, <2>e, Shapes, InUseReads
  <2>8. Orderly /\ OrderlyInv(l) => KeptInv(l)'
    BY <1>k, <1>u, <1>o, <1>1, <2>e, Shapes, InUseReads
  <2>9. Orderly /\ OrderlyInv(l) => ChildInv(l)'
    BY <1>k, <1>u, <1>o, <1>1, <2>e, Shapes, InUseReads
  <2> QED
    BY <2>1, <2>2, <2>3, <2>4, <2>5, <2>6, <2>7, <2>8, <2>9
<1>2. CASE k = "pid"
  <2>e. task'[l]["pid"].pc = "idle" /\ task'[l]["beat"] = task[l]["beat"]
    BY <1>e, <1>2, KindsOf
  <2>1. Unidentified(l)'
    BY <1>k, <1>u, <1>o, <1>2, <2>e, Shapes, InUseReads
  <2>2. InWorkspace(l)'
    BY <1>k, <1>u, <1>o, <1>2, <2>e, Shapes, InUseReads
  <2>3. GivenUp(l)'
    BY <1>k, <1>u, <1>o, <1>2, <2>e, Shapes, InUseReads
  <2>4. Orderly /\ OrderlyInv(l) => Abandoned(l)'
    BY <1>k, <1>u, <1>o, <1>2, <2>e, Shapes, InUseReads
  <2>5. Orderly /\ OrderlyInv(l) => Current(l)'
    BY <1>k, <1>u, <1>o, <1>2, <2>e, Shapes, InUseReads
  <2>6. Orderly /\ OrderlyInv(l) => Released(l)'
    BY <1>k, <1>u, <1>o, <1>2, <2>e, Shapes, InUseReads
  <2>7. Orderly /\ OrderlyInv(l) => Attached(l)'
    BY <1>k, <1>u, <1>o, <1>2, <2>e, Shapes, InUseReads
  <2>8. Orderly /\ OrderlyInv(l) => KeptInv(l)'
    BY <1>k, <1>u, <1>o, <1>2, <2>e, Shapes, InUseReads
  <2>9. Orderly /\ OrderlyInv(l) => ChildInv(l)'
    BY <1>k, <1>u, <1>o, <1>2, <2>e, Shapes, InUseReads
  <2> QED
    BY <2>1, <2>2, <2>3, <2>4, <2>5, <2>6, <2>7, <2>8, <2>9
<1> QED
  BY <1>1, <1>2

\* A request opens what a handler goes on with.
LEMMA RequestsMount ==
  ASSUME TypeOK, NEW l \in Leases, LeaseInv(l), MountInv(l), Requests(l)
  PROVE  MountInv(l)' /\ (Orderly /\ OrderlyInv(l) => OrderlyInv(l)')
<1>j. journal[l] # None => journal[l] \in Journals
  BY DEF TypeOK, MaybeJournals
<1> USE DEF disk, mem, procs, hist, Building, InUse, Claimed, Alive, MountInv, Unidentified,
        Making, Identified, CopyIdentifies, InWorkspace, GivenUp, Idle, At, Copy, Ses,
        HasJournal, Quiet, Request, RetainedMatches, Goes, Wrote, OrderlyInv, Abandoned,
        Current, Released, Attached, KeptInv, ChildInv, Doomed, Releasing
<1>1. CASE AcquireRefused(l)
  <2>b. /\ client[l] = "prepared" /\ client'[l] = "acquiring"
        /\ UNCHANGED <<disk, mem, task, rec, kept>>
    BY <1>1 DEF AcquireRefused, TypeOK
  <2>1. Unidentified(l)'
    BY <2>b, InUseReads
  <2>2. InWorkspace(l)'
    BY <2>b, InUseReads
  <2>3. GivenUp(l)'
    BY <2>b, InUseReads
  <2>4. Orderly /\ OrderlyInv(l) => Abandoned(l)'
    BY <2>b, InUseReads
  <2>5. Orderly /\ OrderlyInv(l) => Current(l)'
    BY <2>b, InUseReads
  <2>6. Orderly /\ OrderlyInv(l) => Released(l)'
    BY <2>b, InUseReads
  <2>7. Orderly /\ OrderlyInv(l) => Attached(l)'
    BY <2>b, InUseReads
  <2>8. Orderly /\ OrderlyInv(l) => KeptInv(l)'
    BY <2>b, InUseReads
  <2>9. Orderly /\ OrderlyInv(l) => ChildInv(l)'
    BY <2>b, InUseReads
  <2> QED
    BY <2>1, <2>2, <2>3, <2>4, <2>5, <2>6, <2>7, <2>8, <2>9
<1>2. CASE AcquireBegin(l)
  <2> DEFINE j == [state |-> "requested", retained |-> FALSE, fresh |-> TRUE,
                   unity |-> FALSE, ident |-> FALSE, sameBoot |-> TRUE]
  <2>j. /\ j \in Journals /\ ~j.retained /\ ~j.ident /\ j.sameBoot
        /\ WriteLease(l, j) => Wrote(l, j)
        /\ Goto(l, "owner", "a_owner", j, 0) =>
             /\ Goes(l, "owner", "a_owner", j, 0) /\ task'[l]["beat"] = task[l]["beat"]
             /\ task'[l]["pid"] = task[l]["pid"] /\ task'[l]["tool"] = task[l]["tool"]
    <3>1. j \in Journals
      BY StatesOf DEF Journals
    <3>2. WriteLease(l, j) => Wrote(l, j)
      BY <3>1, WriteReads
    <3>3. Goto(l, "owner", "a_owner", j, 0) =>
             /\ Goes(l, "owner", "a_owner", j, 0) /\ task'[l]["beat"] = task[l]["beat"]
             /\ task'[l]["pid"] = task[l]["pid"] /\ task'[l]["tool"] = task[l]["tool"]
      <4> HIDE DEF j
      <4> QED
        BY GotoReads, KindsOf
    <3> QED
      BY <3>1, <3>2, <3>3
  <2> HIDE DEF j
  <2>b. /\ client[l] = "prepared" /\ client'[l] = "acquiring" /\ space[l] # "none"
        /\ Idle(l, "owner") /\ Wrote(l, j) /\ Goes(l, "owner", "a_owner", j, 0)
        /\ UNCHANGED <<child, space, library, record, mem, rec, kept>>
        /\ task'[l]["beat"] = task[l]["beat"] /\ task'[l]["pid"] = task[l]["pid"]
        /\ task'[l]["tool"] = task[l]["tool"]
    BY <1>2, <2>j DEF AcquireBegin, TypeOK, j
  <2>1. Unidentified(l)'
    BY <2>j, <2>b, InUseReads, Shapes
  <2>2. InWorkspace(l)'
    BY <2>j, <2>b, InUseReads, Shapes
  <2>3. GivenUp(l)'
    BY <2>j, <2>b, InUseReads, Shapes
  <2>4. Orderly /\ OrderlyInv(l) => Abandoned(l)'
    BY <2>j, <2>b, InUseReads, Shapes, SMTT(40)
  <2>5. Orderly /\ OrderlyInv(l) => Current(l)'
    BY <2>j, <2>b, InUseReads, Shapes, SMTT(40)
  <2>6. Orderly /\ OrderlyInv(l) => Released(l)'
    BY <2>j, <2>b, InUseReads, Shapes
  <2>7. Orderly /\ OrderlyInv(l) => Attached(l)'
    BY <2>j, <2>b, InUseReads, Shapes
  <2>8. Orderly /\ OrderlyInv(l) => KeptInv(l)'
    BY <2>j, <2>b, InUseReads, Shapes
  <2>9. Orderly /\ OrderlyInv(l) => ChildInv(l)'
    BY <2>j, <2>b, InUseReads, Shapes, SMTT(40)
  <2> QED
    BY <2>1, <2>2, <2>3, <2>4, <2>5, <2>6, <2>7, <2>8, <2>9
<1>3. ASSUME NEW k \in {"beat", "pid"}, HeartbeatRead(l, k)
      PROVE  MountInv(l)' /\ (Orderly /\ OrderlyInv(l) => OrderlyInv(l)')
  <2> DEFINE j == [journal[l] EXCEPT !.unity = @ \/ k = "pid"]
  <2>j. HasJournal(l) => j.retained = journal[l].retained /\ j.ident = journal[l].ident
                         /\ j.sameBoot = journal[l].sameBoot
    BY <1>j DEF Journals
  <2>g. Goto(l, k, "b_write", j, 0) =>
          Goes(l, k, "b_write", j, 0) /\ \A h \in Kinds : h # k => task'[l][h] = task[l][h]
    BY GotoReads, KindsOf, SMTT(40)
  <2> HIDE DEF j
  <2>b. /\ client[l] = "running" /\ UNCHANGED <<disk, mem, client, rec, kept>>
        /\ \/ task' = task
           \/ /\ HasJournal(l) /\ Goes(l, k, "b_write", j, 0)
              /\ \A h \in Kinds : h # k => task'[l][h] = task[l][h]
    BY <1>3, <2>g, SMTT(40) DEF HeartbeatRead, j
  <2>1. CASE task' = task
    BY <2>1, <2>b, FrameMount, SMTT(40) DEF Same, RecSame
  <2>2. CASE HasJournal(l) /\ Goes(l, "beat", "b_write", j, 0) /\ k = "beat"
             /\ \A h \in Kinds : h # k => task'[l][h] = task[l][h]
    <3>o. /\ task'[l]["owner"] = task[l]["owner"] /\ task'[l]["tool"] = task[l]["tool"]
          /\ task'[l]["pid"] = task[l]["pid"]
      BY <2>2, KindsOf
    <3>1. Unidentified(l)'
      BY <2>j, <2>b, <2>2, <3>o, InUseReads, Shapes
    <3>2. InWorkspace(l)'
      BY <2>j, <2>b, <2>2, <3>o, InUseReads, Shapes
    <3>3. GivenUp(l)'
      BY <2>j, <2>b, <2>2, <3>o, InUseReads, Shapes
    <3>4. Orderly /\ OrderlyInv(l)
            => Abandoned(l)'
      BY <2>j, <2>b, <2>2, <3>o, InUseReads, Shapes
    <3>5. Orderly /\ OrderlyInv(l)
            => Current(l)'
      BY <2>j, <2>b, <2>2, <3>o, InUseReads, Shapes
    <3>6. Orderly /\ OrderlyInv(l)
            => Released(l)'
      BY <2>j, <2>b, <2>2, <3>o, InUseReads, Shapes
    <3>7. Orderly /\ OrderlyInv(l)
            => Attached(l)'
      BY <2>j, <2>b, <2>2, <3>o, InUseReads, Shapes
    <3>8. Orderly /\ OrderlyInv(l)
            => KeptInv(l)'
      BY <2>j, <2>b, <2>2, <3>o, InUseReads, Shapes
    <3>9. Orderly /\ OrderlyInv(l)
            => ChildInv(l)'
      BY <2>j, <2>b, <2>2, <3>o, InUseReads, Shapes
    <3> QED
      BY <3>1, <3>2, <3>3, <3>4, <3>5, <3>6, <3>7, <3>8, <3>9
  <2>3. CASE HasJournal(l) /\ Goes(l, "pid", "b_write", j, 0) /\ k = "pid"
             /\ \A h \in Kinds : h # k => task'[l][h] = task[l][h]
    <3>o. /\ task'[l]["owner"] = task[l]["owner"] /\ task'[l]["tool"] = task[l]["tool"]
          /\ task'[l]["beat"] = task[l]["beat"]
      BY <2>3, KindsOf
    <3>1. Unidentified(l)'
      BY <2>j, <2>b, <2>3, <3>o, InUseReads, Shapes
    <3>2. InWorkspace(l)'
      BY <2>j, <2>b, <2>3, <3>o, InUseReads, Shapes
    <3>3. GivenUp(l)'
      BY <2>j, <2>b, <2>3, <3>o, InUseReads, Shapes
    <3>4. Orderly /\ OrderlyInv(l)
            => Abandoned(l)'
      BY <2>j, <2>b, <2>3, <3>o, InUseReads, Shapes
    <3>5. Orderly /\ OrderlyInv(l)
            => Current(l)'
      BY <2>j, <2>b, <2>3, <3>o, InUseReads, Shapes
    <3>6. Orderly /\ OrderlyInv(l)
            => Released(l)'
      BY <2>j, <2>b, <2>3, <3>o, InUseReads, Shapes
    <3>7. Orderly /\ OrderlyInv(l)
            => Attached(l)'
      BY <2>j, <2>b, <2>3, <3>o, InUseReads, Shapes
    <3>8. Orderly /\ OrderlyInv(l)
            => KeptInv(l)'
      BY <2>j, <2>b, <2>3, <3>o, InUseReads, Shapes
    <3>9. Orderly /\ OrderlyInv(l)
            => ChildInv(l)'
      BY <2>j, <2>b, <2>3, <3>o, InUseReads, Shapes, SMTT(40)
    <3> QED
      BY <3>1, <3>2, <3>3, <3>4, <3>5, <3>6, <3>7, <3>8, <3>9
  <2> QED
    BY <2>b, <2>1, <2>2, <2>3
<1>4. ASSUME NEW retain \in BOOLEAN, ReleaseBegin(l, retain)
      PROVE  MountInv(l)' /\ (Orderly /\ OrderlyInv(l) => OrderlyInv(l)')
  <2> DEFINE j == [journal[l] EXCEPT !.state = "releasing", !.retained = retain]
  <2>j. HasJournal(l) =>
          /\ j \in Journals /\ j.ident = journal[l].ident /\ j.sameBoot = journal[l].sameBoot
          /\ WriteLease(l, j) => Wrote(l, j)
    <3>1. HasJournal(l) => j \in Journals /\ j.ident = journal[l].ident
                           /\ j.sameBoot = journal[l].sameBoot
      BY <1>j, StatesOf DEF Journals
    <3> QED
      BY <3>1, WriteReads
  <2>g. Goto(l, "owner", "x_native", j, children[l]) =>
          /\ Goes(l, "owner", "x_native", j, children[l]) /\ task'[l]["beat"] = task[l]["beat"]
          /\ task'[l]["pid"] = task[l]["pid"] /\ task'[l]["tool"] = task[l]["tool"]
    BY GotoReads, KindsOf
  <2> HIDE DEF j
  <2>b. /\ client[l] = "running" /\ client'[l] = "releasing"
        /\ Idle(l, "owner") /\ Idle(l, "beat") /\ Idle(l, "pid")
        /\ UNCHANGED <<child, space, library, record, mem, rec, kept>>
        /\ \/ UNCHANGED <<journal, task>>
           \/ /\ children[l] # 0 /\ HasJournal(l) /\ Wrote(l, j)
              /\ Goes(l, "owner", "x_native", j, children[l]) /\ task'[l]["beat"] = task[l]["beat"]
              /\ task'[l]["pid"] = task[l]["pid"] /\ task'[l]["tool"] = task[l]["tool"]
    BY <1>4, <2>j, <2>g DEF ReleaseBegin, TypeOK, j
  <2>1. Unidentified(l)'
    BY <2>j, <2>b, InUseReads, Shapes
  <2>2. InWorkspace(l)'
    BY <2>j, <2>b, InUseReads, Shapes
  <2>3. GivenUp(l)'
    BY <2>j, <2>b, InUseReads, Shapes
  <2>4. Orderly /\ OrderlyInv(l) => Abandoned(l)'
    BY <2>j, <2>b, InUseReads, Shapes
  <2>5. Orderly /\ OrderlyInv(l) => Current(l)'
    BY <2>j, <2>b, InUseReads, Shapes
  <2>6. Orderly /\ OrderlyInv(l) => Released(l)'
    BY <2>j, <2>b, InUseReads, Shapes
  <2>7. Orderly /\ OrderlyInv(l) => Attached(l)'
    BY <2>j, <2>b, InUseReads, Shapes
  <2>8. Orderly /\ OrderlyInv(l) => KeptInv(l)'
    BY <2>j, <2>b, InUseReads, Shapes
  <2>9. Orderly /\ OrderlyInv(l) => ChildInv(l)'
    BY <2>j, <2>b, InUseReads, Shapes
  <2> QED
    BY <2>1, <2>2, <2>3, <2>4, <2>5, <2>6, <2>7, <2>8, <2>9
<1>5. CASE AttachBegin(l)
  <2>g. Goto(l, "tool", "t_attach", journal[l], 0) =>
          /\ Goes(l, "tool", "t_attach", journal[l], 0) /\ task'[l]["beat"] = task[l]["beat"]
          /\ task'[l]["pid"] = task[l]["pid"] /\ task'[l]["owner"] = task[l]["owner"]
    BY GotoReads, KindsOf
  <2>b. /\ Idle(l, "tool") /\ (Orderly => Idle(l, "owner")) /\ RetainedMatches(l) /\ children[l] = 0
        /\ UNCHANGED <<disk, mem, rec, client, kept>>
        /\ Goes(l, "tool", "t_attach", journal[l], 0) /\ task'[l]["beat"] = task[l]["beat"]
        /\ task'[l]["pid"] = task[l]["pid"] /\ task'[l]["owner"] = task[l]["owner"]
    BY <1>5, <2>g DEF AttachBegin
  <2>1. Unidentified(l)'
    BY <2>b, InUseReads, Shapes
  <2>2. InWorkspace(l)'
    BY <2>b, InUseReads, Shapes
  <2>3. GivenUp(l)'
    BY <2>b, InUseReads, Shapes
  <2>4. Orderly /\ OrderlyInv(l) => Abandoned(l)'
    BY <2>b, InUseReads, Shapes
  <2>5. Orderly /\ OrderlyInv(l) => Current(l)'
    BY <2>b, InUseReads, Shapes
  <2>6. Orderly /\ OrderlyInv(l) => Released(l)'
    BY <2>b, InUseReads, Shapes
  <2>7. Orderly /\ OrderlyInv(l) => Attached(l)'
    BY <2>b, InUseReads, Shapes
  <2>8. Orderly /\ OrderlyInv(l) => KeptInv(l)'
    BY <2>b, InUseReads, Shapes
  <2>9. Orderly /\ OrderlyInv(l) => ChildInv(l)'
    BY <2>b, InUseReads, Shapes
  <2> QED
    BY <2>1, <2>2, <2>3, <2>4, <2>5, <2>6, <2>7, <2>8, <2>9
<1>6. CASE RemoveBegin(l)
  <2> DEFINE pc == IF children[l] = 0 THEN "d_attach" ELSE "d_release"
  <2>g. Goto(l, "tool", pc, journal[l], children[l]) =>
          /\ Goes(l, "tool", pc, journal[l], children[l]) /\ task'[l]["beat"] = task[l]["beat"]
          /\ task'[l]["pid"] = task[l]["pid"] /\ task'[l]["owner"] = task[l]["owner"]
    BY GotoReads, KindsOf
  <2>b. /\ Idle(l, "tool") /\ (Orderly => Idle(l, "owner")) /\ RetainedMatches(l)
        /\ UNCHANGED <<disk, mem, rec, client>> /\ kept'[l] = "dropped"
        /\ Goes(l, "tool", pc, journal[l], children[l]) /\ task'[l]["beat"] = task[l]["beat"]
        /\ task'[l]["pid"] = task[l]["pid"] /\ task'[l]["owner"] = task[l]["owner"]
    BY <1>6, <2>g DEF RemoveBegin, TypeOK
  <2>1. Unidentified(l)'
    BY <2>b, InUseReads, Shapes
  <2>2. InWorkspace(l)'
    BY <2>b, InUseReads, Shapes
  <2>3. GivenUp(l)'
    BY <2>b, InUseReads, Shapes
  <2>4. Orderly /\ OrderlyInv(l) => Abandoned(l)'
    BY <2>b, InUseReads, Shapes
  <2>5. Orderly /\ OrderlyInv(l) => Current(l)'
    BY <2>b, InUseReads, Shapes
  <2>6. Orderly /\ OrderlyInv(l) => Released(l)'
    BY <2>b, InUseReads, Shapes
  <2>7. Orderly /\ OrderlyInv(l) => Attached(l)'
    BY <2>b, InUseReads, Shapes
  <2>8. Orderly /\ OrderlyInv(l) => KeptInv(l)'
    BY <2>b, InUseReads, Shapes
  <2>9. Orderly /\ OrderlyInv(l) => ChildInv(l)'
    BY <2>b, InUseReads, Shapes
  <2> QED
    BY <2>1, <2>2, <2>3, <2>4, <2>5, <2>6, <2>7, <2>8, <2>9
<1> QED
  BY <1>1, <1>2, <1>3, <1>4, <1>5, <1>6, Zenon DEF Requests

\* A client that leaves leaves what its handlers have; time makes a journal stale only
\* when nobody is at work on it.
LEMMA ProcessesMount ==
  ASSUME TypeOK, NEW l \in Leases, LeaseInv(l), MountInv(l), Processes(l)
  PROVE  MountInv(l)' /\ (Orderly /\ OrderlyInv(l) => OrderlyInv(l)')
<1>j. journal[l] # None => journal[l] \in Journals
  BY DEF TypeOK, MaybeJournals
<1>t. rec.todo \in [Leases -> MaybeJournals] /\ rec \in Recs
  BY DEF TypeOK, Recs
<1>r. rec.todo[l] # None /\ rec' = [rec EXCEPT !.todo[l].fresh = FALSE] =>
        /\ rec'.cur = rec.cur /\ rec'.pc = rec.pc /\ rec'.copy = rec.copy /\ rec'.ses = rec.ses
        /\ rec'.todo[l] # None /\ rec'.todo[l].ident = rec.todo[l].ident
  <2> SUFFICES ASSUME rec.todo[l] # None, rec' = [rec EXCEPT !.todo[l].fresh = FALSE]
               PROVE  /\ rec'.cur = rec.cur /\ rec'.pc = rec.pc /\ rec'.copy = rec.copy
                      /\ rec'.ses = rec.ses
                      /\ rec'.todo[l] # None /\ rec'.todo[l].ident = rec.todo[l].ident
    OBVIOUS
  <2>1. rec.todo[l] \in Journals
    BY <1>t DEF MaybeJournals
  <2>2. rec'.todo[l] = [rec.todo[l] EXCEPT !.fresh = FALSE]
    BY <1>t DEF Recs
  <2>3. [rec.todo[l] EXCEPT !.fresh = FALSE] \in Journals
    BY <2>1 DEF Journals
  <2>4. /\ rec'.cur = rec.cur /\ rec'.pc = rec.pc /\ rec'.copy = rec.copy /\ rec'.ses = rec.ses
    BY <1>t DEF Recs
  <2> QED
    BY <2>1, <2>2, <2>3, <2>4, ConstantsAssumption DEF Journals
<1> USE DEF disk, mem, procs, hist, Building, InUse, Claimed, Alive, MountInv, Unidentified,
        Making, Identified, CopyIdentifies, InWorkspace, GivenUp, Idle, At, Copy, Ses,
        HasJournal, Quiet, OrderlyInv, Abandoned, Current, Released, Attached, KeptInv,
        ChildInv, Doomed, Releasing
<1>1. CASE ClientAcquireFailed(l)
  <2>b. /\ client[l] = "acquiring" /\ client'[l] = "exited" /\ Idle(l, "owner")
        /\ space'[l] = "none" /\ library'[l] = FALSE
        /\ UNCHANGED <<journal, child, record, mem, task, rec, kept>>
    BY <1>1 DEF ClientAcquireFailed, TypeOK
  <2>1. Unidentified(l)'
    BY <2>b, InUseReads, Shapes
  <2>2. InWorkspace(l)'
    BY <2>b, InUseReads, Shapes
  <2>3. GivenUp(l)'
    BY <2>b, InUseReads, Shapes
  <2>4. Orderly /\ OrderlyInv(l) => Abandoned(l)'
    BY <2>b, InUseReads, Shapes
  <2>5. Orderly /\ OrderlyInv(l) => Current(l)'
    BY <2>b, InUseReads, Shapes
  <2>6. Orderly /\ OrderlyInv(l) => Released(l)'
    BY <2>b, InUseReads, Shapes
  <2>7. Orderly /\ OrderlyInv(l) => Attached(l)'
    BY <2>b, InUseReads, Shapes
  <2>8. Orderly /\ OrderlyInv(l) => KeptInv(l)'
    BY <2>b, InUseReads, Shapes
  <2>9. Orderly /\ OrderlyInv(l) => ChildInv(l)'
    BY <2>b, InUseReads, Shapes
  <2> QED
    BY <2>1, <2>2, <2>3, <2>4, <2>5, <2>6, <2>7, <2>8, <2>9
<1>2. CASE ClientReleaseReturned(l) \/ ClientKilled(l)
  <2>b. /\ (client'[l] = "exited" /\ Idle(l, "owner")) \/ client'[l] = "killed"
        /\ UNCHANGED <<disk, mem, task, rec, kept>>
    BY <1>2 DEF ClientReleaseReturned, ClientKilled, TypeOK
  <2>1. Unidentified(l)'
    BY <2>b, InUseReads, Shapes
  <2>2. InWorkspace(l)'
    BY <2>b, InUseReads, Shapes
  <2>3. GivenUp(l)'
    BY <2>b, InUseReads, Shapes
  <2>4. Orderly /\ OrderlyInv(l) => Abandoned(l)'
    BY <2>b, InUseReads, Shapes
  <2>5. Orderly /\ OrderlyInv(l) => Current(l)'
    BY <2>b, InUseReads, Shapes
  <2>6. Orderly /\ OrderlyInv(l) => Released(l)'
    BY <2>b, InUseReads, Shapes
  <2>7. Orderly /\ OrderlyInv(l) => Attached(l)'
    BY <2>b, InUseReads, Shapes
  <2>8. Orderly /\ OrderlyInv(l) => KeptInv(l)'
    BY <2>b, InUseReads, Shapes
  <2>9. Orderly /\ OrderlyInv(l) => ChildInv(l)'
    BY <2>b, InUseReads, Shapes
  <2> QED
    BY <2>1, <2>2, <2>3, <2>4, <2>5, <2>6, <2>7, <2>8, <2>9
<1>3. CASE UnityStart(l) \/ UnityExit(l)
  BY <1>3, FrameMount DEF UnityStart, UnityExit, Same, RecSame
<1>4. CASE GraceElapses(l)
  <2>b. /\ HasJournal(l) /\ (Orderly => ~Alive(l) /\ Quiet(l))
        /\ UNCHANGED <<child, space, library, record, mem, task, client, kept>>
        /\ journal'[l] # None /\ journal'[l].ident = journal[l].ident
        /\ journal'[l].retained = journal[l].retained
    <3>1. journal'[l] = [journal[l] EXCEPT !.fresh = FALSE] /\ journal[l] \in Journals
      BY <1>4, <1>j DEF GraceElapses, TypeOK
    <3>2. [journal[l] EXCEPT !.fresh = FALSE] \in Journals
      BY <3>1 DEF Journals
    <3>3. /\ journal'[l] # None /\ journal'[l].ident = journal[l].ident
          /\ journal'[l].retained = journal[l].retained
      BY <3>1, <3>2, ConstantsAssumption DEF Journals
    <3> QED
      BY <1>4, <3>3, KindsOf DEF GraceElapses
  <2>c. /\ rec'.cur = rec.cur /\ rec'.pc = rec.pc /\ rec'.copy = rec.copy /\ rec'.ses = rec.ses
        /\ Orderly => rec'.todo = rec.todo
        /\ rec'.todo[l] # None => rec.todo[l] # None /\ rec'.todo[l].ident = rec.todo[l].ident
    BY <1>4, <1>r DEF GraceElapses
  <2>1. Unidentified(l)'
    BY <2>b, <2>c, InUseReads, Shapes
  <2>2. InWorkspace(l)'
    BY <2>b, <2>c, InUseReads, Shapes
  <2>3. GivenUp(l)'
    BY <2>b, <2>c, InUseReads, Shapes
  <2>4. Orderly /\ OrderlyInv(l) => Abandoned(l)'
    BY <2>b, <2>c, InUseReads, Shapes
  <2>5. Orderly /\ OrderlyInv(l) => Current(l)'
    BY <2>b, <2>c, InUseReads, Shapes
  <2>6. Orderly /\ OrderlyInv(l) => Released(l)'
    BY <2>b, <2>c, InUseReads, Shapes
  <2>7. Orderly /\ OrderlyInv(l) => Attached(l)'
    BY <2>b, <2>c, InUseReads, Shapes
  <2>8. Orderly /\ OrderlyInv(l) => KeptInv(l)'
    BY <2>b, <2>c, InUseReads, Shapes
  <2>9. Orderly /\ OrderlyInv(l) => ChildInv(l)'
    BY <2>b, <2>c, InUseReads, Shapes
  <2> QED
    BY <2>1, <2>2, <2>3, <2>4, <2>5, <2>6, <2>7, <2>8, <2>9
<1>5. CASE PassOutlastsGrace(l)
  <2>b. UNCHANGED <<disk, mem, task, client, kept>> /\ ~Orderly
    BY <1>5 DEF PassOutlastsGrace
  <2>c. /\ rec'.cur = rec.cur /\ rec'.pc = rec.pc /\ rec'.copy = rec.copy /\ rec'.ses = rec.ses
        /\ rec'.todo[l] # None => rec.todo[l] # None /\ rec'.todo[l].ident = rec.todo[l].ident
    BY <1>5, <1>r DEF PassOutlastsGrace
  <2>1. Unidentified(l)'
    BY <2>b, <2>c, InUseReads, Shapes
  <2>2. InWorkspace(l)'
    BY <2>b, <2>c, InUseReads, Shapes
  <2>3. GivenUp(l)'
    BY <2>b, <2>c, InUseReads, Shapes
  <2>4. Orderly /\ OrderlyInv(l) => Abandoned(l)'
    BY <2>b, <2>c, InUseReads, Shapes
  <2>5. Orderly /\ OrderlyInv(l) => Current(l)'
    BY <2>b, <2>c, InUseReads, Shapes
  <2>6. Orderly /\ OrderlyInv(l) => Released(l)'
    BY <2>b, <2>c, InUseReads, Shapes
  <2>7. Orderly /\ OrderlyInv(l) => Attached(l)'
    BY <2>b, <2>c, InUseReads, Shapes
  <2>8. Orderly /\ OrderlyInv(l) => KeptInv(l)'
    BY <2>b, <2>c, InUseReads, Shapes
  <2>9. Orderly /\ OrderlyInv(l) => ChildInv(l)'
    BY <2>b, <2>c, InUseReads, Shapes
  <2> QED
    BY <2>1, <2>2, <2>3, <2>4, <2>5, <2>6, <2>7, <2>8, <2>9
<1> QED
  BY <1>1, <1>2, <1>3, <1>4, <1>5, Zenon DEF Processes
-----------------------------------------------------------------------------
\* Nothing has been asked for.
LEMMA InitMount == Init => \A l \in Leases : MountInv(l) /\ OrderlyInv(l)
<1> SUFFICES ASSUME Init, NEW l \in Leases PROVE MountInv(l) /\ OrderlyInv(l)
  OBVIOUS
<1>1. /\ journal[l] = None /\ ~child[l] /\ space[l] = "plain" /\ ~record[l] /\ att[l] = 0
      /\ children[l] = 0 /\ client[l] = "prepared" /\ kept[l] = "no"
      /\ rec.cur # l /\ rec.todo[l] = None
  BY ConstantsAssumption DEF Init, IdleRec
<1>2. \A k \in Kinds : task[l][k].pc = "idle"
  BY DEF Init, IdleTask
<1>3. /\ task[l]["owner"].pc = "idle" /\ task[l]["beat"].pc = "idle"
      /\ task[l]["pid"].pc = "idle" /\ task[l]["tool"].pc = "idle"
  BY <1>2, KindsOf
<1>4. MountInv(l)
  BY <1>1, <1>3 DEF MountInv, Unidentified, Making, Identified, CopyIdentifies, InWorkspace,
     GivenUp,
     Idle, At
<1>5. OrderlyInv(l)
  BY <1>1, <1>3 DEF OrderlyInv, Abandoned, Current, Released, Attached, KeptInv, ChildInv, Doomed,
     Releasing,
     Idle, At
<1> QED
  BY <1>4, <1>5

\* Every step keeps what is said of every lease.
LEMMA NextMount ==
  ASSUME TypeOK, LeaseIsExclusive, [Next]_vars, NEW m \in Leases, MountInv(m)
  PROVE  MountInv(m)' /\ (Orderly /\ OrderlyInv(m) => OrderlyInv(m)')
<1>0. LeaseInv(m)
  BY DEF LeaseIsExclusive, LeaseInv
<1> DEFINE Kept == MountInv(m)' /\ (Orderly /\ OrderlyInv(m) => OrderlyInv(m)')
<1>1. ASSUME NEW l \in Leases,
             \/ Requests(l) \/ Owner(l) \/ Tool(l)
             \/ \E k \in {"beat", "pid"} : HeartbeatWrite(l, k)
             \/ RecoverEntry(l) \/ Processes(l)
      PROVE  Kept
  <2>1. CASE m = l
    BY <1>0, <1>1, <2>1, RequestsMount, OwnerMount, ToolMount, HeartbeatWriteMount, RecoverMount,
       ProcessesMount
  <2>2. CASE m # l
    <3>1. Same(m) /\ RecSame(m)
      BY <1>1, <2>2, RequestsFrame, OwnerFrame, ToolFrame, HeartbeatWriteFrame, RecoverFrame,
         ProcessesFrame
    <3> QED
      BY <3>1, FrameMount
  <2> QED
    BY <2>1, <2>2
<1>2. CASE RecoverTick \/ BrokerStart
  BY <1>2, StartPassMount DEF RecoverTick, BrokerStart, procs, hist
<1>3. CASE RecoverDone
  <2>1. rec'.cur # m /\ rec'.todo[m] = None
    BY <1>3, ConstantsAssumption DEF RecoverDone, IdleRec
  <2> QED
    BY <1>3, <2>1, FrameMount DEF RecoverDone, Same, RecSame, disk, mem, procs, hist
<1>4. CASE BrokerCrash
  BY <1>0, <1>4, LoseProcessMount DEF BrokerCrash, procs
<1>5. CASE Reboot
  <2>1. client'[m] = IF Alive(m) THEN "killed" ELSE client[m]
    BY <1>5 DEF Reboot
  <2>2. (client'[m] = client[m] \/ client'[m] = "killed") /\ ~Alive(m)'
    BY <2>1 DEF Alive
  <2>3. CASE journal[m] = None
    <3>1. journal'[m] = journal[m]
      BY <1>5, <2>3 DEF Reboot, HasJournal
    <3> QED
      BY <1>0, <1>5, <2>2, <3>1, LoseProcessMount DEF Reboot
  <2>4. CASE journal[m] # None
    <3>1. journal[m] \in Journals /\ journal'[m] = [journal[m] EXCEPT !.sameBoot = FALSE]
      BY <1>5, <2>4 DEF Reboot, HasJournal, TypeOK, MaybeJournals
    <3>2. [journal[m] EXCEPT !.sameBoot = FALSE] \in Journals
      BY <3>1 DEF Journals
    <3>3. /\ journal'[m] # None /\ journal'[m].ident = journal[m].ident
          /\ journal'[m].retained = journal[m].retained
      BY <3>1, <3>2, ConstantsAssumption DEF Journals
    <3> QED
      BY <1>0, <1>5, <2>2, <2>4, <3>3, LoseProcessMount DEF Reboot
  <2> QED
    BY <2>3, <2>4
<1>6. CASE UNCHANGED vars
  BY <1>6, FrameMount DEF vars, Same, RecSame, disk, mem, procs, hist
<1> QED
  BY <1>1, <1>2, <1>3, <1>4, <1>5, <1>6 DEF Next

\* In every reachable state a mount is safe, and under the assumptions of Orderly
\* nobody is at work on what is not theirs.
LEMMA MountStays == Spec => [](MountIsSafe /\ (Orderly => OrderIsKept))
<1>1. Init => TypeOK /\ LeaseIsExclusive /\ MountIsSafe /\ (Orderly => OrderIsKept)
  BY InitType, InitInv, InitMount DEF MountIsSafe, OrderIsKept
<1>2. TypeOK /\ LeaseIsExclusive /\ MountIsSafe /\ (Orderly => OrderIsKept) /\ [Next]_vars
        => (TypeOK /\ LeaseIsExclusive /\ MountIsSafe /\ (Orderly => OrderIsKept))'
  <2> SUFFICES ASSUME TypeOK, LeaseIsExclusive, MountIsSafe, Orderly => OrderIsKept, [Next]_vars
               PROVE  (TypeOK /\ LeaseIsExclusive /\ MountIsSafe /\ (Orderly => OrderIsKept))'
    OBVIOUS
  <2>1. TypeOK' /\ LeaseIsExclusive'
    BY NextType, NextInv
  <2>2. \A m \in Leases : MountInv(m)' /\ (Orderly /\ OrderlyInv(m) => OrderlyInv(m)')
    BY NextMount DEF MountIsSafe
  <2>3. MountIsSafe'
    BY <2>2 DEF MountIsSafe
  <2>4. (Orderly => OrderIsKept)'
    BY <2>2 DEF OrderIsKept
  <2> QED
    BY <2>1, <2>3, <2>4
<1> QED
  BY <1>1, <1>2, PTL DEF Spec

\* Whatever child is attached, by acquire, attach-retained, remove-retained or Recover,
\* has its journal, its file and its owned workspace, whatever faults, crashes and
\* timing: no attachment escapes recovery and GC.
THEOREM MountAccounted == Spec => []MountIsAccountedFor
<1>1. MountIsSafe => MountIsAccountedFor
  BY DEF MountIsSafe, MountInv, InWorkspace, MountIsAccountedFor
<1> QED
  BY <1>1, MountStays, PTL

\* When a heartbeat gap, a handler and a Recover pass all end within the grace period,
\* a child file never exists without the journal by which Recover and
\* ProtectedParentKeys know it.
THEOREM ChildJournaled ==
  ASSUME Orderly
  PROVE  Spec => []ChildIsJournaled
<1>1. MountIsSafe /\ (Orderly => OrderIsKept) => ChildIsJournaled
  BY DEF OrderIsKept, OrderlyInv, ChildInv, ChildIsJournaled
<1> QED
  BY <1>1, MountStays, PTL

\* Under the same timing, what release(retain) has answered OK for stays, with its
\* journal and its retained record, until its removal is asked for.
THEOREM RetainedStays ==
  ASSUME Orderly
  PROVE  Spec => []RetainedKept
<1>1. MountIsSafe /\ (Orderly => OrderIsKept) => RetainedKept
  BY DEF OrderIsKept, OrderlyInv, KeptInv, RetainedKept
<1> QED
  BY <1>1, MountStays, PTL
=============================================================================
