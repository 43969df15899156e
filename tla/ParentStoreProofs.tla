-------------------------- MODULE ParentStoreProofs --------------------------
(* Machine-checked proofs about ParentStore, for every set of clients and     *)
(* keys and every value of the bounds.                                        *)
EXTENDS ParentStore, TLAPS

-----------------------------------------------------------------------------
(* The inductive invariant *)

\* The steps of a commit that write the directory of the new parent.
Writing == {"c_rename", "c_meta", "c_complete"}

\* A commit that has closed its session.
Committing == {"c_verify", "c_check", "c_mkdir"} \cup Writing

\* A handler is at work only for a client that waits for it, or was killed.
TaskInv(c) ==
    /\ task[c] # "idle" => client[c] \in {"asking", "committing", "aborting", "acquiring", "killed"}
    /\ task[c] = "l_child" \/ client[c] = "leased" => lease[c] # "none"

\* The directory that a commit writes is there, is not yet valid and is nobody
\* else's.
WriterInv(c) ==
    task[c] \in Writing =>
        /\ parent[KeyOf[c]] # None
        /\ parent[KeyOf[c]].stage = CASE task[c] = "c_rename" -> "dir"
                                      [] task[c] = "c_meta" -> "vhdx"
                                      [] OTHER -> "meta"
        /\ \A d \in Clients : KeyOf[d] = KeyOf[c] /\ task[d] \in Writing => d = c

\* A collection takes what nobody leases but those who came after its survey,
\* and what it has begun to remove nobody writes.
GcInv ==
    /\ \A c \in Clients : KeyOf[c] \in gc.todo /\ lease[c] # "none" => c \in late
    /\ \A k \in Keys : gc.pc = "unlink" /\ gc.cur = k =>
          /\ parent[k] # None /\ parent[k].stage = "vhdx"
          /\ \A c \in Clients : KeyOf[c] = k => task[c] \notin Writing

StoreInv ==
    /\ TypeOK /\ GcInv /\ OneBuilder
    /\ \A c \in Clients : TaskInv(c) /\ WriterInv(c)

\* A VHDX lies in the directory of the key of its transaction.
PlaceInv ==
    \A k \in Keys : staging[k] # None => KeyOf[staging[k].tx] = k

\* What a client has reported as built is built.
BuiltInv ==
    \A k \in Keys : staging[k] # None =>
        LET c == staging[k].tx IN
        client[c] = "built" \/ task[c] \in Committing \cup {"c_detach"} => staging[k].content = "built"

\* A commit is alone with its VHDX: another client of its key can at most have
\* begun to build.
AloneInv ==
    \A c, d \in Clients : KeyOf[c] = KeyOf[d] /\ c # d /\ task[c] \in Committing =>
        /\ task[d] \notin Committing
        /\ session[d] = "open" => task[d] = "idle" /\ client[d] \in {"building", "killed"}

\* The staging VHDX of a commit that has verified it is its own, unless it is
\* mounted, and the VHDX it has moved is the one it has built.
OwnInv ==
    \A c \in Clients :
        LET k == KeyOf[c] IN
        /\ task[c] \in {"c_check", "c_mkdir", "c_rename"} =>
              staging[k] = None \/ staging[k].tx = c \/ IsOpen(k)
        /\ task[c] \in {"c_meta", "c_complete"} => parent[k].file = [tx |-> c, content |-> "built"]
        /\ task[c] = "c_complete" => parent[k].meta = c

PromptInv == PlaceInv /\ BuiltInv /\ AloneInv /\ OwnInv /\ PublishedIsVerified

-----------------------------------------------------------------------------
(* Type correctness *)

\* Moving the handler of a client, or answering it, is well typed.
LEMMA AnswerType ==
  ASSUME TypeOK, NEW c \in Clients, NEW state \in ClientStates, Answer(c, state)
  PROVE  task' \in [Clients -> Labels] /\ client' \in [Clients -> ClientStates]
  BY DEF TypeOK, Answer, Goto, Labels

\* Faults stay within their bound.
LEMMA FaultType ==
  ASSUME TypeOK, Fault \/ UNCHANGED faults PROVE faults' \in 0 .. MaxFaults
  BY ParentAssumption DEF TypeOK, Fault

\* The removals leave a pending directory or none.
LEMMA RemoveType ==
  ASSUME TypeOK, NEW k \in Keys, RemoveJson(k) \/ RemoveDir(k)
  PROVE  pending' \in [Keys -> Pendings \cup {None}]
<1>1. pending \in [Keys -> Pendings \cup {None}]
  BY DEF TypeOK
<1>2. pending[k] # None => [pending[k] EXCEPT !.tx = None] \in Pendings
  BY <1>1 DEF Pendings
<1> QED
  BY <1>1, <1>2 DEF RemoveJson, RemoveDir

\* Records that the actions write.
LEMMA RecordTypes ==
  /\ \A p \in Parents : /\ [p EXCEPT !.old = FALSE] \in Parents
                        /\ [p EXCEPT !.old = TRUE] \in Parents
                        /\ [p EXCEPT !.stage = "vhdx", !.meta = None] \in Parents
                        /\ [p EXCEPT !.stage = "valid"] \in Parents
  /\ \A p \in Parents, c \in Clients : [p EXCEPT !.stage = "meta", !.meta = c] \in Parents
  /\ \A p \in Parents, f \in Files : [p EXCEPT !.stage = "vhdx", !.file = f] \in Parents
  BY DEF Parents

\* The rollback of a commit is well typed.
LEMMA RollbackType ==
  ASSUME TypeOK, NEW c \in Clients, parent[KeyOf[c]] # None, Rollback(c)
  PROVE  /\ parent' \in [Keys -> Parents \cup {None}]
         /\ staging' \in [Keys -> Files \cup {None}]
         /\ task' \in [Clients -> Labels] /\ client' \in [Clients -> ClientStates]
<1>1. KeyOf[c] \in Keys
  BY ParentAssumption
<1>2. Answer(c, "failing") /\ "failing" \in ClientStates
  BY DEF Rollback, CommitFails, ClientStates
<1>3. parent[KeyOf[c]] \in Parents /\ parent[KeyOf[c]].file \in Files \cup {None}
  BY <1>1 DEF TypeOK, Parents
<1>4. /\ parent' \in [Keys -> Parents \cup {None}]
      /\ staging' \in [Keys -> Files \cup {None}]
  BY <1>1, <1>3, RecordTypes, ZenonT(60) DEF Rollback, TypeOK
<1> QED
  BY <1>2, <1>4, AnswerType

\* The steps of the handlers of the parent transaction are well typed.
LEMMA TransactionType ==
  ASSUME StoreInv, NEW c \in Clients,
         \/ BeginMkdir(c) \/ BeginJson(c) \/ BeginNative(c)
         \/ CommitDetach(c) \/ CommitVerify(c) \/ CommitCheck(c) \/ CommitMkdir(c) \/ CommitRename(c)
         \/ CommitMetadata(c) \/ CommitComplete(c) \/ CommitUnjson(c) \/ CommitRmdir(c)
         \/ AbortClose(c) \/ AbortCheck(c) \/ AbortUnjson(c) \/ AbortRmdir(c)
  PROVE  TypeOK'
<1> DEFINE k == KeyOf[c]
<1>k. k \in Keys /\ k = KeyOf[c]
  BY ParentAssumption
<1>t. TypeOK
  BY DEF StoreInv
<1>w. task[c] \in Writing => parent[k] # None /\ parent[k] \in Parents
  BY <1>k, <1>t DEF StoreInv, WriterInv, TypeOK
<1> HIDE DEF k
<1>a. /\ {"waiting", "failed", "building", "failing", "resolved"} \subseteq ClientStates
      /\ \A l \in Labels : Goto(c, l) => task' \in [Clients -> Labels]
  BY <1>t DEF ClientStates, TypeOK, Goto
<1> USE DEF disk, bounds, CommitFails
<1>1. CASE BeginMkdir(c)
  <2>1. task' \in [Clients -> Labels] /\ client' \in [Clients -> ClientStates]
    BY <1>1, <1>t, <1>a, AnswerType DEF BeginMkdir, TypeOK, Labels
  <2>2. pending' \in [Keys -> Pendings \cup {None}]
    <3>1. [tx |-> None, fresh |-> FALSE] \in Pendings
      BY DEF Pendings
    <3>2. pending' \in {pending, [pending EXCEPT ![k] = [tx |-> None, fresh |-> FALSE]]}
      BY <1>1, <1>k DEF BeginMkdir
    <3> QED
      BY <1>k, <1>t, <3>1, <3>2 DEF TypeOK
  <2> QED
    BY <1>1, <1>t, <2>1, <2>2 DEF BeginMkdir, TypeOK
<1>2. CASE BeginJson(c)
  <2>1. task' \in [Clients -> Labels] /\ client' \in [Clients -> ClientStates]
    BY <1>2, <1>t, <1>a, AnswerType DEF BeginJson, TypeOK, Labels
  <2>2. pending' \in [Keys -> Pendings \cup {None}]
    <3>1. [tx |-> c, fresh |-> TRUE] \in Pendings
      BY DEF Pendings
    <3>2. RemoveDir(k) \/ pending' = [pending EXCEPT ![k] = [tx |-> c, fresh |-> TRUE]]
      BY <1>2, <1>k DEF BeginJson
    <3> QED
      BY <1>k, <1>t, <3>1, <3>2, RemoveType DEF TypeOK
  <2>3. faults' \in 0 .. MaxFaults
    BY <1>2, <1>t, FaultType DEF BeginJson
  <2> QED
    BY <1>2, <1>t, <2>1, <2>2, <2>3 DEF BeginJson, TypeOK
<1>3. CASE BeginNative(c)
  <2>1. task' \in [Clients -> Labels] /\ client' \in [Clients -> ClientStates]
    BY <1>3, <1>t, <1>a, AnswerType DEF BeginNative, TypeOK, Labels
  <2>2. pending' \in [Keys -> Pendings \cup {None}] /\ staging' \in [Keys -> Files \cup {None}]
    <3>1. [tx |-> None, fresh |-> FALSE] \in Pendings /\ [tx |-> c, content |-> "partial"] \in Files
      BY DEF Pendings, Files
    <3>2. /\ pending' \in {pending, [pending EXCEPT ![k] = [tx |-> None, fresh |-> FALSE]]}
          /\ staging' \in {staging, [staging EXCEPT ![k] = [tx |-> c, content |-> "partial"]]}
      BY <1>3, <1>k, <1>t DEF BeginNative, TypeOK
    <3> QED
      BY <1>k, <1>t, <3>1, <3>2 DEF TypeOK
  <2>3. faults' \in 0 .. MaxFaults
    BY <1>3, <1>t, FaultType DEF BeginNative
  <2>4. session' \in [Clients -> {"none", "open", "closed"}]
    BY <1>3, <1>t DEF BeginNative, TypeOK
  <2> QED
    BY <1>3, <1>t, <2>1, <2>2, <2>3, <2>4 DEF BeginNative, TypeOK
<1>4. CASE CommitDetach(c)
  <2>1. task' \in [Clients -> Labels] /\ client' \in [Clients -> ClientStates]
    BY <1>4, <1>t, <1>a, AnswerType DEF CommitDetach, TypeOK, Labels
  <2>2. faults' \in 0 .. MaxFaults
    BY <1>4, <1>t, FaultType DEF CommitDetach
  <2>3. session' \in [Clients -> {"none", "open", "closed"}]
    BY <1>4, <1>t DEF CommitDetach, TypeOK
  <2> QED
    BY <1>4, <1>t, <2>1, <2>2, <2>3 DEF CommitDetach, TypeOK
<1>5. CASE CommitVerify(c) \/ CommitCheck(c) \/ AbortCheck(c)
  <2>1. task' \in [Clients -> Labels] /\ client' \in [Clients -> ClientStates]
    BY <1>5, <1>t, <1>a, AnswerType DEF CommitVerify, CommitCheck, AbortCheck, TypeOK, Labels
  <2>2. faults' \in 0 .. MaxFaults
    BY <1>5, <1>t, FaultType DEF CommitVerify, CommitCheck, AbortCheck
  <2> QED
    BY <1>5, <1>t, <2>1, <2>2 DEF CommitVerify, CommitCheck, AbortCheck, TypeOK
<1>6. CASE CommitMkdir(c)
  <2>1. task' \in [Clients -> Labels] /\ client' \in [Clients -> ClientStates]
    BY <1>6, <1>t, <1>a, AnswerType DEF CommitMkdir, TypeOK, Labels
  <2>2. parent' \in [Keys -> Parents \cup {None}]
    <3>1. [stage |-> "dir", file |-> None, meta |-> None, old |-> FALSE] \in Parents
      BY DEF Parents
    <3>2. parent' \in {parent, [parent EXCEPT ![k] = [stage |-> "dir", file |-> None,
                                                       meta |-> None, old |-> FALSE]]}
      BY <1>6, <1>k DEF CommitMkdir
    <3> QED
      BY <1>k, <1>t, <3>1, <3>2 DEF TypeOK
  <2> QED
    BY <1>6, <1>t, <2>1, <2>2 DEF CommitMkdir, TypeOK
<1>7. CASE CommitRename(c)
  <2>1. task' \in [Clients -> Labels] /\ client' \in [Clients -> ClientStates]
    BY <1>7, <1>t, <1>a, AnswerType DEF CommitRename, TypeOK, Labels
  <2>2. parent' \in [Keys -> Parents \cup {None}] /\ staging' \in [Keys -> Files \cup {None}]
    <3>1. parent[k] \in Parents
      BY <1>7, <1>w DEF CommitRename, Writing
    <3>2. \/ UNCHANGED <<parent, staging>>
          \/ /\ staging[k] # None
             /\ parent' = [parent EXCEPT ![k] = [parent[k] EXCEPT !.stage = "vhdx", !.file = staging[k]]]
             /\ staging' = [staging EXCEPT ![k] = None]
      BY <1>7, <1>k, <1>t DEF CommitRename, TypeOK
    <3>3. staging[k] # None => [parent[k] EXCEPT !.stage = "vhdx", !.file = staging[k]] \in Parents
      BY <1>k, <1>t, <3>1 DEF TypeOK, Parents
    <3> QED
      BY <1>k, <1>t, <3>2, <3>3 DEF TypeOK
  <2>3. faults' \in 0 .. MaxFaults
    BY <1>7, <1>t, FaultType DEF CommitRename
  <2> QED
    BY <1>7, <1>t, <2>1, <2>2, <2>3 DEF CommitRename, TypeOK
<1>8. CASE CommitMetadata(c) \/ CommitComplete(c)
  <2>1. task[c] \in Writing
    BY <1>8 DEF CommitMetadata, CommitComplete, Writing
  <2>2. /\ task' \in [Clients -> Labels] /\ client' \in [Clients -> ClientStates]
        /\ parent' \in [Keys -> Parents \cup {None}] /\ staging' \in [Keys -> Files \cup {None}]
    <3>1. CASE Rollback(c)
      BY <1>k, <1>t, <1>w, <2>1, <3>1, RollbackType
    <3>2. CASE ~Rollback(c)
      <4>1. /\ \/ parent' = [parent EXCEPT ![k] = [parent[k] EXCEPT !.stage = "meta", !.meta = c]]
               \/ parent' = [parent EXCEPT ![k] = [parent[k] EXCEPT !.stage = "valid"]]
            /\ Goto(c, "c_complete") \/ Goto(c, "c_unjson")
            /\ UNCHANGED <<staging, client>>
        BY <1>k, <1>t, <1>8, <3>2 DEF CommitMetadata, CommitComplete, TypeOK
      <4>2. task' \in [Clients -> Labels]
        BY <1>a, <4>1 DEF Labels
      <4> QED
        <5>1. /\ [parent[k] EXCEPT !.stage = "meta", !.meta = c] \in Parents
              /\ [parent[k] EXCEPT !.stage = "valid"] \in Parents
          BY <1>w, <2>1, RecordTypes
        <5>2. parent' \in [Keys -> Parents \cup {None}]
          BY <1>k, <1>t, <4>1, <5>1 DEF TypeOK
        <5> QED
          BY <1>t, <4>1, <4>2, <5>2 DEF TypeOK
    <3> QED
      BY <3>1, <3>2
  <2>3. faults' \in 0 .. MaxFaults
    BY <1>8, <1>t, FaultType DEF CommitMetadata, CommitComplete
  <2> QED
    BY <1>8, <1>t, <2>2, <2>3 DEF CommitMetadata, CommitComplete, TypeOK
<1>9. CASE CommitUnjson(c) \/ CommitRmdir(c) \/ AbortUnjson(c) \/ AbortRmdir(c)
  <2>1. task' \in [Clients -> Labels] /\ client' \in [Clients -> ClientStates]
    BY <1>9, <1>t, <1>a, AnswerType DEF CommitUnjson, CommitRmdir, AbortUnjson, AbortRmdir, TypeOK, Labels
  <2>2. pending' \in [Keys -> Pendings \cup {None}]
    BY <1>9, <1>k, <1>t, RemoveType DEF CommitUnjson, CommitRmdir, AbortUnjson, AbortRmdir, TypeOK
  <2>3. session' \in [Clients -> {"none", "open", "closed"}]
    BY <1>9, <1>t DEF CommitUnjson, CommitRmdir, AbortUnjson, AbortRmdir, TypeOK
  <2> QED
    BY <1>9, <1>t, <2>1, <2>2, <2>3 DEF CommitUnjson, CommitRmdir, AbortUnjson, AbortRmdir, TypeOK
<1>10. CASE AbortClose(c)
  <2>1. task' \in [Clients -> Labels] /\ client' \in [Clients -> ClientStates]
    BY <1>10, <1>t, <1>a, AnswerType DEF AbortClose, TypeOK, Labels
  <2>2. faults' \in 0 .. MaxFaults
    BY <1>10, <1>t, FaultType DEF AbortClose
  <2>3. session' \in [Clients -> {"none", "open", "closed"}] /\ staging' \in [Keys -> Files \cup {None}]
    BY <1>10, <1>t DEF AbortClose, TypeOK
  <2> QED
    BY <1>10, <1>t, <2>1, <2>2, <2>3 DEF AbortClose, TypeOK
<1> QED
  BY <1>1, <1>2, <1>3, <1>4, <1>5, <1>6, <1>7, <1>8, <1>9, <1>10

\* The steps of testplay, and of its lease, are well typed.
LEMMA ClientType ==
  ASSUME TypeOK, NEW c \in Clients,
         Client(c) \/ AcquireJournal(c) \/ AcquireChild(c) \/ RecoverLease(c) \/ ClientKilled(c)
  PROVE  TypeOK'
<1> DEFINE k == KeyOf[c]
<1>k. k \in Keys /\ k = KeyOf[c]
  BY ParentAssumption
<1> HIDE DEF k
<1>a. /\ {"resolved", "failed", "failing", "built", "asking", "committing", "aborting", "acquiring",
           "leased", "done", "killed"} \subseteq ClientStates
      /\ \A l \in Labels : Goto(c, l) => task' \in [Clients -> Labels]
      /\ {"b_mkdir", "c_detach", "x_close", "l_journal", "l_child"} \subseteq Labels
      /\ \A s \in ClientStates : client' = [client EXCEPT ![c] = s] => client' \in [Clients -> ClientStates]
  BY DEF ClientStates, TypeOK, Goto, Labels
<1>p. ASSUME parent[k] # None PROVE [parent EXCEPT ![k].old = FALSE] \in [Keys -> Parents \cup {None}]
  <2>1. parent[k] \in Parents /\ parent \in [Keys -> Parents \cup {None}]
    BY <1>k, <1>p DEF TypeOK
  <2>2. [parent EXCEPT ![k].old = FALSE] = [parent EXCEPT ![k] = [parent[k] EXCEPT !.old = FALSE]]
    BY <1>k, <2>1
  <2> QED
    BY <1>k, <2>1, <2>2, RecordTypes
<1> USE DEF disk, bounds
<1>1. CASE BeginParent(c)
  <2>1. task' \in [Clients -> Labels] /\ client' \in [Clients -> ClientStates]
    BY <1>1, <1>a, AnswerType DEF BeginParent
  <2>2. parent' \in [Keys -> Parents \cup {None}]
    BY <1>1, <1>k, <1>p DEF BeginParent, Touch, Verified, Valid, TypeOK
  <2> QED
    BY <1>1, <2>1, <2>2 DEF BeginParent, TypeOK
<1>2. CASE Build(c)
  <2>1. client' \in [Clients -> ClientStates]
    BY <1>2, <1>a DEF Build
  <2>2. staging' \in [Keys -> Files \cup {None}]
    <3>1. \/ UNCHANGED staging
          \/ /\ staging[k] \in Files
             /\ staging' = [staging EXCEPT ![k] = [staging[k] EXCEPT !.content = "built"]]
      BY <1>2, <1>k DEF Build, TypeOK
    <3>2. staging[k] \in Files => [staging[k] EXCEPT !.content = "built"] \in Files
      BY DEF Files
    <3> QED
      BY <1>k, <3>1, <3>2 DEF TypeOK
  <2> QED
    BY <1>2, <2>1, <2>2 DEF Build, TypeOK
<1>3. CASE CommitParent(c) \/ AbortParent(c) \/ ClientRefused(c) \/ ClientKilled(c)
  <2>1. task' \in [Clients -> Labels] /\ client' \in [Clients -> ClientStates]
    BY <1>3, <1>a DEF CommitParent, AbortParent, ClientRefused, ClientKilled, TypeOK
  <2>2. kills' \in 0 .. MaxKills
    BY <1>3, ParentAssumption DEF CommitParent, AbortParent, ClientRefused, ClientKilled, TypeOK
  <2> QED
    BY <1>3, <2>1, <2>2 DEF CommitParent, AbortParent, ClientRefused, ClientKilled, TypeOK
<1>4. CASE Acquire(c)
  <2>1. task' \in [Clients -> Labels] /\ client' \in [Clients -> ClientStates]
    BY <1>4, <1>a, AnswerType DEF Acquire
  <2>2. parent' \in [Keys -> Parents \cup {None}]
    BY <1>4, <1>k, <1>p DEF Acquire, Touch, Verified, Valid, TypeOK
  <2>3. faults' \in 0 .. MaxFaults
    BY <1>4, FaultType DEF Acquire
  <2> QED
    BY <1>4, <2>1, <2>2, <2>3 DEF Acquire, TypeOK
<1>5. CASE AcquireJournal(c) \/ AcquireChild(c)
  <2>1. task' \in [Clients -> Labels] /\ client' \in [Clients -> ClientStates]
    BY <1>5, <1>a, AnswerType DEF AcquireJournal, AcquireChild, TypeOK
  <2>2. lease' \in [Clients -> {"none", "journaled", "attached", "retained"}] /\ late' \in SUBSET Clients
    BY <1>5 DEF AcquireJournal, AcquireChild, TypeOK
  <2>3. faults' \in 0 .. MaxFaults
    BY <1>5, FaultType DEF AcquireJournal, AcquireChild
  <2> QED
    BY <1>5, <2>1, <2>2, <2>3 DEF AcquireJournal, AcquireChild, TypeOK
<1>6. CASE Release(c) \/ RecoverLease(c)
  <2>1. client' \in [Clients -> ClientStates]
    BY <1>6, <1>a DEF Release, RecoverLease, TypeOK
  <2> QED
    BY <1>6, <2>1 DEF Release, RecoverLease, TypeOK
<1> QED
  BY <1>1, <1>2, <1>3, <1>4, <1>5, <1>6 DEF Client

\* The steps of the collection, of the Recover pass, of time and of the
\* processes are well typed.
LEMMA BackgroundType ==
  ASSUME StoreInv,
         \/ GcList \/ Collect \/ RecoverTick \/ RecoverEntry
         \/ \E k \in Keys : GraceElapses(k) \/ ParentAges(k)
         \/ BrokerCrash \/ Reboot \/ BrokerStart
  PROVE  TypeOK'
<1>t. TypeOK
  BY DEF StoreInv
<1> USE DEF disk, bounds
<1>1. CASE GcList \/ GcStop
  BY <1>1, <1>t DEF GcList, GcStop, GcDone, TypeOK
<1>2. ASSUME NEW k \in Keys, GcRemove(k) \/ GcUnlink(k) PROVE TypeOK'
  <2>1. parent' \in [Keys -> Parents \cup {None}]
    <3>1. \/ parent' \in {parent, [parent EXCEPT ![k] = None]}
          \/ /\ parent[k] \in Parents
             /\ parent' = [parent EXCEPT ![k] = [parent[k] EXCEPT !.stage = "vhdx", !.meta = None]]
      BY <1>2, <1>t DEF GcRemove, GcUnlink, Valid, TypeOK
    <3>2. parent \in [Keys -> Parents \cup {None}]
      BY <1>t DEF TypeOK
    <3>3. CASE parent' \in {parent, [parent EXCEPT ![k] = None]}
      BY <3>2, <3>3
    <3>4. CASE /\ parent[k] \in Parents
               /\ parent' = [parent EXCEPT ![k] = [parent[k] EXCEPT !.stage = "vhdx", !.meta = None]]
      <4>1. [parent[k] EXCEPT !.stage = "vhdx", !.meta = None] \in Parents
        BY <3>4, RecordTypes, Zenon
      <4> QED
        BY <3>2, <3>4, <4>1
    <3> QED
      BY <3>1, <3>3, <3>4
  <2>2. gc' \in [pc: {"idle", "remove", "unlink"}, cur: Keys \cup {None}, todo: SUBSET Keys]
    <3>1. gc' \in {[pc |-> "idle", cur |-> None, todo |-> {}],
                   [pc |-> "unlink", cur |-> k, todo |-> gc.todo \ {k}],
                   [pc |-> "remove", cur |-> None, todo |-> gc.todo]}
      BY <1>2, <1>t DEF GcRemove, GcUnlink, GcDone, TypeOK
    <3>2. gc.todo \in SUBSET Keys
      BY <1>t DEF TypeOK
    <3> QED
      BY <3>1, <3>2
  <2> QED
    BY <1>2, <1>t, <2>1, <2>2 DEF GcRemove, GcUnlink, TypeOK
<1>3. CASE RecoverTick \/ BrokerStart \/ RecoverDone
  BY <1>3, <1>t DEF RecoverTick, BrokerStart, RecoverDone, StartPass, TypeOK
<1>4. ASSUME NEW k \in Keys, RecoverPick(k) PROVE TypeOK'
  BY <1>4, <1>t DEF RecoverPick, TypeOK
<1>5. ASSUME NEW k \in Keys, RecoverUnjson(k) \/ RecoverRmdir(k) PROVE TypeOK'
  <2>1. pending' \in [Keys -> Pendings \cup {None}]
    BY <1>5, <1>t, RemoveType DEF RecoverUnjson, RecoverRmdir, TypeOK
  <2> QED
    <3>1. /\ rec' \in {[pc |-> "idle", cur |-> None, todo |-> {}],
                       [pc |-> "rmdir", cur |-> rec.cur, todo |-> rec.todo],
                       [pc |-> "pick", cur |-> None, todo |-> rec.todo]}
          /\ up' \in {up, "down"}
      BY <1>5, <1>t DEF RecoverUnjson, RecoverRmdir, PassAborts, NextEntry, TypeOK
    <3>2. rec' \in [pc: {"idle", "pick", "unjson", "rmdir", "rename"},
                    cur: Keys \cup {None}, todo: SUBSET Keys]
      BY <1>t, <3>1 DEF TypeOK
    <3> QED
      BY <1>5, <1>t, <2>1, <3>1, <3>2 DEF RecoverUnjson, RecoverRmdir, TypeOK
<1>6. ASSUME NEW k \in Keys, RecoverRename(k) PROVE TypeOK'
  <2>1. quarantine' \in SUBSET Clients
    BY <1>6, <1>t DEF RecoverRename, TypeOK, Pendings
  <2> QED
    BY <1>6, <1>t, <2>1 DEF RecoverRename, NextEntry, TypeOK
<1>7. ASSUME NEW k \in Keys, GraceElapses(k) \/ ParentAges(k) PROVE TypeOK'
  <2>1. \/ /\ pending[k] \in Pendings /\ UNCHANGED parent
           /\ pending' = [pending EXCEPT ![k] = [pending[k] EXCEPT !.fresh = FALSE]]
        \/ /\ parent[k] \in Parents /\ UNCHANGED pending
           /\ parent' = [parent EXCEPT ![k] = [parent[k] EXCEPT !.old = TRUE]]
    BY <1>7, <1>t DEF GraceElapses, ParentAges, Valid, TypeOK
  <2>2. pending[k] \in Pendings => [pending[k] EXCEPT !.fresh = FALSE] \in Pendings
    BY DEF Pendings
  <2>3. /\ pending' \in [Keys -> Pendings \cup {None}]
        /\ parent' \in [Keys -> Parents \cup {None}]
    BY <1>t, <2>1, <2>2, RecordTypes, ZenonT(60) DEF TypeOK
  <2> QED
    BY <1>7, <1>t, <2>3 DEF GraceElapses, ParentAges, TypeOK
<1>8. CASE BrokerCrash \/ Reboot
  <2>1. client' \in [Clients -> ClientStates]
    BY <1>8, <1>t DEF BrokerCrash, Reboot, Interrupted, ClientStates, TypeOK
  <2>2. outages' \in 0 .. MaxOutages
    BY <1>8, <1>t, ParentAssumption DEF BrokerCrash, Reboot, LoseProcess, TypeOK
  <2>3. task' \in [Clients -> Labels]
    BY <1>8 DEF BrokerCrash, Reboot, LoseProcess, Labels
  <2> QED
    BY <1>8, <1>t, <2>1, <2>2, <2>3 DEF BrokerCrash, Reboot, LoseProcess, TypeOK
<1> QED
  BY <1>1, <1>2, <1>3, <1>4, <1>5, <1>6, <1>7, <1>8 DEF Collect, RecoverEntry

\* Every step is well typed.
LEMMA StepType == StoreInv /\ [Next]_vars => TypeOK'
<1> SUFFICES ASSUME StoreInv, [Next]_vars PROVE TypeOK'
  OBVIOUS
<1>1. CASE UNCHANGED vars
  BY <1>1 DEF vars, disk, bounds, StoreInv, TypeOK
<1>2. ASSUME NEW c \in Clients, Handler(c) \/ Client(c) \/ RecoverLease(c) \/ ClientKilled(c)
      PROVE  TypeOK'
  BY <1>2, TransactionType, ClientType DEF Handler, StoreInv
<1> QED
  BY <1>1, <1>2, BackgroundType DEF Next

-----------------------------------------------------------------------------
(* What the steps change *)

\* The steps that change the file at the staging path.
StagingStep ==
    \/ \E c \in Clients : \/ BeginNative(c) \/ Build(c) \/ CommitRename(c)
                          \/ CommitMetadata(c) \/ CommitComplete(c) \/ AbortClose(c)
    \/ \E k \in Keys : RecoverRename(k)

\* The steps that change a pending directory.
PendingStep ==
    \/ \E c \in Clients : \/ BeginMkdir(c) \/ BeginJson(c) \/ BeginNative(c)
                          \/ CommitUnjson(c) \/ CommitRmdir(c) \/ AbortUnjson(c) \/ AbortRmdir(c)
    \/ \E k \in Keys : RecoverUnjson(k) \/ RecoverRmdir(k) \/ RecoverRename(k) \/ GraceElapses(k)

\* The steps that change a session.
SessionStep ==
    \/ \E c \in Clients : \/ BeginNative(c) \/ CommitDetach(c) \/ AbortClose(c)
                          \/ CommitRmdir(c) \/ AbortRmdir(c)
    \/ BrokerCrash \/ Reboot

\* The steps that change the directory of a parent.
ParentStep ==
    \/ \E c \in Clients : \/ BeginParent(c) \/ Acquire(c) \/ CommitMkdir(c) \/ CommitRename(c)
                          \/ CommitMetadata(c) \/ CommitComplete(c)
    \/ \E k \in Keys : GcRemove(k) \/ GcUnlink(k) \/ ParentAges(k)

\* The steps that change a lease or the history of leases.
LeaseStep ==
    \/ \E c \in Clients : AcquireJournal(c) \/ AcquireChild(c) \/ Release(c) \/ RecoverLease(c)
    \/ GcList \/ BrokerCrash \/ Reboot

\* The steps of the collection.
GcStep == GcList \/ GcStop \/ (\E k \in Keys : GcRemove(k) \/ GcUnlink(k)) \/ BrokerCrash \/ Reboot

\* Every other step leaves the variable alone.
LEMMA Footprint ==
  ASSUME [Next]_vars
  PROVE  /\ StagingStep \/ UNCHANGED staging
         /\ PendingStep \/ UNCHANGED pending
         /\ SessionStep \/ UNCHANGED session
         /\ ParentStep \/ UNCHANGED parent
         /\ LeaseStep \/ UNCHANGED <<lease, late>>
         /\ GcStep \/ UNCHANGED gc
<1> DEFINE Goal == /\ StagingStep \/ UNCHANGED staging
                   /\ PendingStep \/ UNCHANGED pending
                   /\ SessionStep \/ UNCHANGED session
                   /\ ParentStep \/ UNCHANGED parent
                   /\ LeaseStep \/ UNCHANGED <<lease, late>>
                   /\ GcStep \/ UNCHANGED gc
<1> USE DEF disk, bounds, vars, StagingStep, PendingStep, SessionStep, ParentStep, LeaseStep, GcStep
<1>1. ASSUME NEW c \in Clients, Handler(c) PROVE Goal
  <2>1. CASE BeginMkdir(c) \/ BeginJson(c) \/ BeginNative(c)
    BY <2>1 DEF BeginMkdir, BeginJson, BeginNative
  <2>2. CASE CommitDetach(c) \/ CommitVerify(c) \/ CommitCheck(c) \/ CommitMkdir(c) \/ CommitRename(c)
    BY <2>2 DEF CommitDetach, CommitVerify, CommitCheck, CommitMkdir, CommitRename
  <2>3. CASE CommitMetadata(c) \/ CommitComplete(c) \/ CommitUnjson(c) \/ CommitRmdir(c)
    BY <2>3 DEF CommitMetadata, CommitComplete, CommitUnjson, CommitRmdir
  <2>4. CASE AbortClose(c) \/ AbortCheck(c) \/ AbortUnjson(c) \/ AbortRmdir(c)
    BY <2>4 DEF AbortClose, AbortCheck, AbortUnjson, AbortRmdir
  <2>5. CASE AcquireJournal(c) \/ AcquireChild(c)
    BY <2>5 DEF AcquireJournal, AcquireChild
  <2> QED
    BY <1>1, <2>1, <2>2, <2>3, <2>4, <2>5 DEF Handler
<1>2. ASSUME NEW c \in Clients, Client(c) \/ RecoverLease(c) \/ ClientKilled(c) PROVE Goal
  BY <1>2 DEF Client, BeginParent, Build, CommitParent, AbortParent, Acquire, Release, ClientRefused,
     RecoverLease, ClientKilled
<1>3. CASE GcList \/ Collect
  BY <1>3 DEF GcList, Collect, GcStop, GcRemove, GcUnlink
<1>4. CASE RecoverTick \/ RecoverEntry
  BY <1>4 DEF RecoverTick, RecoverEntry, RecoverDone, RecoverPick, RecoverUnjson, RecoverRmdir, RecoverRename
<1>5. CASE (\E k \in Keys : GraceElapses(k) \/ ParentAges(k)) \/ BrokerCrash \/ Reboot \/ BrokerStart
  BY <1>5 DEF GraceElapses, ParentAges, BrokerCrash, Reboot, LoseProcess, BrokerStart
<1>6. CASE UNCHANGED vars
  BY <1>6
<1> QED
  BY <1>1, <1>2, <1>3, <1>4, <1>5, <1>6 DEF Next

\* A step of one client leaves the others alone.
LEMMA OthersAlone ==
  ASSUME TypeOK, NEW c \in Clients, NEW d \in Clients, c # d,
         Handler(d) \/ Client(d) \/ RecoverLease(d) \/ ClientKilled(d)
  PROVE  task'[c] = task[c] /\ client'[c] = client[c] /\ lease'[c] = lease[c] /\ session'[c] = session[c]
<1> DEFINE Goal == /\ task'[c] = task[c] /\ client'[c] = client[c]
                   /\ lease'[c] = lease[c] /\ session'[c] = session[c]
<1> USE DEF disk, bounds, TypeOK, Goto, Answer, CommitFails, Rollback
<1>1. CASE BeginMkdir(d) \/ BeginJson(d) \/ BeginNative(d) \/ AcquireJournal(d) \/ AcquireChild(d)
  BY <1>1 DEF BeginMkdir, BeginJson, BeginNative, AcquireJournal, AcquireChild
<1>2. CASE CommitDetach(d) \/ CommitVerify(d) \/ CommitCheck(d) \/ CommitMkdir(d) \/ CommitRename(d)
  BY <1>2 DEF CommitDetach, CommitVerify, CommitCheck, CommitMkdir, CommitRename
<1>3. CASE CommitMetadata(d) \/ CommitComplete(d) \/ CommitUnjson(d) \/ CommitRmdir(d)
  BY <1>3 DEF CommitMetadata, CommitComplete, CommitUnjson, CommitRmdir
<1>4. CASE AbortClose(d) \/ AbortCheck(d) \/ AbortUnjson(d) \/ AbortRmdir(d)
  BY <1>4 DEF AbortClose, AbortCheck, AbortUnjson, AbortRmdir
<1>5. CASE BeginParent(d) \/ Build(d) \/ CommitParent(d) \/ AbortParent(d)
  BY <1>5 DEF BeginParent, Build, CommitParent, AbortParent
<1>6. CASE Acquire(d) \/ Release(d) \/ ClientRefused(d) \/ RecoverLease(d) \/ ClientKilled(d)
  BY <1>6 DEF Acquire, Release, ClientRefused, RecoverLease, ClientKilled
<1> QED
  BY <1>1, <1>2, <1>3, <1>4, <1>5, <1>6 DEF Handler, Client

\* What the collection, the Recover pass and time leave alone.
LEMMA BackgroundAlone ==
  ASSUME \/ GcList \/ Collect \/ RecoverTick \/ RecoverEntry \/ BrokerStart
         \/ \E k \in Keys : GraceElapses(k) \/ ParentAges(k)
         \/ UNCHANGED vars
  PROVE  UNCHANGED <<task, client, lease, session>>
<1> USE DEF vars, disk, bounds
<1>1. CASE GcList \/ Collect \/ UNCHANGED vars
  BY <1>1 DEF GcList, Collect, GcStop, GcRemove, GcUnlink
<1>2. CASE RecoverTick \/ RecoverEntry
  BY <1>2 DEF RecoverTick, RecoverEntry, RecoverDone, RecoverPick, RecoverUnjson, RecoverRmdir, RecoverRename
<1>3. CASE (\E k \in Keys : GraceElapses(k) \/ ParentAges(k)) \/ BrokerStart
  BY <1>3 DEF GraceElapses, ParentAges, BrokerStart
<1> QED
  BY <1>1, <1>2, <1>3

\* What the end of the broker process leaves of its memory.
LEMMA ProcessLost ==
  ASSUME TypeOK, BrokerCrash \/ Reboot, NEW c \in Clients
  PROVE  /\ task'[c] = "idle" /\ session'[c] = "none"
         /\ lease'[c] = "none" <=> lease[c] = "none"
         /\ client'[c] \in {"built", "leased"} => client'[c] = client[c]
         /\ gc' = [pc |-> "idle", cur |-> None, todo |-> {}]
         /\ UNCHANGED <<pending, staging, parent, late>>
  BY DEF BrokerCrash, Reboot, LoseProcess, Interrupted, TypeOK

-----------------------------------------------------------------------------
(* The steps keep the invariant. *)

\* TaskInv is kept.
LEMMA TaskStep ==
  ASSUME StoreInv, [Next]_vars, NEW c \in Clients
  PROVE  TaskInv(c)'
<1> USE DEF StoreInv, TaskInv, disk, bounds
<1>1. CASE Handler(c)
  <2> USE DEF TypeOK, Goto, Answer, CommitFails, Rollback, Alive
  <2>1. CASE BeginMkdir(c) \/ BeginJson(c) \/ BeginNative(c)
    BY <2>1 DEF BeginMkdir, BeginJson, BeginNative
  <2>2. CASE CommitDetach(c) \/ CommitVerify(c) \/ CommitCheck(c) \/ CommitMkdir(c) \/ CommitRename(c)
    BY <2>2 DEF CommitDetach, CommitVerify, CommitCheck, CommitMkdir, CommitRename
  <2>3. CASE CommitMetadata(c) \/ CommitComplete(c) \/ CommitUnjson(c) \/ CommitRmdir(c)
    BY <2>3 DEF CommitMetadata, CommitComplete, CommitUnjson, CommitRmdir
  <2>4. CASE AbortClose(c) \/ AbortCheck(c) \/ AbortUnjson(c) \/ AbortRmdir(c)
    BY <2>4 DEF AbortClose, AbortCheck, AbortUnjson, AbortRmdir
  <2>5. CASE AcquireJournal(c) \/ AcquireChild(c)
    BY <2>5 DEF AcquireJournal, AcquireChild
  <2> QED
    BY <1>1, <2>1, <2>2, <2>3, <2>4, <2>5 DEF Handler
<1>2. CASE Client(c) \/ RecoverLease(c) \/ ClientKilled(c)
  <2> USE DEF TypeOK, Goto, Answer, Alive
  <2>1. CASE BeginParent(c) \/ Build(c) \/ CommitParent(c) \/ AbortParent(c)
    BY <2>1 DEF BeginParent, Build, CommitParent, AbortParent
  <2>2. CASE Acquire(c) \/ Release(c) \/ ClientRefused(c)
    BY <2>2 DEF Acquire, Release, ClientRefused
  <2>3. CASE RecoverLease(c) \/ ClientKilled(c)
    BY <2>3 DEF RecoverLease, ClientKilled
  <2> QED
    BY <1>2, <2>1, <2>2, <2>3 DEF Client
<1>3. ASSUME NEW d \in Clients, d # c, Handler(d) \/ Client(d) \/ RecoverLease(d) \/ ClientKilled(d)
      PROVE  TaskInv(c)'
  BY <1>3, OthersAlone
<1>4. CASE BrokerCrash \/ Reboot
  BY <1>4, ProcessLost
<1>5. CASE UNCHANGED <<task, client, lease>>
  BY <1>5
<1> QED
  BY <1>1, <1>2, <1>3, <1>4, <1>5, BackgroundAlone DEF Next

\* A parent's directory, but for when it was last used.
SameParent(p, q) == p # None /\ q # None /\ q.stage = p.stage /\ q.file = p.file /\ q.meta = p.meta

\* Only its own handler touches the directory that a commit writes.
LEMMA WriterAlone ==
  ASSUME StoreInv, [Next]_vars, NEW c \in Clients, task[c] \in Writing,
         ~(CommitRename(c) \/ CommitMetadata(c) \/ CommitComplete(c))
  PROVE  SameParent(parent[KeyOf[c]], parent'[KeyOf[c]])
<1> DEFINE k == KeyOf[c]
<1>k. /\ k \in Keys /\ parent[k] # None /\ parent[k] \in Parents /\ parent[k].stage # "valid"
      /\ parent \in [Keys -> Parents \cup {None}] /\ \A d \in Clients : KeyOf[d] \in Keys
      /\ k = KeyOf[c]
  BY ParentAssumption DEF StoreInv, WriterInv, Writing, TypeOK
<1> HIDE DEF k
<1>u. \A d \in Clients : KeyOf[d] = k /\ task[d] \in Writing => d = c
  BY <1>k DEF StoreInv, WriterInv
<1>s. UNCHANGED parent => SameParent(parent[k], parent'[k])
  BY <1>k DEF SameParent
<1>1. ASSUME NEW d \in Clients, BeginParent(d) \/ Acquire(d) PROVE SameParent(parent[k], parent'[k])
  BY <1>1, <1>k, <1>s DEF BeginParent, Acquire, Touch, Verified, Valid, Parents, SameParent
<1>2. ASSUME NEW d \in Clients, CommitMkdir(d) PROVE SameParent(parent[k], parent'[k])
  BY <1>2, <1>k, <1>s DEF CommitMkdir, Missing, SameParent
<1>3. ASSUME NEW d \in Clients, CommitRename(d) \/ CommitMetadata(d) \/ CommitComplete(d)
      PROVE  SameParent(parent[k], parent'[k])
  <2>1. task[d] \in Writing /\ KeyOf[d] # k
    BY <1>3, <1>u DEF CommitRename, CommitMetadata, CommitComplete, Writing
  <2>2. parent'[k] = parent[k]
    BY <1>3, <1>k, <2>1 DEF CommitRename, CommitMetadata, CommitComplete, Rollback
  <2> QED
    BY <1>k, <2>2 DEF SameParent
<1>4. ASSUME NEW j \in Keys, GcRemove(j) \/ GcUnlink(j) \/ ParentAges(j)
      PROVE  SameParent(parent[k], parent'[k])
  <2>1. CASE GcRemove(j) \/ ParentAges(j)
    BY <1>k, <1>s, <2>1 DEF GcRemove, ParentAges, Valid, SameParent
  <2>2. CASE GcUnlink(j)
    <3>1. j # k
      BY <1>k, <2>2 DEF GcUnlink, StoreInv, GcInv
    <3> QED
      BY <1>k, <1>s, <2>2, <3>1 DEF GcUnlink, SameParent
  <2> QED
    BY <1>4, <2>1, <2>2
<1> QED
  BY <1>k, <1>s, <1>1, <1>2, <1>3, <1>4, Footprint DEF ParentStep

\* A handler begins to write where there is no parent.
LEMMA WriterEnters ==
  ASSUME TypeOK, [Next]_vars, NEW c \in Clients, task'[c] \in Writing
  PROVE  \/ task[c] \in Writing
         \/ CommitMkdir(c) /\ parent[KeyOf[c]] = None /\ task'[c] = "c_rename"
            /\ parent'[KeyOf[c]] # None /\ parent'[KeyOf[c]].stage = "dir"
<1> DEFINE Goal == \/ task[c] \in Writing
                   \/ CommitMkdir(c) /\ parent[KeyOf[c]] = None /\ task'[c] = "c_rename"
                      /\ parent'[KeyOf[c]] # None /\ parent'[KeyOf[c]].stage = "dir"
<1> USE DEF TypeOK, Writing, disk, bounds
<1>1. CASE Handler(c)
  <2> USE DEF Goto, Answer, CommitFails, Rollback
  <2>1. CASE BeginMkdir(c) \/ BeginJson(c) \/ BeginNative(c)
    BY <2>1 DEF BeginMkdir, BeginJson, BeginNative
  <2>2. CASE CommitDetach(c) \/ CommitVerify(c) \/ CommitCheck(c)
    BY <2>2 DEF CommitDetach, CommitVerify, CommitCheck
  <2>m. CASE CommitMkdir(c)
    <3>1. KeyOf[c] \in Keys /\ parent \in [Keys -> Parents \cup {None}]
      BY ParentAssumption
    <3>2. [stage |-> "dir", file |-> None, meta |-> None, old |-> FALSE] \in Parents
      BY DEF Parents
    <3>3. /\ task'[c] = "c_rename" /\ parent[KeyOf[c]] = None
          /\ parent' = [parent EXCEPT ![KeyOf[c]] = [stage |-> "dir", file |-> None, meta |-> None, old |-> FALSE]]
      BY <2>m DEF CommitMkdir, Missing
    <3> QED
      BY <2>m, <3>1, <3>2, <3>3, ParentAssumption
  <2>3. CASE CommitRename(c) \/ CommitMetadata(c) \/ CommitComplete(c)
    BY <2>3 DEF CommitRename, CommitMetadata, CommitComplete
  <2>4. CASE CommitUnjson(c) \/ CommitRmdir(c) \/ AbortClose(c) \/ AbortCheck(c) \/ AbortUnjson(c) \/ AbortRmdir(c)
    BY <2>4 DEF CommitUnjson, CommitRmdir, AbortClose, AbortCheck, AbortUnjson, AbortRmdir
  <2>5. CASE AcquireJournal(c) \/ AcquireChild(c)
    BY <2>5 DEF AcquireJournal, AcquireChild
  <2> QED
    BY <1>1, <2>1, <2>2, <2>m, <2>3, <2>4, <2>5 DEF Handler
<1>2. CASE Client(c) \/ RecoverLease(c) \/ ClientKilled(c)
  BY <1>2 DEF Goto, Answer, Client, BeginParent, Build, CommitParent, AbortParent, Acquire, Release,
     ClientRefused, RecoverLease, ClientKilled
<1>3. ASSUME NEW d \in Clients, d # c, Handler(d) \/ Client(d) \/ RecoverLease(d) \/ ClientKilled(d)
      PROVE  Goal
  BY <1>3, OthersAlone
<1>4. CASE BrokerCrash \/ Reboot
  BY <1>4, ProcessLost
<1>5. CASE UNCHANGED task
  BY <1>5
<1> QED
  BY <1>1, <1>2, <1>3, <1>4, <1>5, BackgroundAlone DEF Next

\* A handler that writes goes on with its own steps only.
LEMMA WriterRests ==
  ASSUME StoreInv, [Next]_vars, NEW c \in Clients, task[c] \in Writing, task'[c] \in Writing,
         ~(CommitRename(c) \/ CommitMetadata(c) \/ CommitComplete(c))
  PROVE  task'[c] = task[c]
<1>t. TypeOK
  BY DEF StoreInv
<1>1. CASE Handler(c)
  BY <1>1 DEF Handler, Writing, BeginMkdir, BeginJson, BeginNative, CommitDetach, CommitVerify, CommitCheck,
     CommitMkdir, CommitUnjson, CommitRmdir, AbortClose, AbortCheck, AbortUnjson, AbortRmdir,
     AcquireJournal, AcquireChild
<1>2. CASE Client(c) \/ RecoverLease(c) \/ ClientKilled(c)
  BY <1>2 DEF Client, Writing, BeginParent, Build, CommitParent, AbortParent, Acquire, Release,
     ClientRefused, RecoverLease, ClientKilled, StoreInv, TaskInv
<1>3. ASSUME NEW d \in Clients, d # c, Handler(d) \/ Client(d) \/ RecoverLease(d) \/ ClientKilled(d)
      PROVE  task'[c] = task[c]
  BY <1>3, <1>t, OthersAlone
<1>4. CASE BrokerCrash \/ Reboot
  BY <1>4, <1>t, ProcessLost DEF Writing
<1> QED
  BY <1>1, <1>2, <1>3, <1>4, BackgroundAlone DEF Next

\* WriterInv is kept.
LEMMA WriterStep ==
  ASSUME StoreInv, [Next]_vars, NEW c \in Clients
  PROVE  WriterInv(c)'
<1> DEFINE k == KeyOf[c]
<1>k. k \in Keys /\ k = KeyOf[c] /\ TypeOK
  BY ParentAssumption DEF StoreInv
<1> HIDE DEF k
<1>e. ASSUME NEW d \in Clients, KeyOf[d] = k, task'[d] \in Writing
      PROVE  \/ task[d] \in Writing
             \/ CommitMkdir(d) /\ parent[k] = None /\ task'[d] = "c_rename"
                /\ parent'[k] # None /\ parent'[k].stage = "dir"
  BY <1>e, <1>k, WriterEnters
<1>w. ASSUME NEW d \in Clients, KeyOf[d] = k, task[d] \in Writing PROVE parent[k] # None
  BY <1>w DEF StoreInv, WriterInv
<1>o. ASSUME NEW d \in Clients, d # c, CommitMkdir(c) PROVE task'[d] = task[d]
  BY <1>o, <1>k, OthersAlone DEF Handler
<1>1. ASSUME task'[c] \in Writing, NEW d \in Clients, KeyOf[d] = k, task'[d] \in Writing
      PROVE  d = c
  <2>1. CASE task[c] \in Writing /\ task[d] \in Writing
    BY <1>1, <1>k, <2>1 DEF StoreInv, WriterInv
  <2>2. CASE CommitMkdir(c) /\ parent[k] = None
    BY <1>1, <1>w, <1>o, <2>2
  <2>3. CASE CommitMkdir(d) /\ parent[k] = None /\ task[d] \notin Writing
    <3>1. task[c] \notin Writing
      BY <1>k, <1>w, <2>3
    <3>2. CommitMkdir(c)
      BY <1>1, <1>k, <1>e, <3>1
    <3> QED
      BY <1>1, <1>o, <2>3, <3>2
  <2> QED
    BY <1>1, <1>k, <1>e, <2>1, <2>2, <2>3
<1>2. ASSUME task'[c] \in Writing
      PROVE  /\ parent'[k] # None
             /\ parent'[k].stage = CASE task'[c] = "c_rename" -> "dir"
                                     [] task'[c] = "c_meta" -> "vhdx"
                                     [] OTHER -> "meta"
  <2>1. CASE task[c] \notin Writing
    BY <1>2, <1>k, <1>e, <2>1
  <2>2. CASE task[c] \in Writing /\ ~(CommitRename(c) \/ CommitMetadata(c) \/ CommitComplete(c))
    <3>1. task'[c] = task[c]
      BY <1>2, <2>2, WriterRests
    <3>2. SameParent(parent[k], parent'[k])
      BY <1>k, <2>2, WriterAlone
    <3> QED
      BY <1>k, <2>2, <3>1, <3>2 DEF SameParent, StoreInv, WriterInv
  <2>3. CASE task[c] \in Writing /\ (CommitRename(c) \/ CommitMetadata(c) \/ CommitComplete(c))
    <3>1. parent[k] \in Parents /\ parent \in [Keys -> Parents \cup {None}] /\ task \in [Clients -> Labels]
      BY <1>k, <2>3 DEF TypeOK, StoreInv, WriterInv
    <3>2. \/ task'[c] = "c_meta" /\ parent' = [parent EXCEPT ![k] = [parent[k] EXCEPT !.stage = "vhdx", !.file = staging[k]]]
             /\ staging[k] # None
          \/ task'[c] = "c_complete" /\ parent' = [parent EXCEPT ![k] = [parent[k] EXCEPT !.stage = "meta", !.meta = c]]
      BY <1>2, <1>k, <2>3, <3>1
      DEF CommitRename, CommitMetadata, CommitComplete, Rollback, CommitFails, Answer, Goto, Writing
    <3>3. staging[k] # None => [parent[k] EXCEPT !.stage = "vhdx", !.file = staging[k]] \in Parents
      BY <1>k, <3>1, RecordTypes DEF TypeOK
    <3>4. [parent[k] EXCEPT !.stage = "meta", !.meta = c] \in Parents
      BY <3>1, RecordTypes
    <3> QED
      BY <1>k, <3>1, <3>2, <3>3, <3>4, ParentAssumption DEF Parents
  <2> QED
    BY <2>1, <2>2, <2>3
<1> QED
  BY <1>1, <1>2, <1>k DEF WriterInv

\* GcInv is kept: a lease that comes after the survey is in late.
LEMMA CollectionStep ==
  ASSUME StoreInv, [Next]_vars
  PROVE  GcInv'
<1> USE DEF StoreInv, GcInv
<1>t. /\ TypeOK /\ gc.todo \in SUBSET Keys
  BY DEF TypeOK
<1>1. ASSUME NEW c \in Clients, KeyOf[c] \in gc'.todo, lease'[c] # "none" PROVE c \in late'
  <2>1. CASE GcList
    BY <1>1, <2>1 DEF GcList, Protected, disk
  <2>2. CASE BrokerCrash \/ Reboot
    BY <1>1, <1>t, <2>2, ProcessLost
  <2>3. CASE ~GcList /\ ~BrokerCrash /\ ~Reboot
    <3>1. gc'.todo \subseteq gc.todo
      <4>1. GcStop => gc'.todo = {}
        BY DEF GcStop, GcDone
      <4>2. ASSUME NEW k \in Keys, GcRemove(k) \/ GcUnlink(k) PROVE gc'.todo \subseteq gc.todo
        <5>1. gc = [pc |-> gc.pc, cur |-> gc.cur, todo |-> gc.todo]
          BY <1>t DEF TypeOK
        <5>2. \/ gc' = [pc |-> "idle", cur |-> None, todo |-> {}]
              \/ gc' = [pc |-> "unlink", cur |-> k, todo |-> gc.todo \ {k}]
              \/ gc' = [pc |-> "remove", cur |-> None, todo |-> gc.todo]
          BY <4>2, <5>1 DEF GcRemove, GcUnlink, GcDone
        <5> QED
          BY <5>2
      <4> QED
        BY <2>3, <4>1, <4>2, Footprint DEF GcStep
    <3>2. CASE UNCHANGED <<lease, late>>
      BY <1>1, <3>1, <3>2
    <3>3. ASSUME NEW d \in Clients, AcquireJournal(d) \/ AcquireChild(d) \/ Release(d) \/ RecoverLease(d)
          PROVE  c \in late'
      <4>1. late \subseteq late' /\ (lease'[c] # "none" => lease[c] # "none" \/ c \in late')
        BY <3>3, <1>t
        DEF AcquireJournal, AcquireChild, Release, RecoverLease, TaskInv, TypeOK
      <4> QED
        BY <1>1, <3>1, <4>1
    <3> QED
      BY <2>3, <3>2, <3>3, Footprint DEF LeaseStep
  <2> QED
    BY <2>1, <2>2, <2>3
<1>2. ASSUME NEW k \in Keys, gc'.pc = "unlink", gc'.cur = k
      PROVE  /\ parent'[k] # None /\ parent'[k].stage = "vhdx"
             /\ \A c \in Clients : KeyOf[c] = k => task'[c] \notin Writing
  <2>p. parent \in [Keys -> Parents \cup {None}]
    BY <1>t DEF TypeOK
  <2>1. CASE GcRemove(k)
    <3>1. parent[k] \in Parents /\ parent[k].stage = "valid"
          /\ parent' = [parent EXCEPT ![k] = [parent[k] EXCEPT !.stage = "vhdx", !.meta = None]]
      BY <1>2, <2>1, <2>p DEF GcRemove, GcDone, Valid
    <3>2. [parent[k] EXCEPT !.stage = "vhdx", !.meta = None] \in Parents
      BY <3>1, RecordTypes
    <3>3. parent'[k] # None /\ parent'[k].stage = "vhdx"
      BY <3>1, <3>2, <2>p, ParentAssumption DEF Parents
    <3>4. ASSUME NEW c \in Clients, KeyOf[c] = k PROVE task'[c] \notin Writing
      <4>1. task[c] \notin Writing
        BY <3>1, <3>4 DEF WriterInv, Writing
      <4>2. UNCHANGED task
        BY <2>1 DEF GcRemove
      <4> QED
        BY <4>1, <4>2
    <3> QED
      BY <3>3, <3>4
  <2>2. CASE gc' = gc
    <3>1. /\ gc.pc = "unlink" /\ gc.cur = k /\ parent[k] # None /\ parent[k].stage = "vhdx"
          /\ \A c \in Clients : KeyOf[c] = k => task[c] \notin Writing
      BY <1>2, <2>2
    <3>2. ASSUME NEW c \in Clients, KeyOf[c] = k PROVE task'[c] \notin Writing
      BY <1>t, <3>1, <3>2, WriterEnters
    <3>3. parent'[k] # None /\ parent'[k].stage = "vhdx"
      <4>1. ASSUME NEW c \in Clients, BeginParent(c) \/ Acquire(c)
            PROVE  parent'[k] # None /\ parent'[k].stage = "vhdx"
        BY <3>1, <4>1, <2>p, ParentAssumption DEF BeginParent, Acquire, Touch, Verified, Valid, Parents
      <4>2. ASSUME NEW c \in Clients, CommitMkdir(c)
            PROVE  parent'[k] # None /\ parent'[k].stage = "vhdx"
        BY <3>1, <4>2, <2>p, ParentAssumption DEF CommitMkdir, Missing
      <4>3. ASSUME NEW c \in Clients, CommitRename(c) \/ CommitMetadata(c) \/ CommitComplete(c)
            PROVE  parent'[k] # None /\ parent'[k].stage = "vhdx"
        <5>1. KeyOf[c] # k
          BY <3>1, <4>3 DEF CommitRename, CommitMetadata, CommitComplete, Writing
        <5> QED
          BY <3>1, <4>3, <5>1, <2>p DEF CommitRename, CommitMetadata, CommitComplete, Rollback
      <4>4. ASSUME NEW j \in Keys, GcRemove(j) \/ GcUnlink(j) \/ ParentAges(j)
            PROVE  parent'[k] # None /\ parent'[k].stage = "vhdx"
        BY <1>t, <2>2, <3>1, <4>4, <2>p DEF GcRemove, GcUnlink, GcDone, ParentAges, Valid, TypeOK
      <4> QED
        BY <3>1, <4>1, <4>2, <4>3, <4>4, Footprint DEF ParentStep
    <3> QED
      BY <3>2, <3>3
  <2>3. CASE gc' # gc /\ ~GcRemove(k)
    <3>1. GcList \/ GcStop \/ BrokerCrash \/ Reboot => gc'.pc # "unlink"
      BY DEF GcList, GcStop, GcDone, BrokerCrash, Reboot, LoseProcess
    <3>2. ASSUME NEW j \in Keys, GcRemove(j) \/ GcUnlink(j) PROVE gc'.pc # "unlink" \/ (gc'.cur = j /\ GcRemove(j))
      <4>1. gc.pc \in {"idle", "remove", "unlink"} /\ gc = [pc |-> gc.pc, cur |-> gc.cur, todo |-> gc.todo]
        BY <1>t DEF TypeOK
      <4>2. CASE GcRemove(j)
        BY <4>2 DEF GcRemove, GcDone
      <4>3. CASE GcUnlink(j)
        <5>1. \/ gc' = [pc |-> "idle", cur |-> None, todo |-> {}]
              \/ gc' = [pc |-> "remove", cur |-> None, todo |-> gc.todo]
          BY <4>1, <4>3 DEF GcUnlink, GcDone
        <5>2. gc'.pc \in {"idle", "remove"}
          BY <5>1
        <5> QED
          BY <5>2
      <4> QED
        BY <3>2, <4>2, <4>3
    <3> QED
      BY <1>2, <2>3, <3>1, <3>2, Footprint DEF GcStep
  <2> QED
    BY <2>1, <2>2, <2>3
<1> QED
  BY <1>1, <1>2

\* What a step leaves at the staging path is what was there, built further,
\* the VHDX that BeginNative creates, or the one that a rollback moves back.
LEMMA StagingChanges ==
  ASSUME StoreInv, [Next]_vars, NEW k \in Keys, staging'[k] # staging[k]
  PROVE  \/ staging'[k] = None /\ ~IsOpen(k)
         \/ staging'[k] = None /\ \E c \in Clients : AbortClose(c) /\ KeyOf[c] = k /\ session'[c] = "closed"
                                      /\ (IsOpen(k) => staging[k].tx = c)
         \/ \E c \in Clients :
               /\ KeyOf[c] = k /\ Build(c) /\ staging[k] # None /\ staging[k].tx = c
               /\ staging'[k] = [tx |-> c, content |-> "built"]
               /\ client'[c] = "built"
         \/ \E c \in Clients :
               /\ KeyOf[c] = k /\ BeginNative(c) /\ staging[k] = None /\ session'[c] = "open"
               /\ staging'[k] = [tx |-> c, content |-> "partial"]
               /\ pending'[k] # None /\ task'[c] = "idle"
         \/ \E c \in Clients :
               /\ KeyOf[c] = k /\ (CommitMetadata(c) \/ CommitComplete(c)) /\ Rollback(c)
               /\ task[c] \in {"c_meta", "c_complete"} /\ staging[k] = None /\ staging'[k] = parent[k].file
<1> DEFINE Goal ==
         \/ staging'[k] = None /\ ~IsOpen(k)
         \/ staging'[k] = None /\ \E c \in Clients : AbortClose(c) /\ KeyOf[c] = k /\ session'[c] = "closed"
                                      /\ (IsOpen(k) => staging[k].tx = c)
         \/ \E c \in Clients :
               /\ KeyOf[c] = k /\ Build(c) /\ staging[k] # None /\ staging[k].tx = c
               /\ staging'[k] = [tx |-> c, content |-> "built"]
               /\ client'[c] = "built"
         \/ \E c \in Clients :
               /\ KeyOf[c] = k /\ BeginNative(c) /\ staging[k] = None /\ session'[c] = "open"
               /\ staging'[k] = [tx |-> c, content |-> "partial"]
               /\ pending'[k] # None /\ task'[c] = "idle"
         \/ \E c \in Clients :
               /\ KeyOf[c] = k /\ (CommitMetadata(c) \/ CommitComplete(c)) /\ Rollback(c)
               /\ task[c] \in {"c_meta", "c_complete"} /\ staging[k] = None /\ staging'[k] = parent[k].file
<1>t. /\ TypeOK /\ staging \in [Keys -> Files \cup {None}] /\ pending \in [Keys -> Pendings \cup {None}]
      /\ session \in [Clients -> {"none", "open", "closed"}] /\ client \in [Clients -> ClientStates]
      /\ task \in [Clients -> Labels]
  BY DEF StoreInv, TypeOK
<1>1. ASSUME NEW c \in Clients, BeginNative(c) PROVE Goal
  <2>1. /\ KeyOf[c] = k /\ staging[k] = None /\ session'[c] = "open"
        /\ staging' = [staging EXCEPT ![k] = [tx |-> c, content |-> "partial"]]
        /\ pending' = [pending EXCEPT ![k] = IF @ = None THEN [tx |-> None, fresh |-> FALSE] ELSE @]
        /\ task'[c] = "idle"
    BY <1>1, <1>t DEF BeginNative, Answer, Goto
  <2>2. [tx |-> None, fresh |-> FALSE] \in Pendings
    BY DEF Pendings
  <2>3. pending'[k] # None
    BY <1>t, <2>1, <2>2, ParentAssumption
  <2>4. staging'[k] = [tx |-> c, content |-> "partial"]
    BY <1>t, <2>1
  <2> QED
    BY <1>1, <2>1, <2>3, <2>4
<1>2. ASSUME NEW c \in Clients, Build(c) PROVE Goal
  <2>1. /\ KeyOf[c] = k /\ staging[k] # None /\ staging[k].tx = c
        /\ staging' = [staging EXCEPT ![k] = [staging[k] EXCEPT !.content = "built"]]
        /\ client'[c] = "built"
    BY <1>2, <1>t DEF Build
  <2>2. staging'[k] = [tx |-> c, content |-> "built"]
    BY <1>t, <2>1 DEF Files
  <2> QED
    BY <1>2, <2>1, <2>2
<1>3. ASSUME NEW c \in Clients, CommitRename(c) PROVE Goal
  BY <1>3, <1>t, SMTT(40) DEF CommitRename
<1>4. ASSUME NEW c \in Clients, CommitMetadata(c) \/ CommitComplete(c) PROVE Goal
  BY <1>4, <1>t DEF CommitMetadata, CommitComplete, Rollback
<1>5. ASSUME NEW c \in Clients, AbortClose(c) PROVE Goal
  BY <1>5, <1>t DEF AbortClose
<1>6. ASSUME NEW j \in Keys, RecoverRename(j) PROVE Goal
  BY <1>6, <1>t DEF RecoverRename
<1> QED
  BY <1>1, <1>2, <1>3, <1>4, <1>5, <1>6, Footprint DEF StagingStep

\* A pending directory goes only when its VHDX is not mounted.
LEMMA PendingGoes ==
  ASSUME StoreInv, [Next]_vars, NEW k \in Keys, pending[k] # None, pending'[k] = None
  PROVE  ~IsOpen(k)
<1>t. /\ TypeOK /\ pending \in [Keys -> Pendings \cup {None}] /\ \A d \in Clients : KeyOf[d] \in Keys
  BY ParentAssumption DEF StoreInv, TypeOK
<1>n. /\ [tx |-> None, fresh |-> FALSE] \in Pendings
      /\ \A d \in Clients : [tx |-> d, fresh |-> TRUE] \in Pendings
      /\ \A p \in Pendings : [p EXCEPT !.tx = None] \in Pendings /\ [p EXCEPT !.fresh = FALSE] \in Pendings
  BY DEF Pendings
<1>j. ASSUME NEW j \in Keys, RemoveJson(j) PROVE pending'[k] # None
  <2>0. pending[k] \in Pendings
    BY <1>t
  <2>1. [pending[k] EXCEPT !.tx = None] # None
    <3>1. [pending[k] EXCEPT !.tx = None] \in Pendings
      BY <2>0 DEF Pendings
    <3> QED
      BY <3>1, ParentAssumption
  <2>2. pending'[k] \in {pending[k], [pending[k] EXCEPT !.tx = None]}
    BY <1>j, <1>t, <2>0, <2>1 DEF RemoveJson
  <2> QED
    BY <2>1, <2>2
<1>r. ASSUME NEW j \in Keys, RemoveDir(j) PROVE ~IsOpen(k)
  BY <1>r, <1>t DEF RemoveDir, DirIsEmpty, IsOpen
<1> USE DEF disk, bounds
<1>1. ASSUME NEW c \in Clients, BeginMkdir(c) \/ BeginNative(c) PROVE pending'[k] # None
  BY <1>1, <1>t DEF BeginMkdir, BeginNative
<1>2. ASSUME NEW c \in Clients, BeginJson(c) PROVE ~IsOpen(k)
  <2>1. [tx |-> c, fresh |-> TRUE] # None
    BY <1>n, ParentAssumption
  <2>2. RemoveDir(KeyOf[c]) \/ pending' = [pending EXCEPT ![KeyOf[c]] = [tx |-> c, fresh |-> TRUE]]
    BY <1>2 DEF BeginJson
  <2> QED
    BY <1>r, <1>t, <2>1, <2>2
<1>3. ASSUME NEW c \in Clients, CommitUnjson(c) \/ CommitRmdir(c) \/ AbortUnjson(c) \/ AbortRmdir(c)
      PROVE  ~IsOpen(k)
  BY <1>3, <1>j, <1>r, <1>t DEF CommitUnjson, CommitRmdir, AbortUnjson, AbortRmdir
<1>4. ASSUME NEW j \in Keys, RecoverUnjson(j) \/ RecoverRmdir(j) PROVE ~IsOpen(k)
  BY <1>4, <1>j, <1>r DEF RecoverUnjson, RecoverRmdir
<1>5. ASSUME NEW j \in Keys, RecoverRename(j) PROVE ~IsOpen(k)
  BY <1>5, <1>t DEF RecoverRename
<1>6. ASSUME NEW j \in Keys, GraceElapses(j) PROVE pending'[k] # None
  <2>1. pending[j] \in Pendings /\ pending' = [pending EXCEPT ![j] = [pending[j] EXCEPT !.fresh = FALSE]]
    BY <1>6, <1>t DEF GraceElapses
  <2> QED
    BY <1>n, <1>t, <2>1, ParentAssumption
<1> QED
  BY <1>1, <1>2, <1>3, <1>4, <1>5, <1>6, Footprint DEF PendingStep

\* A session is opened by BeginNative, where there is no VHDX.
LEMMA SessionOpens ==
  ASSUME StoreInv, [Next]_vars, NEW c \in Clients, session'[c] = "open", session[c] # "open"
  PROVE  /\ BeginNative(c) /\ staging[KeyOf[c]] = None /\ pending'[KeyOf[c]] # None
         /\ staging'[KeyOf[c]] = [tx |-> c, content |-> "partial"]
         /\ task[c] = "b_native" /\ task'[c] = "idle" /\ client'[c] \in {"building", "killed"}
<1> DEFINE k == KeyOf[c]
<1>t. /\ TypeOK /\ k \in Keys /\ staging \in [Keys -> Files \cup {None}] /\ pending \in [Keys -> Pendings \cup {None}]
      /\ session \in [Clients -> {"none", "open", "closed"}] /\ client \in [Clients -> ClientStates]
      /\ task \in [Clients -> Labels]
  BY ParentAssumption DEF StoreInv, TypeOK
<1>1. BeginNative(c)
  <2>1. ASSUME NEW d \in Clients,
               BeginNative(d) \/ CommitDetach(d) \/ AbortClose(d) \/ CommitRmdir(d) \/ AbortRmdir(d)
        PROVE  d = c /\ BeginNative(c)
    BY <1>t, <2>1 DEF BeginNative, CommitDetach, AbortClose, CommitRmdir, AbortRmdir
  <2> QED
    BY <1>t, <2>1, Footprint, ProcessLost DEF SessionStep
<1>2. /\ staging[k] = None /\ task[c] = "b_native"
      /\ staging' = [staging EXCEPT ![k] = [tx |-> c, content |-> "partial"]]
      /\ pending' = [pending EXCEPT ![k] = IF @ = None THEN [tx |-> None, fresh |-> FALSE] ELSE @]
      /\ Answer(c, "building")
  BY <1>1, <1>t DEF BeginNative
<1>3. [tx |-> None, fresh |-> FALSE] \in Pendings
  BY DEF Pendings
<1>4. client'[c] \in {"building", "killed"}
  BY <1>2, <1>t DEF Answer, Alive, StoreInv, TaskInv
<1> QED
  BY <1>1, <1>2, <1>3, <1>4, <1>t, ParentAssumption DEF Answer, Goto

\* OneBuilder is kept.
LEMMA BuilderStep ==
  ASSUME StoreInv, [Next]_vars
  PROVE  OneBuilder'
<1> SUFFICES ASSUME NEW c \in Clients, session'[c] = "open"
             PROVE  /\ pending'[KeyOf[c]] # None
                    /\ staging'[KeyOf[c]] # None /\ staging'[KeyOf[c]].tx = c
  BY DEF OneBuilder
<1> DEFINE k == KeyOf[c]
<1>k. k \in Keys
  BY ParentAssumption
<1>f. \A x \in {"partial", "built"} : [tx |-> c, content |-> x] # None /\ [tx |-> c, content |-> x].tx = c
  BY ParentAssumption DEF Files
<1>1. CASE session[c] # "open"
  BY <1>1, <1>f, SessionOpens
<1>2. CASE session[c] = "open"
  <2>1. IsOpen(k) /\ staging[k] # None /\ staging[k].tx = c /\ pending[k] # None
    BY <1>2 DEF StoreInv, OneBuilder, IsOpen
  <2>2. pending'[k] # None
    BY <1>k, <2>1, PendingGoes
  <2>3. CASE staging'[k] = staging[k]
    BY <2>1, <2>2, <2>3
  <2>4. CASE staging'[k] # staging[k]
    <3>1. \E d \in Clients : staging[k].tx = d /\ staging'[k] = [tx |-> d, content |-> "built"]
      BY <1>k, <2>1, <2>4, StagingChanges
    <3> QED
      BY <1>f, <2>1, <2>2, <3>1
  <2> QED
    BY <2>3, <2>4
<1> QED
  BY <1>1, <1>2

\* StoreInv holds at first.
LEMMA StoreInit == Init => StoreInv
<1> SUFFICES ASSUME Init PROVE StoreInv
  OBVIOUS
<1>1. TypeOK
  BY ParentAssumption DEF Init, TypeOK, Labels, ClientStates
<1> QED
  BY <1>1 DEF Init, StoreInv, GcInv, OneBuilder, TaskInv, WriterInv, Writing

\* StoreInv is kept by every step.
LEMMA StoreStep == StoreInv /\ [Next]_vars => StoreInv'
  BY StepType, TaskStep, WriterStep, CollectionStep, BuilderStep DEF StoreInv

-----------------------------------------------------------------------------
(* What holds without any assumption on timing *)

\* The invariant that does without Prompt.
THEOREM StoreInvariant == Spec => []StoreInv
  BY StoreInit, StoreStep, PTL DEF Spec

\* Every reachable state is well typed.
THEOREM TypeCorrect == Spec => []TypeOK
<1>1. StoreInv => TypeOK
  BY DEF StoreInv
<1> QED
  BY <1>1, StoreInvariant, PTL

\* One builder per key: nobody moves or deletes a mounted staging VHDX, or its
\* pending directory, however slow the handlers are.
THEOREM BuilderAlone == Spec => []OneBuilder
<1>1. StoreInv => OneBuilder
  BY DEF StoreInv
<1> QED
  BY <1>1, StoreInvariant, PTL

\* What a step makes of a parent's directory: it becomes valid by the last step
\* of its commit only, and what is valid changes by GcRemove only.
LEMMA ParentChanges ==
  ASSUME StoreInv, [Next]_vars, NEW k \in Keys, Valid(k) \/ Valid(k)'
  PROVE  \/ Valid(k) /\ Valid(k)' /\ SameParent(parent[k], parent'[k])
         \/ GcRemove(k) /\ ~Valid(k)'
         \/ \E c \in Clients :
               /\ KeyOf[c] = k /\ task[c] = "c_complete" /\ ~Valid(k)
               /\ parent'[k].file = parent[k].file /\ parent'[k].meta = parent[k].meta
<1> DEFINE Goal ==
         \/ Valid(k) /\ Valid(k)' /\ SameParent(parent[k], parent'[k])
         \/ GcRemove(k) /\ ~Valid(k)'
         \/ \E c \in Clients :
               /\ KeyOf[c] = k /\ task[c] = "c_complete" /\ ~Valid(k)
               /\ parent'[k].file = parent[k].file /\ parent'[k].meta = parent[k].meta
<1>t. /\ parent \in [Keys -> Parents \cup {None}]
      /\ parent[k] # None => parent[k] \in Parents
      /\ staging \in [Keys -> Files \cup {None}]
      /\ \A c \in Clients : KeyOf[c] \in Keys
  BY ParentAssumption DEF StoreInv, TypeOK
<1>s. parent'[k] = parent[k] => Goal
  BY DEF SameParent, Valid
<1>o. ASSUME NEW p, p \in Parents, parent' = [parent EXCEPT ![k] = p], parent[k] # None,
             p.stage = parent[k].stage, p.file = parent[k].file, p.meta = parent[k].meta
      PROVE  Goal
  BY <1>o, <1>t, ParentAssumption DEF SameParent, Valid
<1>n. ASSUME NEW p, p \in Parents \cup {None}, parent' = [parent EXCEPT ![k] = p], ~Valid(k),
             p = None \/ p.stage # "valid"
      PROVE  Goal
  BY <1>n, <1>t DEF Valid
<1>1. ASSUME NEW c \in Clients, BeginParent(c) \/ Acquire(c) PROVE Goal
  <2>1. CASE UNCHANGED parent \/ KeyOf[c] # k
    BY <1>1, <1>s, <1>t, <2>1 DEF BeginParent, Acquire, Touch
  <2>2. CASE Touch(k) /\ Verified(k)
    <3>1. parent' = [parent EXCEPT ![k] = [parent[k] EXCEPT !.old = FALSE]] /\ parent[k] \in Parents
      BY <1>t, <2>2 DEF Touch, Verified, Valid
    <3>2. [parent[k] EXCEPT !.old = FALSE] \in Parents
      BY <3>1, RecordTypes
    <3>3. /\ [parent[k] EXCEPT !.old = FALSE].stage = parent[k].stage
          /\ [parent[k] EXCEPT !.old = FALSE].file = parent[k].file
          /\ [parent[k] EXCEPT !.old = FALSE].meta = parent[k].meta
      BY <3>1 DEF Parents
    <3> QED
      BY <1>o, <2>2, <3>1, <3>2, <3>3 DEF Verified, Valid
  <2> QED
    BY <1>1, <2>1, <2>2 DEF BeginParent, Acquire
<1>2. ASSUME NEW c \in Clients, CommitMkdir(c) PROVE Goal
  <2>1. [stage |-> "dir", file |-> None, meta |-> None, old |-> FALSE] \in Parents
    BY DEF Parents
  <2>2. CASE parent'[k] = parent[k]
    BY <1>s, <2>2
  <2>3. CASE /\ parent[k] = None
             /\ parent' = [parent EXCEPT ![k] = [stage |-> "dir", file |-> None, meta |-> None, old |-> FALSE]]
    BY <1>n, <2>1, <2>3 DEF Valid
  <2> QED
    BY <1>2, <1>t, <2>2, <2>3 DEF CommitMkdir, Missing
<1>3. ASSUME NEW c \in Clients, CommitRename(c) \/ CommitMetadata(c) \/ CommitComplete(c) PROVE Goal
  <2>1. task[c] \in Writing /\ KeyOf[c] \in Keys
    BY <1>3, <1>t DEF CommitRename, CommitMetadata, CommitComplete, Writing
  <2>2. KeyOf[c] = k => ~Valid(k) /\ parent[k] \in Parents
    BY <1>t, <2>1 DEF StoreInv, WriterInv, Writing, Valid
  <2>3. CASE KeyOf[c] # k
    <3>1. parent'[k] = parent[k]
      BY <1>3, <1>t, <2>3 DEF CommitRename, CommitMetadata, CommitComplete, Rollback
    <3> QED
      BY <1>s, <3>1
  <2>4. CASE KeyOf[c] = k
    <3>1. \/ UNCHANGED parent
          \/ /\ staging[k] # None
             /\ parent' = [parent EXCEPT ![k] = [parent[k] EXCEPT !.stage = "vhdx", !.file = staging[k]]]
          \/ parent' = [parent EXCEPT ![k] = [parent[k] EXCEPT !.stage = "meta", !.meta = c]]
          \/ /\ task[c] = "c_complete"
             /\ parent' = [parent EXCEPT ![k] = [parent[k] EXCEPT !.stage = "valid"]]
          \/ parent' = [parent EXCEPT ![k] = None]
          \/ parent' = [parent EXCEPT ![k] = [parent[k] EXCEPT !.stage = "vhdx", !.meta = None]]
      BY <1>3, <1>t, <2>4 DEF CommitRename, CommitMetadata, CommitComplete, Rollback
    <3>2. /\ staging[k] # None => [parent[k] EXCEPT !.stage = "vhdx", !.file = staging[k]] \in Parents
                                  /\ [parent[k] EXCEPT !.stage = "vhdx", !.file = staging[k]].stage = "vhdx"
          /\ [parent[k] EXCEPT !.stage = "meta", !.meta = c] \in Parents
          /\ [parent[k] EXCEPT !.stage = "meta", !.meta = c].stage = "meta"
          /\ [parent[k] EXCEPT !.stage = "vhdx", !.meta = None] \in Parents
          /\ [parent[k] EXCEPT !.stage = "vhdx", !.meta = None].stage = "vhdx"
      BY <1>t, <2>2, <2>4 DEF Parents
    <3>3. CASE task[c] = "c_complete" /\ parent' = [parent EXCEPT ![k] = [parent[k] EXCEPT !.stage = "valid"]]
      <4>1. parent'[k].file = parent[k].file /\ parent'[k].meta = parent[k].meta
        BY <1>t, <2>2, <2>4, <3>3 DEF Parents
      <4> QED
        BY <2>2, <2>4, <3>3, <4>1
    <3> QED
      BY <1>n, <1>s, <2>2, <2>4, <3>1, <3>2, <3>3
  <2> QED
    BY <2>3, <2>4
<1>4. ASSUME NEW j \in Keys, GcRemove(j) PROVE Goal
  <2>1. CASE parent'[k] = parent[k]
    BY <1>s, <2>1
  <2>2. CASE j = k /\ Valid(k) /\ parent' = [parent EXCEPT ![k] = [parent[k] EXCEPT !.stage = "vhdx", !.meta = None]]
    <3>1. parent'[k].stage = "vhdx"
      BY <1>t, <2>2 DEF Valid, Parents
    <3> QED
      BY <1>4, <2>2, <3>1 DEF Valid
  <2> QED
    BY <1>4, <1>t, <2>1, <2>2 DEF GcRemove
<1>5. ASSUME NEW j \in Keys, GcUnlink(j) PROVE Goal
  <2>1. j = k => ~Valid(k)
    BY <1>5 DEF GcUnlink, StoreInv, GcInv, Valid
  <2> QED
    BY <1>5, <1>n, <1>s, <1>t, <2>1 DEF GcUnlink
<1>6. ASSUME NEW j \in Keys, ParentAges(j) PROVE Goal
  <2>1. parent' = [parent EXCEPT ![j] = [parent[j] EXCEPT !.old = TRUE]] /\ parent[j] \in Parents
    BY <1>6, <1>t DEF ParentAges, Valid
  <2>2. j = k => /\ [parent[k] EXCEPT !.old = TRUE] \in Parents
                 /\ [parent[k] EXCEPT !.old = TRUE].stage = parent[k].stage
                 /\ [parent[k] EXCEPT !.old = TRUE].file = parent[k].file
                 /\ [parent[k] EXCEPT !.old = TRUE].meta = parent[k].meta
    BY <2>1 DEF Parents
  <2> QED
    BY <1>6, <1>o, <1>s, <1>t, <2>1, <2>2, ZenonT(60) DEF ParentAges, Valid
<1> QED
  BY <1>s, <1>1, <1>2, <1>3, <1>4, <1>5, <1>6, Footprint DEF ParentStep

\* A published parent is immutable, and goes by a garbage collection only, under
\* no lease that the collection could see.
THEOREM ParentStays == Spec => PublishedStays
<1>1. ASSUME StoreInv, [Next]_vars, NEW k \in Keys, Valid(k)
      PROVE  \/ Valid(k)' /\ parent'[k].file = parent[k].file /\ parent'[k].meta = parent[k].meta
             \/ /\ gc.pc = "remove" /\ k \in gc.todo
                /\ \A c \in Clients : KeyOf[c] = k /\ lease[c] # "none" => c \in late
  BY <1>1, ParentChanges DEF SameParent, GcRemove, StoreInv, GcInv
<1>2. StoreInv /\ [Next]_vars =>
        [\A k \in Keys : Valid(k) =>
          \/ Valid(k)' /\ parent'[k].file = parent[k].file /\ parent'[k].meta = parent[k].meta
          \/ /\ gc.pc = "remove" /\ k \in gc.todo
             /\ \A c \in Clients : KeyOf[c] = k /\ lease[c] # "none" => c \in late]_vars
  BY <1>1
<1> QED
  BY <1>2, StoreInvariant, PTL DEF Spec, PublishedStays

-----------------------------------------------------------------------------
(* What holds if handlers are prompt *)

\* A commit goes on from one of its tasks, or begins with its own session open,
\* and is asked for by a client that has built.
LEMMA CommitEnters ==
  ASSUME StoreInv, [Next]_vars, NEW c \in Clients
  PROVE  /\ task'[c] \in Committing => task[c] \in Committing \/ (task[c] = "c_detach" /\ session[c] = "open")
         /\ task'[c] \in Committing \cup {"c_detach"} =>
               task[c] \in Committing \cup {"c_detach"} \/ client[c] = "built"
         /\ task'[c] \in {"c_check", "c_mkdir", "c_rename"} =>
               \/ task[c] \in {"c_check", "c_mkdir", "c_rename"}
               \/ /\ task[c] = "c_verify" /\ UNCHANGED staging
                  /\ staging[KeyOf[c]] # None /\ staging[KeyOf[c]].tx = c
         /\ task'[c] \in {"c_meta", "c_complete"} => task[c] \in Writing
         /\ client'[c] = "built" => client[c] = "built" \/ Build(c)
<1> USE DEF StoreInv, TypeOK, Committing, Writing, disk, bounds
<1>1. CASE Handler(c)
  <2> USE DEF Goto, Answer, CommitFails, Rollback
  <2>1. CASE BeginMkdir(c) \/ BeginJson(c) \/ BeginNative(c)
    BY <2>1 DEF BeginMkdir, BeginJson, BeginNative
  <2>2. CASE CommitDetach(c) \/ CommitVerify(c) \/ CommitCheck(c) \/ CommitMkdir(c) \/ CommitRename(c)
    BY <2>2 DEF CommitDetach, CommitVerify, CommitCheck, CommitMkdir, CommitRename
  <2>3. CASE CommitMetadata(c) \/ CommitComplete(c) \/ CommitUnjson(c) \/ CommitRmdir(c)
    BY <2>3 DEF CommitMetadata, CommitComplete, CommitUnjson, CommitRmdir
  <2>4. CASE AbortClose(c) \/ AbortCheck(c) \/ AbortUnjson(c) \/ AbortRmdir(c)
    BY <2>4 DEF AbortClose, AbortCheck, AbortUnjson, AbortRmdir
  <2>5. CASE AcquireJournal(c) \/ AcquireChild(c)
    BY <2>5 DEF AcquireJournal, AcquireChild
  <2> QED
    BY <1>1, <2>1, <2>2, <2>3, <2>4, <2>5 DEF Handler
<1>2. CASE Client(c) \/ RecoverLease(c) \/ ClientKilled(c)
  <2> USE DEF Goto, Answer
  <2>1. CASE BeginParent(c) \/ Build(c) \/ CommitParent(c) \/ AbortParent(c)
    BY <2>1 DEF BeginParent, Build, CommitParent, AbortParent
  <2>2. CASE Acquire(c) \/ Release(c) \/ ClientRefused(c) \/ RecoverLease(c) \/ ClientKilled(c)
    BY <2>2 DEF Acquire, Release, ClientRefused, RecoverLease, ClientKilled
  <2> QED
    BY <1>2, <2>1, <2>2 DEF Client
<1>3. ASSUME NEW d \in Clients, d # c, Handler(d) \/ Client(d) \/ RecoverLease(d) \/ ClientKilled(d)
      PROVE  task'[c] = task[c] /\ client'[c] = client[c]
  BY <1>3, OthersAlone
<1>4. CASE BrokerCrash \/ Reboot
  BY <1>4, ProcessLost
<1>5. CASE UNCHANGED <<task, client>>
  BY <1>5
<1> QED
  BY <1>1, <1>2, <1>3, <1>4, <1>5, BackgroundAlone DEF Next

\* A client of a key that another one commits has at most begun to build.
LEMMA BuildsSlowly ==
  ASSUME Prompt, StoreInv, [Next]_vars, NEW c \in Clients, NEW d \in Clients,
         KeyOf[c] = KeyOf[d], c # d, task[c] \in Committing,
         session[d] = "open", task[d] = "idle", client[d] \in {"building", "killed"},
         session'[d] = "open" \/ task'[c] # "idle"
  PROVE  session'[d] = "open" /\ task'[d] = "idle" /\ client'[d] \in {"building", "killed"}
<1>t. TypeOK /\ task[c] \notin {"idle", "b_mkdir"}
  BY DEF StoreInv, Committing, Writing
<1>1. CASE Handler(d)
  BY <1>1 DEF Handler, BeginMkdir, BeginJson, BeginNative, CommitDetach, CommitVerify, CommitCheck,
     CommitMkdir, CommitRename, CommitMetadata, CommitComplete, CommitUnjson, CommitRmdir,
     AbortClose, AbortCheck, AbortUnjson, AbortRmdir, AcquireJournal, AcquireChild
<1>2. CASE Client(d)
  BY <1>2, <1>t DEF Client, BeginParent, Build, CommitParent, AbortParent, Acquire, Release, ClientRefused
<1>3. CASE RecoverLease(d) \/ ClientKilled(d)
  BY <1>3, <1>t DEF RecoverLease, ClientKilled, disk, TypeOK
<1>4. ASSUME NEW e \in Clients, e # d, Handler(e) \/ Client(e) \/ RecoverLease(e) \/ ClientKilled(e)
      PROVE  task'[d] = task[d] /\ client'[d] = client[d] /\ session'[d] = session[d]
  BY <1>4, <1>t, OthersAlone
<1>5. CASE BrokerCrash \/ Reboot
  BY <1>5, <1>t, ProcessLost
<1>6. CASE UNCHANGED <<task, client, session>>
  BY <1>6
<1> QED
  BY <1>1, <1>2, <1>3, <1>4, <1>5, <1>6, BackgroundAlone DEF Next

\* PlaceInv is kept.
LEMMA PlaceStep ==
  ASSUME StoreInv, PromptInv, [Next]_vars
  PROVE  PlaceInv'
<1> SUFFICES ASSUME NEW k \in Keys, staging'[k] # None PROVE KeyOf[staging'[k].tx] = k
  BY DEF PlaceInv
<1>1. CASE staging'[k] = staging[k]
  BY <1>1 DEF PromptInv, PlaceInv
<1>2. ASSUME NEW c \in Clients, KeyOf[c] = k, task[c] \in {"c_meta", "c_complete"}, staging'[k] = parent[k].file
      PROVE  KeyOf[staging'[k].tx] = k
  <2>1. parent[k].file = [tx |-> c, content |-> "built"]
    BY <1>2 DEF PromptInv, OwnInv
  <2> QED
    BY <1>2, <2>1
<1>3. ASSUME NEW c \in Clients, KeyOf[c] = k,
             \/ staging'[k] = [tx |-> c, content |-> "built"]
             \/ staging'[k] = [tx |-> c, content |-> "partial"]
      PROVE  KeyOf[staging'[k].tx] = k
  BY <1>3
<1> QED
  BY <1>1, <1>2, <1>3, StagingChanges

\* BuiltInv is kept.
LEMMA BuiltStep ==
  ASSUME StoreInv, PromptInv, [Next]_vars
  PROVE  BuiltInv'
<1> SUFFICES ASSUME NEW k \in Keys, NEW c, staging'[k] # None, c = staging'[k].tx,
                    client'[c] = "built" \/ task'[c] \in Committing \cup {"c_detach"}
             PROVE  staging'[k].content = "built"
  BY DEF BuiltInv
<1>t. TypeOK
  BY DEF StoreInv
<1>1. CASE staging'[k] = staging[k]
  <2>1. c \in Clients /\ KeyOf[c] = k
    BY <1>1, <1>t DEF TypeOK, Files, PromptInv, PlaceInv
  <2>2. CASE client[c] = "built" \/ task[c] \in Committing \cup {"c_detach"}
    BY <1>1, <2>2 DEF PromptInv, BuiltInv
  <2>3. CASE Build(c) /\ client'[c] = "built"
    <3>1. staging' = [staging EXCEPT ![k].content = "built"] /\ staging[k] \in Files
      BY <1>1, <1>t, <2>1, <2>3 DEF Build, TypeOK
    <3>2. staging'[k] = [staging[k] EXCEPT !.content = "built"]
      BY <1>t, <3>1 DEF TypeOK
    <3> QED
      BY <3>1, <3>2 DEF Files
  <2> QED
    BY <2>1, <2>2, <2>3, CommitEnters
<1>2. ASSUME NEW d \in Clients, staging'[k] = [tx |-> d, content |-> "built"] PROVE staging'[k].content = "built"
  BY <1>2
<1>3. ASSUME NEW d \in Clients, KeyOf[d] = k, BeginNative(d), staging'[k] = [tx |-> d, content |-> "partial"],
             task'[d] = "idle", session'[d] = "open", staging[k] = None
      PROVE  FALSE
  <2>1. d = c
    BY <1>3
  <2>2. session[d] # "open"
    BY <1>3 DEF StoreInv, OneBuilder
  <2>3. client'[d] \in {"building", "killed"}
    BY <1>3, <2>2, SessionOpens
  <2> QED
    BY <1>3, <2>1, <2>3 DEF Committing, Writing
<1>4. ASSUME NEW d \in Clients, KeyOf[d] = k, task[d] \in {"c_meta", "c_complete"}, staging'[k] = parent[k].file
      PROVE  staging'[k].content = "built"
  <2>1. parent[k].file = [tx |-> d, content |-> "built"]
    BY <1>4 DEF PromptInv, OwnInv
  <2> QED
    BY <1>4, <2>1
<1> QED
  BY <1>1, <1>2, <1>3, <1>4, StagingChanges

\* AloneInv is kept.
LEMMA AloneStep ==
  ASSUME Prompt, StoreInv, PromptInv, [Next]_vars
  PROVE  AloneInv'
<1> SUFFICES ASSUME NEW c \in Clients, NEW d \in Clients, KeyOf[c] = KeyOf[d], c # d, task'[c] \in Committing
             PROVE  /\ task'[d] \notin Committing
                    /\ session'[d] = "open" => task'[d] = "idle" /\ client'[d] \in {"building", "killed"}
  BY DEF AloneInv
<1>i. \A e, f \in Clients : KeyOf[e] = KeyOf[f] /\ e # f /\ task[e] \in Committing =>
        /\ task[f] \notin Committing
        /\ session[f] = "open" => task[f] = "idle" /\ client[f] \in {"building", "killed"}
  BY DEF PromptInv, AloneInv
<1>o. ~(session[c] = "open" /\ session[d] = "open")
  BY DEF StoreInv, OneBuilder
<1>n. "idle" \notin Committing
  BY DEF Committing, Writing
<1>1. CASE session'[d] = "open" /\ session[d] # "open"
  BY <1>1, <1>n, SessionOpens
<1>2. CASE task[c] \in Committing /\ session[d] = "open"
  <2>1. task'[c] # "idle"
    BY <1>n
  <2>2. session'[d] = "open" /\ task'[d] = "idle" /\ client'[d] \in {"building", "killed"}
    BY <1>2, <1>i, <2>1, BuildsSlowly
  <2> QED
    BY <1>n, <2>2
<1>3. CASE task[c] \in Committing /\ session[d] # "open"
  BY <1>1, <1>3, <1>i, CommitEnters
<1>4. CASE task[c] \notin Committing
  <2>1. session[c] = "open" /\ task[c] = "c_detach"
    BY <1>4, CommitEnters
  <2>2. session[d] # "open" /\ task[d] \notin Committing
    BY <1>i, <1>o, <2>1
  <2> QED
    BY <1>1, <2>2, CommitEnters
<1> QED
  BY <1>2, <1>3, <1>4

\* OwnInv is kept.
LEMMA OwnStep ==
  ASSUME Prompt, StoreInv, PromptInv, [Next]_vars, NEW c \in Clients
  PROVE  /\ task'[c] \in {"c_check", "c_mkdir", "c_rename"} =>
               staging'[KeyOf[c]] = None \/ staging'[KeyOf[c]].tx = c \/ IsOpen(KeyOf[c])'
         /\ task'[c] \in {"c_meta", "c_complete"} => parent'[KeyOf[c]].file = [tx |-> c, content |-> "built"]
         /\ task'[c] = "c_complete" => parent'[KeyOf[c]].meta = c
<1> DEFINE k == KeyOf[c]
<1>t. TypeOK /\ k \in Keys /\ k = KeyOf[c]
  BY ParentAssumption DEF StoreInv
<1> HIDE DEF k
<1>i. /\ task[c] \in {"c_check", "c_mkdir", "c_rename"} =>
            staging[k] = None \/ staging[k].tx = c \/ IsOpen(k)
      /\ task[c] \in {"c_meta", "c_complete"} => parent[k].file = [tx |-> c, content |-> "built"]
      /\ task[c] = "c_complete" => parent[k].meta = c
  BY <1>t DEF PromptInv, OwnInv
<1>1. ASSUME task'[c] \in {"c_check", "c_mkdir", "c_rename"}, task[c] \in {"c_check", "c_mkdir", "c_rename"}
      PROVE  staging'[k] = None \/ staging'[k].tx = c \/ IsOpen(k)'
  <2>a. \A d \in Clients : KeyOf[d] = k /\ d # c =>
           /\ task[d] \notin Committing
           /\ session[d] = "open" => task[d] = "idle" /\ client[d] \in {"building", "killed"}
    BY <1>1, <1>t DEF PromptInv, AloneInv, Committing, Writing
  <2>1. CASE staging'[k] # staging[k] /\ staging'[k] # None
    <3>1. ASSUME NEW d \in Clients, KeyOf[d] = k, staging'[k] = [tx |-> d, content |-> "partial"],
                 session'[d] = "open"
          PROVE  IsOpen(k)'
      BY <2>1, <3>1 DEF IsOpen
    <3>2. ASSUME NEW d \in Clients, KeyOf[d] = k, task[d] \in {"c_meta", "c_complete"} PROVE FALSE
      BY <1>1, <2>a, <3>2 DEF Committing, Writing
    <3>3. ASSUME NEW d \in Clients, KeyOf[d] = k, Build(d), staging[k] # None, staging[k].tx = d,
                 staging'[k] = [tx |-> d, content |-> "built"]
          PROVE  staging'[k].tx = c \/ IsOpen(k)'
      <4>1. staging'[k].tx = d
        BY <3>3
      <4>2. CASE d # c
        <5>1. session[d] = "open"
          BY <1>i, <1>1, <3>3, <4>2 DEF IsOpen
        <5>2. session'[d] = "open"
          BY <3>3, <5>1 DEF Build
        <5> QED
          BY <2>1, <4>1, <5>2 DEF IsOpen
      <4> QED
        BY <4>1, <4>2
    <3> QED
      BY <1>t, <2>1, <3>1, <3>2, <3>3, StagingChanges, ZenonT(60)
  <2>2. CASE staging'[k] = staging[k] /\ staging[k] # None /\ staging[k].tx # c
    <3>1. IsOpen(k)
      BY <1>1, <1>i, <2>2
    <3>2. staging[k].tx \in Clients /\ KeyOf[staging[k].tx] = k
      BY <1>t, <2>2 DEF TypeOK, Files, PromptInv, PlaceInv
    <3>3. session'[staging[k].tx] = "open"
      BY <1>1, <1>t, <2>2, <2>a, <3>1, <3>2, BuildsSlowly DEF IsOpen, Committing, Writing
    <3> QED
      BY <2>2, <3>3 DEF IsOpen
  <2> QED
    BY <2>1, <2>2
<1>2. ASSUME task'[c] \in {"c_meta", "c_complete"}
      PROVE  /\ parent'[k].file = [tx |-> c, content |-> "built"]
             /\ task'[c] = "c_complete" => parent'[k].meta = c
  <2>w. task[c] \in Writing
    BY <1>2, CommitEnters
  <2>p. parent \in [Keys -> Parents \cup {None}] /\ parent[k] \in Parents /\ task \in [Clients -> Labels]
    BY <1>t, <2>w DEF StoreInv, WriterInv, TypeOK
  <2>1. CASE CommitRename(c)
    <3>1. /\ staging[k] # None /\ ~IsOpen(k) /\ task[c] = "c_rename" /\ task'[c] # "c_complete"
          /\ parent' = [parent EXCEPT ![k] = [parent[k] EXCEPT !.stage = "vhdx", !.file = staging[k]]]
      BY <1>2, <1>t, <2>1, <2>p DEF CommitRename, CommitFails, Answer, Goto
    <3>2. staging[k].tx = c /\ staging[k] \in Files
      BY <1>i, <1>t, <3>1 DEF TypeOK
    <3>3. staging[k].content = "built"
      BY <1>t, <3>1, <3>2 DEF PromptInv, BuiltInv, Committing, Writing
    <3>4. staging[k] = [tx |-> c, content |-> "built"]
      BY <3>2, <3>3 DEF Files
    <3> QED
      BY <1>t, <2>p, <3>1, <3>4 DEF Parents
  <2>2. CASE CommitMetadata(c)
    <3>1. /\ task[c] = "c_meta"
          /\ parent' = [parent EXCEPT ![k] = [parent[k] EXCEPT !.stage = "meta", !.meta = c]]
      BY <1>2, <1>t, <2>2, <2>p DEF CommitMetadata, Rollback, CommitFails, Answer, Goto
    <3> QED
      BY <1>i, <1>t, <2>p, <3>1 DEF Parents
  <2>3. CASE CommitComplete(c)
    BY <1>2, <2>3, <2>p DEF CommitComplete, Rollback, CommitFails, Answer, Goto
  <2>4. CASE ~(CommitRename(c) \/ CommitMetadata(c) \/ CommitComplete(c))
    <3>1. SameParent(parent[k], parent'[k])
      BY <1>t, <2>w, <2>4, WriterAlone
    <3>2. task'[c] = task[c]
      BY <1>2, <2>w, <2>4, WriterRests DEF Writing
    <3> QED
      BY <1>2, <1>i, <3>1, <3>2 DEF SameParent
  <2> QED
    BY <2>1, <2>2, <2>3, <2>4
<1>3. ASSUME task'[c] \in {"c_check", "c_mkdir", "c_rename"}
      PROVE  staging'[k] = None \/ staging'[k].tx = c \/ IsOpen(k)'
  BY <1>1, <1>3, <1>t, CommitEnters
<1> QED
  BY <1>2, <1>3, <1>t

\* What becomes valid was built by the commit that its metadata names.
LEMMA PublishedStep ==
  ASSUME StoreInv, PromptInv, [Next]_vars
  PROVE  PublishedIsVerified'
<1> SUFFICES ASSUME NEW k \in Keys, Valid(k)'
             PROVE  parent'[k].file = [tx |-> parent'[k].meta, content |-> "built"]
  BY DEF PublishedIsVerified, Valid
<1>1. CASE Valid(k) /\ SameParent(parent[k], parent'[k])
  BY <1>1 DEF SameParent, PromptInv, PublishedIsVerified
<1>2. ASSUME NEW c \in Clients, KeyOf[c] = k, task[c] = "c_complete",
             parent'[k].file = parent[k].file, parent'[k].meta = parent[k].meta
      PROVE  parent'[k].file = [tx |-> parent'[k].meta, content |-> "built"]
  BY <1>2 DEF PromptInv, OwnInv
<1> QED
  BY <1>1, <1>2, ParentChanges

\* A client builds, and the grace period of a pending record elapses, only while
\* no handler of the same key is at work: with this assumption what resolves as
\* a valid parent is the verified outcome of the transaction that its metadata
\* describes.
THEOREM PublishedVerified ==
  ASSUME Prompt PROVE Spec => []PublishedIsVerified
<1>1. Init => PromptInv
  BY DEF Init, PromptInv, PlaceInv, BuiltInv, AloneInv, OwnInv, PublishedIsVerified, Committing, Writing, Valid
<1>2. StoreInv /\ PromptInv /\ [Next]_vars => PromptInv'
  <2> SUFFICES ASSUME StoreInv, PromptInv, [Next]_vars PROVE PromptInv'
    OBVIOUS
  <2>1. OwnInv'
    BY OwnStep DEF OwnInv
  <2> QED
    BY <2>1, PlaceStep, BuiltStep, AloneStep, PublishedStep DEF PromptInv
<1>3. PromptInv => PublishedIsVerified
  BY DEF PromptInv
<1> QED
  BY <1>1, <1>2, <1>3, StoreInvariant, PTL DEF Spec
=============================================================================
