---------------------------- MODULE ParentStore ----------------------------
(***************************************************************************)
(* The immutable parent VHDX of a compatibility key: the transaction that  *)
(* builds and publishes it (Broker.beginParent, commitParent, abortParent  *)
(* over internal/vhdxworkspace/store.go), RecoverPending, the leases that  *)
(* refer to it, and garbage collection (ensureCapacityWithLimits).         *)
(*                                                                         *)
(* A testplay process makes at most one parent transaction, which is named *)
(* after it. Every step is one file-system or native operation of a        *)
(* request handler; handlers run without a common lock.                    *)
(***************************************************************************)
EXTENDS Naturals

CONSTANTS
    Keys,         \* compatibility keys
    Clients,      \* testplay processes
    KeyOf,        \* the key each of them needs
    None,
    MaxFaults,    \* bound: failures of native calls, builds and writes
    MaxKills,     \* bound: testplay processes that are killed
    MaxOutages,   \* bound: broker crashes and reboots
    Prompt        \* TRUE: a handler takes less time than a Unity build and than
                  \* the grace period of a pending record; FALSE: no such assumption

VARIABLES
    pending,     \* pending/<key>: None, or the directory with the transaction
                 \* of its pending.json (None: not there) and whether UpdatedAt
                 \* is within the grace period
    staging,     \* pending/<key>/parent.staging.vhdx: None or a file
    parent,      \* parents/<key>: None, or the directory: how far it is
                 \* published, its VHDX file, whose metadata.json, and whether
                 \* LastUsedAt is older than ParentTTL
    quarantine,  \* the transactions whose directory lies in quarantine/
    lease,       \* the client's lease journal: none, journaled, attached (its
                 \* child is open, and so is the parent), retained
    session,     \* Broker.parents: the attachment of the client's transaction
    task,        \* where the handler of the client's request is
    client,      \* the testplay process
    gc,          \* a garbage collection: keys still to be removed
    rec,         \* a RecoverPending pass
    late,        \* history: leases journaled since gc read what is protected
    up, faults, kills, outages

disk == <<pending, staging, parent, quarantine, lease>>
bounds == <<faults, kills, outages>>
vars == <<disk, session, task, client, gc, rec, late, up, bounds>>

Files    == [tx: Clients, content: {"partial", "built"}]
Pendings == [tx: Clients \cup {None}, fresh: BOOLEAN]
Parents  == [stage: {"dir", "vhdx", "meta", "valid"}, file: Files \cup {None},
             meta: Clients \cup {None}, old: BOOLEAN]
Labels   == {"idle", "b_mkdir", "b_json", "b_native", "c_detach", "c_verify",
             "c_check", "c_mkdir", "c_rename", "c_meta", "c_complete", "c_unjson",
             "c_rmdir", "x_close", "x_check", "x_unjson", "x_rmdir", "l_journal", "l_child"}
ClientStates == {"start", "asking", "waiting", "building", "built", "committing",
                 "failing", "aborting", "resolved", "acquiring", "leased",
                 "done", "failed", "killed"}

ASSUME ParentAssumption ==
    /\ None \notin Clients /\ None \notin Keys
    /\ None \notin Files /\ None \notin Pendings /\ None \notin Parents
    /\ KeyOf \in [Clients -> Keys]
    /\ MaxFaults \in Nat /\ MaxKills \in Nat /\ MaxOutages \in Nat
    /\ Prompt \in BOOLEAN

TypeOK ==
    /\ pending \in [Keys -> Pendings \cup {None}]
    /\ staging \in [Keys -> Files \cup {None}]
    /\ parent \in [Keys -> Parents \cup {None}]
    /\ quarantine \in SUBSET Clients
    /\ lease \in [Clients -> {"none", "journaled", "attached", "retained"}]
    /\ session \in [Clients -> {"none", "open", "closed"}]
    /\ task \in [Clients -> Labels]
    /\ client \in [Clients -> ClientStates]
    /\ gc \in [pc: {"idle", "remove", "unlink"}, cur: Keys \cup {None}, todo: SUBSET Keys]
    /\ rec \in [pc: {"idle", "pick", "unjson", "rmdir", "rename"},
                cur: Keys \cup {None}, todo: SUBSET Keys]
    /\ late \in SUBSET Clients
    /\ up \in {"down", "starting", "serving"}
    /\ faults \in 0 .. MaxFaults /\ kills \in 0 .. MaxKills /\ outages \in 0 .. MaxOutages

-----------------------------------------------------------------------------
Alive(c) == client[c] \notin {"done", "failed", "killed"}
IsOpen(k) == staging[k] # None /\ session[staging[k].tx] = "open"
IsAttached(k) == \E c \in Clients : KeyOf[c] = k /\ lease[c] = "attached"

\* Store.ResolveParent
Missing(k) == parent[k] = None
Valid(k)   == parent[k] # None /\ parent[k].stage = "valid"
\* native VerifyParent: the file is the one the metadata describes
Verified(k) == Valid(k) /\ parent[k].file # None /\ parent[k].file.tx = parent[k].meta

Fault == faults < MaxFaults /\ faults' = faults + 1
Goto(c, pc) == task' = [task EXCEPT ![c] = pc]
\* The handler answers; a killed client does not hear it.
Answer(c, state) ==
    /\ Goto(c, "idle")
    /\ client' = [client EXCEPT ![c] = IF Alive(c) THEN state ELSE @]
\* A client that hears of a failed commit asks for the transaction's abort.
CommitFails(c) == Answer(c, "failing")

Init ==
    /\ pending = [k \in Keys |-> None]
    /\ staging = [k \in Keys |-> None]
    /\ parent = [k \in Keys |-> None]
    /\ quarantine = {}
    /\ lease = [c \in Clients |-> "none"]
    /\ session = [c \in Clients |-> "none"]
    /\ task = [c \in Clients |-> "idle"]
    /\ client = [c \in Clients |-> "start"]
    /\ gc = [pc |-> "idle", cur |-> None, todo |-> {}]
    /\ rec = [pc |-> "idle", cur |-> None, todo |-> {}]
    /\ late = {}
    /\ up = "serving"
    /\ faults = 0 /\ kills = 0 /\ outages = 0

-----------------------------------------------------------------------------
(* Broker.beginParent, asked for again every 250 ms while it says "waiting" *)

Touch(k) == parent' = [parent EXCEPT ![k].old = FALSE]

\* Mutant: a valid parent is not returned but asked for again.
BeginParentRebuilds(c) ==
    /\ up = "serving" /\ task[c] = "idle" /\ client[c] \in {"start", "waiting"}
    /\ Goto(c, "b_mkdir")
    /\ client' = [client EXCEPT ![c] = "asking"]
    /\ UNCHANGED <<disk, session, gc, rec, late, up, bounds>>

BeginParent(c) ==
    LET k == KeyOf[c] IN
    /\ up = "serving" /\ task[c] = "idle" /\ client[c] \in {"start", "waiting"}
    /\ \/ /\ Verified(k)
          /\ Touch(k)
          /\ Answer(c, "resolved")
       \/ /\ ~Missing(k) /\ ~Verified(k)
          /\ Answer(c, "failed")
          /\ UNCHANGED parent
       \/ /\ Missing(k)
          /\ Goto(c, "b_mkdir")
          /\ client' = [client EXCEPT ![c] = "asking"]
          /\ UNCHANGED parent
    /\ UNCHANGED <<pending, staging, quarantine, lease, session, gc, rec, late, up, bounds>>

\* The two removals of the pending directory; the second takes an empty one only.
RemoveJson(k) == pending' = [pending EXCEPT ![k] = IF @ = None THEN None ELSE [@ EXCEPT !.tx = None]]
DirIsEmpty(k) == pending[k] # None /\ pending[k].tx = None /\ staging[k] = None
RemoveDir(k) == pending' = [pending EXCEPT ![k] = IF DirIsEmpty(k) THEN None ELSE @]

\* Store.BeginParent: the parent is resolved again, then the directory that
\* makes the pending record exclusive is created.
BeginMkdir(c) ==
    LET k == KeyOf[c] IN
    /\ task[c] = "b_mkdir"
    /\ IF Valid(k) \/ pending[k] # None
       THEN Answer(c, "waiting") /\ UNCHANGED pending
       ELSE /\ pending' = [pending EXCEPT ![k] = [tx |-> None, fresh |-> FALSE]]
            /\ Goto(c, "b_json")
            /\ UNCHANGED client
    /\ UNCHANGED <<staging, parent, quarantine, lease, session, gc, rec, late, up, bounds>>

BeginJson(c) ==
    LET k == KeyOf[c]
        ok == pending[k] # None /\ pending[k].tx = None IN
    /\ task[c] = "b_json"
    /\ \/ /\ ok
          /\ pending' = [pending EXCEPT ![k] = [tx |-> c, fresh |-> TRUE]]
          /\ Goto(c, "b_native")
          /\ UNCHANGED <<client, faults>>
       \/ /\ IF ok THEN Fault ELSE UNCHANGED faults
          /\ RemoveDir(k)
          /\ Answer(c, "failed")
    /\ UNCHANGED <<staging, parent, quarantine, lease, session, gc, rec, late, up, kills, outages>>

\* native BeginParent re-creates the directory if it is gone, then creates,
\* attaches and mounts the staging VHDX; a failure takes the record back.
BeginNative(c) ==
    LET k == KeyOf[c] IN
    /\ task[c] = "b_native"
    /\ \/ /\ staging[k] = None
          /\ pending' = [pending EXCEPT ![k] = IF @ = None THEN [tx |-> None, fresh |-> FALSE] ELSE @]
          /\ staging' = [staging EXCEPT ![k] = [tx |-> c, content |-> "partial"]]
          /\ session' = [session EXCEPT ![c] = "open"]
          /\ Answer(c, "building")
          /\ UNCHANGED faults
       \/ /\ IF staging[k] = None THEN Fault ELSE UNCHANGED faults
          /\ Goto(c, "x_check")
          /\ UNCHANGED <<pending, staging, session, client>>
    /\ UNCHANGED <<parent, quarantine, lease, gc, rec, late, up, kills, outages>>

-----------------------------------------------------------------------------
(* The client: Unity imports into the mounted staging VHDX, then the client *)
(* asks for the commit, or, after a failure, for the abort.                 *)

\* Mutant: the exit code of the Unity build is not looked at.
BuildIgnoresExit(c) ==
    /\ client[c] = "building"
    /\ client' = [client EXCEPT ![c] = "built"]
    /\ UNCHANGED <<disk, session, task, gc, rec, late, up, bounds>>

Build(c) ==
    LET k == KeyOf[c] IN
    /\ client[c] = "building"
    /\ Prompt => \A d \in Clients : KeyOf[d] = k => task[d] \in {"idle", "b_mkdir"}
    /\ \/ /\ session[c] = "open" /\ staging[k] # None /\ staging[k].tx = c
          /\ staging' = [staging EXCEPT ![k].content = "built"]
          /\ client' = [client EXCEPT ![c] = "built"]
       \/ /\ client' = [client EXCEPT ![c] = "failing"]
          /\ UNCHANGED staging
    /\ UNCHANGED <<pending, parent, quarantine, lease, session, task, gc, rec, late, up, bounds>>

CommitParent(c) ==
    /\ client[c] = "built" /\ task[c] = "idle"
    /\ IF up = "serving" /\ session[c] # "none"
       THEN Goto(c, "c_detach") /\ client' = [client EXCEPT ![c] = "committing"]
       ELSE client' = [client EXCEPT ![c] = "failing"] /\ UNCHANGED task
    /\ UNCHANGED <<disk, session, gc, rec, late, up, bounds>>

\* ParentSession.Finalize: flush, unmount, detach, close ...
CommitDetach(c) ==
    /\ task[c] = "c_detach"
    /\ \/ /\ session[c] = "open"
          /\ session' = [session EXCEPT ![c] = "closed"]
          /\ Goto(c, "c_verify")
          /\ UNCHANGED <<client, faults>>
       \/ /\ IF session[c] = "open" THEN Fault ELSE UNCHANGED faults
          /\ CommitFails(c)
          /\ UNCHANGED session
    /\ UNCHANGED <<disk, gc, rec, late, up, kills, outages>>

\* ... then reattach read-only and verify the disk identity; that the Library
\* root is not empty does not tell a partial import from a whole one.
CommitVerify(c) ==
    LET k == KeyOf[c]
        ok == staging[k] # None /\ staging[k].tx = c IN
    /\ task[c] = "c_verify"
    /\ \/ /\ ok
          /\ Goto(c, "c_check")
          /\ UNCHANGED <<client, faults>>
       \/ /\ IF ok THEN Fault ELSE UNCHANGED faults
          /\ CommitFails(c)
    /\ UNCHANGED <<disk, session, gc, rec, late, up, kills, outages>>

\* Store.CommitParent: the pending record is still this transaction's.
CommitCheck(c) ==
    LET p == pending[KeyOf[c]] IN
    /\ task[c] = "c_check"
    /\ IF p # None /\ p.tx = c
       THEN Goto(c, "c_mkdir") /\ UNCHANGED client
       ELSE CommitFails(c)
    /\ UNCHANGED <<disk, session, gc, rec, late, up, bounds>>

CommitMkdir(c) ==
    LET k == KeyOf[c] IN
    /\ task[c] = "c_mkdir"
    /\ IF Missing(k)
       THEN /\ parent' = [parent EXCEPT ![k] = [stage |-> "dir", file |-> None,
                                                meta |-> None, old |-> FALSE]]
            /\ Goto(c, "c_rename")
            /\ UNCHANGED client
       ELSE CommitFails(c) /\ UNCHANGED parent
    /\ UNCHANGED <<pending, staging, quarantine, lease, session, gc, rec, late, up, bounds>>

\* The VHDX moves first; when that fails the new directory is left behind.
CommitRename(c) ==
    LET k == KeyOf[c]
        ok == staging[k] # None /\ ~IsOpen(k) IN
    /\ task[c] = "c_rename"
    /\ \/ /\ ok
          /\ parent' = [parent EXCEPT ![k] = [@ EXCEPT !.stage = "vhdx", !.file = staging[k]]]
          /\ staging' = [staging EXCEPT ![k] = None]
          /\ Goto(c, "c_meta")
          /\ UNCHANGED <<client, faults>>
       \/ /\ IF ok THEN Fault ELSE UNCHANGED faults
          /\ CommitFails(c)
          /\ UNCHANGED <<parent, staging>>
    /\ UNCHANGED <<pending, quarantine, lease, session, gc, rec, late, up, kills, outages>>

\* The rollback moves the VHDX back, if its pending directory is still there.
Rollback(c) ==
    LET k == KeyOf[c] IN
    /\ CommitFails(c)
    /\ IF pending[k] # None /\ staging[k] = None
       THEN /\ staging' = [staging EXCEPT ![k] = parent[k].file]
            /\ parent' = [parent EXCEPT ![k] = None]
       ELSE /\ parent' = [parent EXCEPT ![k] = [@ EXCEPT !.stage = "vhdx", !.meta = None]]
            /\ UNCHANGED staging

\* Mutant: the key is written where the owner of the transaction belongs.
CommitMetadataSwapped(c) ==
    LET k == KeyOf[c] IN
    /\ task[c] = "c_meta"
    /\ parent' = [parent EXCEPT ![k] = [@ EXCEPT !.stage = "meta", !.meta = k]]
    /\ Goto(c, "c_complete")
    /\ UNCHANGED <<pending, staging, quarantine, lease, session, client, gc, rec, late, up, bounds>>

CommitMetadata(c) ==
    LET k == KeyOf[c] IN
    /\ task[c] = "c_meta"
    /\ \/ /\ parent' = [parent EXCEPT ![k] = [@ EXCEPT !.stage = "meta", !.meta = c]]
          /\ Goto(c, "c_complete")
          /\ UNCHANGED <<staging, client, faults>>
       \/ Fault /\ Rollback(c)
    /\ UNCHANGED <<pending, quarantine, lease, session, gc, rec, late, up, kills, outages>>

CommitComplete(c) ==
    LET k == KeyOf[c] IN
    /\ task[c] = "c_complete"
    /\ \/ /\ parent' = [parent EXCEPT ![k] = [@ EXCEPT !.stage = "valid"]]
          /\ Goto(c, "c_unjson")
          /\ UNCHANGED <<staging, client, faults>>
       \/ Fault /\ Rollback(c)
    /\ UNCHANGED <<pending, quarantine, lease, session, gc, rec, late, up, kills, outages>>

\* Errors of the two removals are ignored.
CommitUnjson(c) ==
    /\ task[c] = "c_unjson"
    /\ RemoveJson(KeyOf[c])
    /\ Goto(c, "c_rmdir")
    /\ UNCHANGED <<staging, parent, quarantine, lease, session, client, gc, rec, late, up, bounds>>

CommitRmdir(c) ==
    /\ task[c] = "c_rmdir"
    /\ RemoveDir(KeyOf[c])
    /\ session' = [session EXCEPT ![c] = "none"]
    /\ Answer(c, "resolved")
    /\ UNCHANGED <<staging, parent, quarantine, lease, gc, rec, late, up, bounds>>

-----------------------------------------------------------------------------
(* Broker.abortParent *)

AbortParent(c) ==
    /\ client[c] = "failing" /\ task[c] = "idle"
    /\ IF up = "serving" /\ session[c] # "none"
       THEN Goto(c, "x_close") /\ client' = [client EXCEPT ![c] = "aborting"]
       ELSE client' = [client EXCEPT ![c] = "failed"] /\ UNCHANGED task
    /\ UNCHANGED <<disk, session, gc, rec, late, up, bounds>>

\* ParentSession.Abort: close, then delete the file at the staging path.
AbortClose(c) ==
    LET k == KeyOf[c]
        foreign == IsOpen(k) /\ staging[k].tx # c IN
    /\ task[c] = "x_close"
    /\ \/ /\ ~foreign
          /\ session' = [session EXCEPT ![c] = "closed"]
          /\ staging' = [staging EXCEPT ![k] = None]
          /\ Goto(c, "x_check")
          /\ UNCHANGED <<client, faults>>
       \/ /\ IF foreign THEN UNCHANGED faults ELSE Fault
          /\ Answer(c, "failed")
          /\ UNCHANGED <<session, staging>>
    /\ UNCHANGED <<pending, parent, quarantine, lease, gc, rec, late, up, kills, outages>>

\* Store.AbortParent: only this transaction's record, alone in its directory.
AbortCheck(c) ==
    LET k == KeyOf[c] IN
    /\ task[c] = "x_check"
    /\ IF pending[k] # None /\ pending[k].tx = c /\ staging[k] = None
       THEN Goto(c, "x_unjson") /\ UNCHANGED client
       ELSE Answer(c, "failed")
    /\ UNCHANGED <<disk, session, gc, rec, late, up, bounds>>

\* Its path is removed, whosever record it is by now.
AbortUnjson(c) ==
    LET k == KeyOf[c] IN
    /\ task[c] = "x_unjson"
    /\ IF pending[k] # None /\ pending[k].tx # None
       THEN RemoveJson(k) /\ Goto(c, "x_rmdir") /\ UNCHANGED client
       ELSE Answer(c, "failed") /\ UNCHANGED pending
    /\ UNCHANGED <<staging, parent, quarantine, lease, session, gc, rec, late, up, bounds>>

AbortRmdir(c) ==
    /\ task[c] = "x_rmdir"
    /\ RemoveDir(KeyOf[c])
    /\ session' = [session EXCEPT ![c] = IF DirIsEmpty(KeyOf[c]) THEN "none" ELSE @]
    /\ Answer(c, "failed")
    /\ UNCHANGED <<staging, parent, quarantine, lease, gc, rec, late, up, bounds>>

-----------------------------------------------------------------------------
(* What a lease needs of its parent; its own life is LeaseBroker's subject. *)

Acquire(c) ==
    LET k == KeyOf[c] IN
    /\ client[c] = "resolved" /\ task[c] = "idle"
    /\ \/ /\ up = "serving" /\ Verified(k)
          /\ Touch(k)
          /\ Goto(c, "l_journal")
          /\ client' = [client EXCEPT ![c] = "acquiring"]
          /\ UNCHANGED faults
       \/ /\ IF up = "serving" /\ Verified(k) THEN Fault ELSE UNCHANGED faults
          /\ Answer(c, "failed")
          /\ UNCHANGED parent
    /\ UNCHANGED <<pending, staging, quarantine, lease, session, gc, rec, late, up, kills, outages>>

AcquireJournal(c) ==
    /\ task[c] = "l_journal"
    /\ lease' = [lease EXCEPT ![c] = "journaled"]
    /\ late' = late \cup {c}
    /\ Goto(c, "l_child")
    /\ UNCHANGED <<pending, staging, parent, quarantine, session, client, gc, rec, up, bounds>>

\* The differencing child opens the parent's VHDX; without it there is none.
AcquireChild(c) ==
    LET k == KeyOf[c]
        ok == parent[k] # None /\ parent[k].file # None IN
    /\ task[c] = "l_child"
    /\ \/ /\ ok
          /\ lease' = [lease EXCEPT ![c] = "attached"]
          /\ Answer(c, "leased")
          /\ UNCHANGED faults
       \/ /\ IF ok THEN Fault ELSE UNCHANGED faults
          /\ lease' = [lease EXCEPT ![c] = "none"]
          /\ Answer(c, "failed")
    /\ UNCHANGED <<pending, staging, parent, quarantine, session, gc, rec, late, up, kills, outages>>

Release(c) ==
    /\ up = "serving" /\ client[c] = "leased"
    /\ \E after \in {"none", "retained"} : lease' = [lease EXCEPT ![c] = after]
    /\ client' = [client EXCEPT ![c] = "done"]
    /\ UNCHANGED <<pending, staging, parent, quarantine, session, task, gc, rec, late, up, bounds>>

\* Broker.Recover on the lease of a client that is gone.
RecoverLease(c) ==
    /\ up = "serving" /\ ~Alive(c) /\ task[c] = "idle"
    /\ lease[c] \in {"journaled", "attached"}
    /\ lease' = [lease EXCEPT ![c] = "none"]
    /\ UNCHANGED <<pending, staging, parent, quarantine, session, task, client, gc, rec, late, up, bounds>>

-----------------------------------------------------------------------------
(* ensureCapacityWithLimits, asked for by `storage gc` or by an admission   *)
(* that does not fit.                                                       *)

\* Mutant: only the attached children protect their parent, not the journals
\* and the retained records.
ProtectedByChildren == {KeyOf[c] : c \in {d \in Clients : lease[d] = "attached"}} \cup {k \in Keys : pending[k] # None}

Protected == {KeyOf[c] : c \in {d \in Clients : lease[d] # "none"}} \cup {k \in Keys : pending[k] # None}

GcList ==
    /\ up = "serving" /\ gc.pc = "idle"
    /\ quarantine = {}
    /\ \A k \in Keys : pending[k] # None => pending[k].tx # None
    /\ LET listed == {k \in Keys : parent[k] # None /\ parent[k].stage \in {"meta", "valid"} /\ parent[k].old}
       IN gc' = [pc |-> "remove", cur |-> None, todo |-> listed \ Protected]
    /\ late' = {}
    /\ UNCHANGED <<disk, session, task, client, rec, up, bounds>>

GcDone == gc' = [pc |-> "idle", cur |-> None, todo |-> {}]

\* RemoveParentIfUnused: os.RemoveAll takes COMPLETE and metadata.json ...
GcRemove(k) ==
    /\ gc.pc = "remove" /\ k \in gc.todo
    /\ IF Valid(k)
       THEN /\ parent' = [parent EXCEPT ![k] = [@ EXCEPT !.stage = "vhdx", !.meta = None]]
            /\ gc' = [pc |-> "unlink", cur |-> k, todo |-> gc.todo \ {k}]
       ELSE GcDone /\ UNCHANGED parent
    /\ UNCHANGED <<pending, staging, quarantine, lease, session, task, client, rec, late, up, bounds>>

\* ... and then parent.vhdx, which fails while a child has it open.
GcUnlink(k) ==
    /\ gc.pc = "unlink" /\ gc.cur = k
    /\ IF IsAttached(k)
       THEN GcDone /\ UNCHANGED parent
       ELSE /\ parent' = [parent EXCEPT ![k] = None]
            /\ gc' = [gc EXCEPT !.pc = "remove", !.cur = None]
    /\ UNCHANGED <<pending, staging, quarantine, lease, session, task, client, rec, late, up, bounds>>

\* Nothing left, or the quota is met.
GcStop ==
    /\ gc.pc = "remove"
    /\ GcDone
    /\ UNCHANGED <<disk, session, task, client, rec, late, up, bounds>>

-----------------------------------------------------------------------------
(* Store.RecoverPending, at the beginning of every Recover pass *)

StartPass == rec' = [pc |-> "pick", cur |-> None, todo |-> {k \in Keys : pending[k] # None}]
NextEntry == rec' = [rec EXCEPT !.pc = "pick", !.cur = None]
PassAborts ==
    /\ rec' = [pc |-> "idle", cur |-> None, todo |-> {}]
    /\ up' = IF up = "starting" THEN "down" ELSE up

RecoverTick ==
    /\ up = "serving" /\ rec.pc = "idle"
    /\ \E k \in Keys : pending[k] # None
    /\ StartPass
    /\ UNCHANGED <<disk, session, task, client, gc, late, up, bounds>>

RecoverPick(k) ==
    LET p == pending[k]
        preserved == p = None \/ p.tx = None \/ p.fresh \/ Alive(p.tx) IN
    /\ rec.pc = "pick" /\ k \in rec.todo
    /\ rec' = IF preserved
              THEN [rec EXCEPT !.todo = @ \ {k}]
              ELSE [pc |-> IF staging[k] = None THEN "unjson" ELSE "rename",
                    cur |-> k, todo |-> rec.todo \ {k}]
    /\ UNCHANGED <<disk, session, task, client, gc, late, up, bounds>>

RecoverDone ==
    /\ rec.pc = "pick" /\ rec.todo = {}
    /\ rec' = [rec EXCEPT !.pc = "idle"]
    /\ up' = "serving"
    /\ UNCHANGED <<disk, session, task, client, gc, late, bounds>>

RecoverUnjson(k) ==
    /\ rec.pc = "unjson" /\ rec.cur = k
    /\ IF pending[k] # None /\ pending[k].tx # None
       THEN RemoveJson(k) /\ rec' = [rec EXCEPT !.pc = "rmdir"] /\ UNCHANGED up
       ELSE PassAborts /\ UNCHANGED pending
    /\ UNCHANGED <<staging, parent, quarantine, lease, session, task, client, gc, late, bounds>>

RecoverRmdir(k) ==
    /\ rec.pc = "rmdir" /\ rec.cur = k
    /\ RemoveDir(k)
    /\ IF DirIsEmpty(k) THEN NextEntry /\ UNCHANGED up ELSE PassAborts
    /\ UNCHANGED <<staging, parent, quarantine, lease, session, task, client, gc, late, bounds>>

\* Mutant: the directory is moved although its VHDX is open.
RecoverRenameForced(k) ==
    /\ rec.pc = "rename" /\ rec.cur = k
    /\ IF pending[k] # None
       THEN /\ quarantine' = quarantine \cup ({pending[k].tx} \ {None})
            /\ pending' = [pending EXCEPT ![k] = None]
            /\ staging' = [staging EXCEPT ![k] = None]
       ELSE UNCHANGED <<quarantine, pending, staging>>
    /\ NextEntry
    /\ UNCHANGED <<parent, lease, session, task, client, gc, late, up, bounds>>

\* A directory that holds an open file cannot be renamed.
RecoverRename(k) ==
    /\ rec.pc = "rename" /\ rec.cur = k
    /\ IF pending[k] # None /\ ~IsOpen(k)
       THEN /\ quarantine' = quarantine \cup ({pending[k].tx} \ {None})
            /\ pending' = [pending EXCEPT ![k] = None]
            /\ staging' = [staging EXCEPT ![k] = None]
       ELSE UNCHANGED <<quarantine, pending, staging>>
    /\ NextEntry
    /\ UNCHANGED <<parent, lease, session, task, client, gc, late, up, bounds>>

-----------------------------------------------------------------------------
(* Processes and time *)

ClientKilled(c) ==
    /\ Alive(c) /\ kills < MaxKills
    /\ kills' = kills + 1
    /\ client' = [client EXCEPT ![c] = "killed"]
    /\ UNCHANGED <<disk, session, task, gc, rec, late, up, faults, outages>>

\* A client that needs the broker while it is down gives up.
ClientRefused(c) ==
    /\ up # "serving" /\ task[c] = "idle" /\ client[c] \in {"start", "waiting"}
    /\ client' = [client EXCEPT ![c] = "failed"]
    /\ UNCHANGED <<disk, session, task, gc, rec, late, up, bounds>>

\* The pending record falls out of the grace period; it is never refreshed.
GraceElapses(k) ==
    /\ pending[k] # None /\ pending[k].fresh
    /\ Prompt => \A c \in Clients : KeyOf[c] = k => task[c] = "idle"
    /\ pending' = [pending EXCEPT ![k].fresh = FALSE]
    /\ UNCHANGED <<staging, parent, quarantine, lease, session, task, client, gc, rec, late, up, bounds>>

\* ParentTTL passes; no request takes that long.
ParentAges(k) ==
    /\ Valid(k) /\ ~parent[k].old
    /\ \A c \in Clients : KeyOf[c] = k => task[c] = "idle" /\ client[c] \notin {"resolved", "built"}
    /\ parent' = [parent EXCEPT ![k].old = TRUE]
    /\ UNCHANGED <<pending, staging, quarantine, lease, session, task, client, gc, rec, late, up, bounds>>

\* The broker process ends: its handles close and its requests break off.
Interrupted(c) ==
    CASE client[c] \in {"asking", "aborting", "acquiring"} -> "failed"
      [] client[c] = "committing" -> "failing"
      [] OTHER -> client[c]

LoseProcess ==
    /\ outages < MaxOutages /\ outages' = outages + 1
    /\ up' = "down"
    /\ session' = [c \in Clients |-> "none"]
    /\ task' = [c \in Clients |-> "idle"]
    /\ lease' = [c \in Clients |-> IF lease[c] = "attached" THEN "journaled" ELSE lease[c]]
    /\ gc' = [pc |-> "idle", cur |-> None, todo |-> {}]
    /\ rec' = [pc |-> "idle", cur |-> None, todo |-> {}]
    /\ UNCHANGED <<pending, staging, parent, quarantine, late, faults, kills>>

BrokerCrash ==
    /\ up # "down" /\ LoseProcess
    /\ client' = [c \in Clients |-> Interrupted(c)]

Reboot ==
    /\ LoseProcess
    /\ client' = [c \in Clients |-> IF Alive(c) THEN "killed" ELSE client[c]]

BrokerStart ==
    /\ up = "down"
    /\ up' = "starting"
    /\ StartPass
    /\ UNCHANGED <<disk, session, task, client, gc, late, bounds>>

-----------------------------------------------------------------------------
Handler(c) ==
    \/ BeginMkdir(c) \/ BeginJson(c) \/ BeginNative(c)
    \/ CommitDetach(c) \/ CommitVerify(c) \/ CommitCheck(c) \/ CommitMkdir(c) \/ CommitRename(c)
    \/ CommitMetadata(c) \/ CommitComplete(c) \/ CommitUnjson(c) \/ CommitRmdir(c)
    \/ AbortClose(c) \/ AbortCheck(c) \/ AbortUnjson(c) \/ AbortRmdir(c)
    \/ AcquireJournal(c) \/ AcquireChild(c)

Client(c) ==
    \/ BeginParent(c) \/ Build(c) \/ CommitParent(c) \/ AbortParent(c) \/ Acquire(c) \/ Release(c)
    \/ ClientRefused(c)

Collect == GcStop \/ \E k \in Keys : GcRemove(k) \/ GcUnlink(k)
RecoverEntry ==
    \/ RecoverDone
    \/ \E k \in Keys : RecoverPick(k) \/ RecoverUnjson(k) \/ RecoverRmdir(k) \/ RecoverRename(k)

Next ==
    \/ \E c \in Clients : Handler(c) \/ Client(c) \/ RecoverLease(c) \/ ClientKilled(c)
    \/ GcList \/ Collect \/ RecoverTick \/ RecoverEntry
    \/ \E k \in Keys : GraceElapses(k) \/ ParentAges(k)
    \/ BrokerCrash \/ Reboot \/ BrokerStart

Spec == Init /\ [][Next]_vars

\* The broker's goroutines run, its ticker fires, and a broker that is down is
\* started again, at the latest by the next boot (StartAutomatic); testplay
\* polls, and its Unity builds end; time passes.
Fairness ==
    /\ \A c \in Clients : WF_vars(Handler(c)) /\ WF_vars(Client(c))
    /\ WF_vars(Collect) /\ WF_vars(RecoverTick) /\ WF_vars(RecoverEntry) /\ WF_vars(BrokerStart)
    /\ \A k \in Keys : WF_vars(GraceElapses(k))

FairSpec == Spec /\ Fairness

-----------------------------------------------------------------------------
(* Properties *)

\* What resolves as a valid parent is the verified outcome of the transaction
\* that its metadata describes, never a partial or a foreign VHDX - whatever
\* handler, crash, rollback or quarantine came in between.
PublishedIsVerified ==
    \A k \in Keys : Valid(k) => parent[k].file = [tx |-> parent[k].meta, content |-> "built"]

\* One builder per key: two transactions never have a staging VHDX of the same
\* key mounted, and the mounted one is the file in the pending directory, which
\* nobody moves or deletes as long as it is mounted.
OneBuilder ==
    \A c \in Clients : session[c] = "open" =>
        /\ pending[KeyOf[c]] # None
        /\ staging[KeyOf[c]] # None /\ staging[KeyOf[c]].tx = c

\* A published parent is immutable, and disappears only by garbage collection
\* and under no lease that the collection could see ("Pending, active, retained,
\* and quarantined files are never LRU-deleted").
PublishedStays ==
    [][\A k \in Keys : Valid(k) =>
          \/ Valid(k)' /\ parent'[k].file = parent[k].file /\ parent'[k].meta = parent[k].meta
          \/ /\ gc.pc = "remove" /\ k \in gc.todo
             /\ \A c \in Clients : KeyOf[c] = k /\ lease[c] # "none" => c \in late]_vars

\* A client that waits for another's build gets an answer, or builds the parent
\* itself, unless after a kill, a crash or a failed write the builder is gone
\* and has left its pending directory behind.
LeftBehind(k) ==
    faults + kills + outages > 0 /\ pending[k] # None /\ (pending[k].tx = None \/ ~Alive(pending[k].tx))
WaitingEnds ==
    \A c \in Clients :
        client[c] = "waiting" ~> (client[c] \notin {"waiting", "asking"} \/ LeftBehind(KeyOf[c]))
=============================================================================
