------------------------ MODULE StorageHelperProofs ------------------------
(* Machine-checked proofs about StorageHelper, for every set of request ids   *)
(* and every number of helpers, faults, crashes and replacements.             *)
EXTENDS StorageHelper, TLAPS

-----------------------------------------------------------------------------
(* The inductive invariant *)

\* Where the helper acquires (from the journal on), removes a child, and releases.
AcquireLabels == {"a_begin", "a_create", "a_clone", "a_own", "a_mounting", "a_unmake", "a_link",
                  "a_ready", "f_mount", "f_dir", "f_end"}
RemoveLabels == {"x_check", "x_rename", "x_again", "x_remove"}
ReleaseLabels == {"u_begin", "u_unmount", "u_link", "u_dir", "u_child", "u_note", "u_failed",
                  "u_end"}
Labels == {"down", "exited", "idle", "a_journal"}
              \cup AcquireLabels \cup RemoveLabels \cup ReleaseLabels
Contents == {"none", "bare", "mine", "foreign"}
Mounts == {"absent", "dir", "link", "foreign"}

TypeOK ==
    /\ journal \in [Leases -> Live \cup {"none", "released"}]
    /\ child \in Contents /\ grave \in Contents /\ mount \in Mounts
    /\ pc \in Labels
    /\ cur.op \in {"none", "acquire", "release", "shutdown", "eof"}
    /\ active \in Leases \cup {0} /\ next \in Nat \ {0} /\ tampers \in Nat
    /\ lease \in [delete: BOOLEAN, existed: BOOLEAN, owned: BOOLEAN, released: BOOLEAN]
    /\ granted \subseteq Leases /\ freed \subseteq Leases

\* The request that is served says whether a lease is acquired or released, and from
\* its journal on there is an active lease.
Serving ==
    /\ pc \in AcquireLabels \cup {"a_journal"} => cur.op = "acquire"
    /\ pc \in ReleaseLabels => cur.op # "acquire"
    /\ pc \in AcquireLabels \cup RemoveLabels \cup ReleaseLabels => active # 0
    /\ pc \in {"a_journal", "down"} => active = 0

\* The active lease is the newest, the only one whose journal is not settled, and its
\* journal is not settled until the backend has released it.
OneActive ==
    /\ active # 0 =>
         /\ active < next /\ active \notin freed
         /\ \A l \in Leases : l # active => journal[l] \notin Live
         /\ lease.released \/ journal[active] \in Live
         /\ lease.released => pc \in {"idle", "exited", "u_begin", "u_end"}
    /\ pc = "u_end" => lease.released
    /\ pc = "a_journal" => Orphans = {}
    /\ \A l \in freed : l < next

\* Where the child and the link are while the helper is at work on them.
InPlace ==
    /\ grave # "none" => child = "none"
    /\ pc \in {"a_journal", "u_note"} \cup (AcquireLabels \ {"f_end"}) => grave = "none"
    /\ pc \in {"a_create", "a_clone", "x_again"} => child = "none"
    /\ pc = "a_own" => child = "bare"
    /\ pc = "x_remove" => grave = "mine"
    /\ pc \in {"u_dir", "u_child", "u_note"} \/ (pc \in RemoveLabels /\ Releasing) => mount # "link"
    /\ active # 0 /\ lease.released => mount # "link" /\ grave = "none"

\* A child gets its marker once, and keeps it unless another program replaces it.
Owned ==
    /\ pc \in {"a_begin", "a_create", "a_clone", "a_own"} => ~lease.owned
    /\ pc \in {"a_mounting", "a_unmake", "a_link", "a_ready", "f_mount"} => lease.owned
    /\ pc \in RemoveLabels \cup ReleaseLabels => lease.owned
    /\ active # 0 /\ pc \in {"idle", "exited"} => lease.owned
    /\ active # 0 /\ lease.owned /\ tampers = 0 =>
         child # "bare" /\ (pc = "x_again" => grave # "bare")

\* Every lease that was handed out is active or was released.
Granted ==
    /\ pc # "down" => granted \subseteq freed \cup {active}
    /\ pc \in AcquireLabels \/ (pc \in RemoveLabels /\ ~Releasing) => granted \subseteq freed

HelperInv ==
    /\ TypeOK /\ Serving /\ OneActive /\ InPlace /\ Owned /\ Granted
    /\ NothingUnjournaled /\ AnswerIsTrue

\* What a step of the helper may not do to what is not its own.
ForeignKept ==
    /\ {child, grave} \cap {"foreign"} \subseteq {child', grave'}
    /\ mount = "foreign" /\ pc # "a_unmake" => mount' = "foreign"

-----------------------------------------------------------------------------
(* Every step keeps the invariant *)

\* What comes from outside the requests.
Outside == Start \/ Crash \/ Interrupt \/ Tamper

\* A lease id is not 0, which stands for no lease.
LEMMA LeasesAreNumbers == \A l \in Leases : l \in Nat /\ l # 0
BY DEF Leases

\* A step of an Acquire, and of what it takes back when it fails.
LEMMA AcquireStepKeepsInv == ASSUME HelperInv, AcquireStep PROVE HelperInv'
<1> USE LeasesAreNumbers
      DEF HelperInv, TypeOK, AcquireLabels, RemoveLabels, ReleaseLabels, Labels, Contents, Mounts,
          Live, Fault, NoFault, Go, Releasing, Abort, memory, history, limits, disk, Answer,
            Request, Reply, PathsFree, Work, Record, NoLease
<1>1. CASE AcquireRefused
  <2>1. TypeOK' BY <1>1 DEF AcquireRefused
  <2>2. Serving' BY <1>1 DEF AcquireRefused, Serving
  <2>3. OneActive' BY <1>1 DEF AcquireRefused, Serving, OneActive, Orphans
  <2>4. InPlace'
          BY <1>1 DEF AcquireRefused, Serving, OneActive, InPlace, NothingUnjournaled, Orphans
  <2>5. Owned' BY <1>1 DEF AcquireRefused, Serving, OneActive, InPlace, Owned
  <2>6. Granted' BY <1>1 DEF AcquireRefused, Serving, OneActive, Granted
  <2>7. NothingUnjournaled'
          BY <1>1 DEF AcquireRefused, Serving, OneActive, InPlace, Owned, NothingUnjournaled,
            Orphans
  <2>8. AnswerIsTrue'
          BY <1>1, <2>7
            DEF AcquireRefused, Serving, OneActive, Granted, AnswerIsTrue, NothingUnjournaled,
              Orphans
  <2> QED BY <2>1, <2>2, <2>3, <2>4, <2>5, <2>6, <2>7, <2>8 DEF HelperInv
<1>2. CASE Acquire
  <2>1. TypeOK' BY <1>2 DEF Acquire
  <2>2. Serving' BY <1>2 DEF Acquire, Serving
  <2>3. OneActive' BY <1>2 DEF Acquire, Serving, OneActive, Orphans
  <2>4. InPlace' BY <1>2 DEF Acquire, Serving, OneActive, InPlace, NothingUnjournaled, Orphans
  <2>5. Owned' BY <1>2 DEF Acquire, Serving, OneActive, InPlace, Owned
  <2>6. Granted' BY <1>2 DEF Acquire, Serving, OneActive, Granted
  <2>7. NothingUnjournaled'
          BY <1>2 DEF Acquire, Serving, OneActive, InPlace, Owned, NothingUnjournaled, Orphans
  <2>8. AnswerIsTrue'
          BY <1>2, <2>7
            DEF Acquire, Serving, OneActive, Granted, AnswerIsTrue, NothingUnjournaled, Orphans
  <2> QED BY <2>1, <2>2, <2>3, <2>4, <2>5, <2>6, <2>7, <2>8 DEF HelperInv
<1>3. CASE AcquireJournal
  <2>1. TypeOK'
    <3>1. journal' \in [Leases -> Live \cup {"none", "released"}]
            BY <1>3 DEF AcquireJournal, Serving
    <3>2. child' \in Contents /\ grave' \in Contents /\ mount' \in Mounts
            BY <1>3 DEF AcquireJournal, Serving
    <3>3. pc' \in Labels BY <1>3 DEF AcquireJournal, Serving
    <3>4. cur' = cur BY <1>3 DEF AcquireJournal, Serving
    <3>5. active' \in Leases \cup {0} /\ next' \in Nat \ {0} /\ tampers' \in Nat
            BY <1>3 DEF AcquireJournal, Serving
    <3>6. lease' \in [delete: BOOLEAN, existed: BOOLEAN, owned: BOOLEAN, released: BOOLEAN]
            BY <1>3 DEF AcquireJournal, Serving
    <3>7. granted' \subseteq Leases /\ freed' \subseteq Leases BY <1>3 DEF AcquireJournal, Serving
    <3> QED BY <3>1, <3>2, <3>3, <3>4, <3>5, <3>6, <3>7
  <2>2. Serving' BY <1>3 DEF AcquireJournal, Serving
  <2>3. OneActive' BY <1>3 DEF AcquireJournal, Serving, OneActive, Orphans
  <2>4. InPlace'
          BY <1>3 DEF AcquireJournal, Serving, OneActive, InPlace, NothingUnjournaled, Orphans
  <2>5. Owned' BY <1>3 DEF AcquireJournal, Serving, OneActive, InPlace, Owned
  <2>6. Granted' BY <1>3 DEF AcquireJournal, Serving, OneActive, Granted
  <2>7. NothingUnjournaled'
          BY <1>3 DEF AcquireJournal, Serving, OneActive, InPlace, Owned, NothingUnjournaled,
            Orphans
  <2>8. AnswerIsTrue'
          BY <1>3, <2>7
            DEF AcquireJournal, Serving, OneActive, Granted, AnswerIsTrue, NothingUnjournaled,
              Orphans
  <2> QED BY <2>1, <2>2, <2>3, <2>4, <2>5, <2>6, <2>7, <2>8 DEF HelperInv
<1>4. CASE AcquireBegin
  <2>1. TypeOK'
    <3>1. journal' \in [Leases -> Live \cup {"none", "released"}] BY <1>4 DEF AcquireBegin, Serving
    <3>2. child' \in Contents /\ grave' \in Contents /\ mount' \in Mounts
            BY <1>4 DEF AcquireBegin, Serving
    <3>3. pc' \in Labels BY <1>4 DEF AcquireBegin, Serving
    <3>4. cur' = cur BY <1>4 DEF AcquireBegin, Serving
    <3>5. active' \in Leases \cup {0} /\ next' \in Nat \ {0} /\ tampers' \in Nat
            BY <1>4 DEF AcquireBegin, Serving
    <3>6. lease' \in [delete: BOOLEAN, existed: BOOLEAN, owned: BOOLEAN, released: BOOLEAN]
            BY <1>4 DEF AcquireBegin, Serving
    <3>7. granted' \subseteq Leases /\ freed' \subseteq Leases BY <1>4 DEF AcquireBegin, Serving
    <3> QED BY <3>1, <3>2, <3>3, <3>4, <3>5, <3>6, <3>7
  <2>2. Serving' BY <1>4 DEF AcquireBegin, Serving
  <2>3. OneActive' BY <1>4 DEF AcquireBegin, Serving, OneActive, Orphans
  <2>4. InPlace' BY <1>4 DEF AcquireBegin, Serving, OneActive, InPlace, NothingUnjournaled, Orphans
  <2>5. Owned' BY <1>4 DEF AcquireBegin, Serving, OneActive, InPlace, Owned
  <2>6. Granted' BY <1>4 DEF AcquireBegin, Serving, OneActive, Granted
  <2>7. NothingUnjournaled'
          BY <1>4 DEF AcquireBegin, Serving, OneActive, InPlace, Owned, NothingUnjournaled, Orphans
  <2>8. AnswerIsTrue'
          BY <1>4, <2>7
            DEF AcquireBegin, Serving, OneActive, Granted, AnswerIsTrue, NothingUnjournaled, Orphans
  <2> QED BY <2>1, <2>2, <2>3, <2>4, <2>5, <2>6, <2>7, <2>8 DEF HelperInv
<1>5. CASE AcquireCreate
  <2>1. TypeOK' BY <1>5 DEF AcquireCreate
  <2>2. Serving' BY <1>5 DEF AcquireCreate, Serving
  <2>3. OneActive' BY <1>5 DEF AcquireCreate, Serving, OneActive, Orphans
  <2>4. InPlace' BY <1>5 DEF AcquireCreate, Serving, OneActive, InPlace, NothingUnjournaled, Orphans
  <2>5. Owned' BY <1>5 DEF AcquireCreate, Serving, OneActive, InPlace, Owned
  <2>6. Granted' BY <1>5 DEF AcquireCreate, Serving, OneActive, Granted
  <2>7. NothingUnjournaled'
          BY <1>5 DEF AcquireCreate, Serving, OneActive, InPlace, Owned, NothingUnjournaled, Orphans
  <2>8. AnswerIsTrue'
          BY <1>5, <2>7
            DEF AcquireCreate, Serving, OneActive, Granted, AnswerIsTrue, NothingUnjournaled,
              Orphans
  <2> QED BY <2>1, <2>2, <2>3, <2>4, <2>5, <2>6, <2>7, <2>8 DEF HelperInv
<1>6. CASE AcquireClone
  <2>1. TypeOK' BY <1>6 DEF AcquireClone
  <2>2. Serving' BY <1>6 DEF AcquireClone, Serving
  <2>3. OneActive' BY <1>6 DEF AcquireClone, Serving, OneActive, Orphans
  <2>4. InPlace' BY <1>6 DEF AcquireClone, Serving, OneActive, InPlace, NothingUnjournaled, Orphans
  <2>5. Owned'
    <3>1. child' \in {"none", "bare"} /\ pc' \in {"a_own", "f_dir"} /\ UNCHANGED <<lease, tampers>>
            BY <1>6 DEF AcquireClone, InPlace
    <3>2. ~lease.owned BY <1>6 DEF AcquireClone, Owned, OneActive, Serving
    <3> QED BY <1>6, <3>1, <3>2 DEF Owned
  <2>6. Granted' BY <1>6 DEF AcquireClone, Serving, OneActive, Granted
  <2>7. NothingUnjournaled'
          BY <1>6 DEF AcquireClone, Serving, OneActive, InPlace, Owned, NothingUnjournaled, Orphans
  <2>8. AnswerIsTrue'
          BY <1>6, <2>7
            DEF AcquireClone, Serving, OneActive, Granted, AnswerIsTrue, NothingUnjournaled, Orphans
  <2> QED BY <2>1, <2>2, <2>3, <2>4, <2>5, <2>6, <2>7, <2>8 DEF HelperInv
<1>7. CASE AcquireOwn
  <2>1. TypeOK'
    <3>1. journal' \in [Leases -> Live \cup {"none", "released"}] BY <1>7 DEF AcquireOwn, Serving
    <3>2. child' \in Contents /\ grave' \in Contents /\ mount' \in Mounts
            BY <1>7 DEF AcquireOwn, Serving
    <3>3. pc' \in Labels BY <1>7 DEF AcquireOwn, Serving
    <3>4. cur' = cur BY <1>7 DEF AcquireOwn, Serving
    <3>5. active' \in Leases \cup {0} /\ next' \in Nat \ {0} /\ tampers' \in Nat
            BY <1>7 DEF AcquireOwn, Serving
    <3>6. lease' \in [delete: BOOLEAN, existed: BOOLEAN, owned: BOOLEAN, released: BOOLEAN]
            BY <1>7 DEF AcquireOwn, Serving
    <3>7. granted' \subseteq Leases /\ freed' \subseteq Leases BY <1>7 DEF AcquireOwn, Serving
    <3> QED BY <3>1, <3>2, <3>3, <3>4, <3>5, <3>6, <3>7
  <2>2. Serving' BY <1>7 DEF AcquireOwn, Serving
  <2>3. OneActive' BY <1>7 DEF AcquireOwn, Serving, OneActive, Orphans
  <2>4. InPlace' BY <1>7 DEF AcquireOwn, Serving, OneActive, InPlace, NothingUnjournaled, Orphans
  <2>5. Owned' BY <1>7 DEF AcquireOwn, Serving, OneActive, InPlace, Owned
  <2>6. Granted' BY <1>7 DEF AcquireOwn, Serving, OneActive, Granted
  <2>7. NothingUnjournaled'
          BY <1>7 DEF AcquireOwn, Serving, OneActive, InPlace, Owned, NothingUnjournaled, Orphans
  <2>8. AnswerIsTrue'
          BY <1>7, <2>7
            DEF AcquireOwn, Serving, OneActive, Granted, AnswerIsTrue, NothingUnjournaled, Orphans
  <2> QED BY <2>1, <2>2, <2>3, <2>4, <2>5, <2>6, <2>7, <2>8 DEF HelperInv
<1>8. CASE AcquireMounting
  <2>1. TypeOK' BY <1>8 DEF AcquireMounting
  <2>2. Serving' BY <1>8 DEF AcquireMounting, Serving
  <2>3. OneActive' BY <1>8 DEF AcquireMounting, Serving, OneActive, Orphans
  <2>4. InPlace'
          BY <1>8 DEF AcquireMounting, Serving, OneActive, InPlace, NothingUnjournaled, Orphans
  <2>5. Owned' BY <1>8 DEF AcquireMounting, Serving, OneActive, InPlace, Owned
  <2>6. Granted' BY <1>8 DEF AcquireMounting, Serving, OneActive, Granted
  <2>7. NothingUnjournaled'
          BY <1>8 DEF AcquireMounting, Serving, OneActive, InPlace, Owned, NothingUnjournaled,
            Orphans
  <2>8. AnswerIsTrue'
          BY <1>8, <2>7
            DEF AcquireMounting, Serving, OneActive, Granted, AnswerIsTrue, NothingUnjournaled,
              Orphans
  <2> QED BY <2>1, <2>2, <2>3, <2>4, <2>5, <2>6, <2>7, <2>8 DEF HelperInv
<1>9. CASE AcquireUnmake
  <2>1. TypeOK' BY <1>9 DEF AcquireUnmake
  <2>2. Serving' BY <1>9 DEF AcquireUnmake, Serving
  <2>3. OneActive' BY <1>9 DEF AcquireUnmake, Serving, OneActive, Orphans
  <2>4. InPlace' BY <1>9 DEF AcquireUnmake, Serving, OneActive, InPlace, NothingUnjournaled, Orphans
  <2>5. Owned' BY <1>9 DEF AcquireUnmake, Serving, OneActive, InPlace, Owned
  <2>6. Granted' BY <1>9 DEF AcquireUnmake, Serving, OneActive, Granted
  <2>7. NothingUnjournaled'
          BY <1>9 DEF AcquireUnmake, Serving, OneActive, InPlace, Owned, NothingUnjournaled, Orphans
  <2>8. AnswerIsTrue'
          BY <1>9, <2>7
            DEF AcquireUnmake, Serving, OneActive, Granted, AnswerIsTrue, NothingUnjournaled,
              Orphans
  <2> QED BY <2>1, <2>2, <2>3, <2>4, <2>5, <2>6, <2>7, <2>8 DEF HelperInv
<1>10. CASE AcquireLink
  <2>1. TypeOK' BY <1>10 DEF AcquireLink
  <2>2. Serving' BY <1>10 DEF AcquireLink, Serving
  <2>3. OneActive' BY <1>10 DEF AcquireLink, Serving, OneActive, Orphans
  <2>4. InPlace' BY <1>10 DEF AcquireLink, Serving, OneActive, InPlace, NothingUnjournaled, Orphans
  <2>5. Owned' BY <1>10 DEF AcquireLink, Serving, OneActive, InPlace, Owned
  <2>6. Granted' BY <1>10 DEF AcquireLink, Serving, OneActive, Granted
  <2>7. NothingUnjournaled'
          BY <1>10 DEF AcquireLink, Serving, OneActive, InPlace, Owned, NothingUnjournaled, Orphans
  <2>8. AnswerIsTrue'
          BY <1>10, <2>7
            DEF AcquireLink, Serving, OneActive, Granted, AnswerIsTrue, NothingUnjournaled, Orphans
  <2> QED BY <2>1, <2>2, <2>3, <2>4, <2>5, <2>6, <2>7, <2>8 DEF HelperInv
<1>11. CASE AcquireReady
  <2>1. TypeOK'
    <3>1. journal' \in [Leases -> Live \cup {"none", "released"}] BY <1>11 DEF AcquireReady, Serving
    <3>2. child' \in Contents /\ grave' \in Contents /\ mount' \in Mounts
            BY <1>11 DEF AcquireReady, Serving
    <3>3. pc' \in Labels BY <1>11 DEF AcquireReady, Serving
    <3>4. cur' = cur BY <1>11 DEF AcquireReady, Serving
    <3>5. active' \in Leases \cup {0} /\ next' \in Nat \ {0} /\ tampers' \in Nat
            BY <1>11 DEF AcquireReady, Serving
    <3>6. lease' \in [delete: BOOLEAN, existed: BOOLEAN, owned: BOOLEAN, released: BOOLEAN]
            BY <1>11 DEF AcquireReady, Serving
    <3>7. granted' \subseteq Leases /\ freed' \subseteq Leases BY <1>11 DEF AcquireReady, Serving
    <3> QED BY <3>1, <3>2, <3>3, <3>4, <3>5, <3>6, <3>7
  <2>2. Serving' BY <1>11 DEF AcquireReady, Serving
  <2>3. OneActive' BY <1>11 DEF AcquireReady, Serving, OneActive, Orphans
  <2>4. InPlace' BY <1>11 DEF AcquireReady, Serving, OneActive, InPlace, NothingUnjournaled, Orphans
  <2>5. Owned' BY <1>11 DEF AcquireReady, Serving, OneActive, InPlace, Owned
  <2>6. Granted' BY <1>11 DEF AcquireReady, Serving, OneActive, Granted
  <2>7. NothingUnjournaled'
          BY <1>11 DEF AcquireReady, Serving, OneActive, InPlace, Owned, NothingUnjournaled, Orphans
  <2>8. AnswerIsTrue'
          BY <1>11, <2>7
            DEF AcquireReady, Serving, OneActive, Granted, AnswerIsTrue, NothingUnjournaled, Orphans
  <2> QED BY <2>1, <2>2, <2>3, <2>4, <2>5, <2>6, <2>7, <2>8 DEF HelperInv
<1>12. CASE FailMount
  <2>1. TypeOK' BY <1>12 DEF FailMount
  <2>2. Serving' BY <1>12 DEF FailMount, Serving
  <2>3. OneActive' BY <1>12 DEF FailMount, Serving, OneActive, Orphans
  <2>4. InPlace' BY <1>12 DEF FailMount, Serving, OneActive, InPlace, NothingUnjournaled, Orphans
  <2>5. Owned' BY <1>12 DEF FailMount, Serving, OneActive, InPlace, Owned
  <2>6. Granted' BY <1>12 DEF FailMount, Serving, OneActive, Granted
  <2>7. NothingUnjournaled'
          BY <1>12 DEF FailMount, Serving, OneActive, InPlace, Owned, NothingUnjournaled, Orphans
  <2>8. AnswerIsTrue'
          BY <1>12, <2>7
            DEF FailMount, Serving, OneActive, Granted, AnswerIsTrue, NothingUnjournaled, Orphans
  <2> QED BY <2>1, <2>2, <2>3, <2>4, <2>5, <2>6, <2>7, <2>8 DEF HelperInv
<1>13. CASE FailDir
  <2>1. TypeOK' BY <1>13 DEF FailDir
  <2>2. Serving' BY <1>13 DEF FailDir, Serving
  <2>3. OneActive' BY <1>13 DEF FailDir, Serving, OneActive, Orphans
  <2>4. InPlace' BY <1>13 DEF FailDir, Serving, OneActive, InPlace, NothingUnjournaled, Orphans
  <2>5. Owned' BY <1>13 DEF FailDir, Serving, OneActive, InPlace, Owned
  <2>6. Granted' BY <1>13 DEF FailDir, Serving, OneActive, Granted
  <2>7. NothingUnjournaled'
          BY <1>13 DEF FailDir, Serving, OneActive, InPlace, Owned, NothingUnjournaled, Orphans
  <2>8. AnswerIsTrue'
          BY <1>13, <2>7
            DEF FailDir, Serving, OneActive, Granted, AnswerIsTrue, NothingUnjournaled, Orphans
  <2> QED BY <2>1, <2>2, <2>3, <2>4, <2>5, <2>6, <2>7, <2>8 DEF HelperInv
<1>14. CASE FailEnd
  <2>1. TypeOK' BY <1>14 DEF FailEnd
  <2>2. Serving' BY <1>14 DEF FailEnd, Serving
  <2>3. OneActive' BY <1>14 DEF FailEnd, Serving, OneActive, Orphans
  <2>4. InPlace' BY <1>14 DEF FailEnd, Serving, OneActive, InPlace, NothingUnjournaled, Orphans
  <2>5. Owned' BY <1>14 DEF FailEnd, Serving, OneActive, InPlace, Owned
  <2>6. Granted' BY <1>14 DEF FailEnd, Serving, OneActive, Granted
  <2>7. NothingUnjournaled'
          BY <1>14 DEF FailEnd, Serving, OneActive, InPlace, Owned, NothingUnjournaled, Orphans
  <2>8. AnswerIsTrue'
          BY <1>14, <2>7
            DEF FailEnd, Serving, OneActive, Granted, AnswerIsTrue, NothingUnjournaled, Orphans
  <2> QED BY <2>1, <2>2, <2>3, <2>4, <2>5, <2>6, <2>7, <2>8 DEF HelperInv
<1> QED BY <1>1, <1>2, <1>3, <1>4, <1>5, <1>6, <1>7, <1>8, <1>9, <1>10, <1>11, <1>12, <1>13, <1>14
      DEF AcquireStep

\* A step of the removal of a child.
LEMMA RemoveStepKeepsInv == ASSUME HelperInv, RemoveStep PROVE HelperInv'
<1> USE LeasesAreNumbers
      DEF HelperInv, TypeOK, AcquireLabels, RemoveLabels, ReleaseLabels, Labels, Contents, Mounts,
          Live, Fault, NoFault, Go, Releasing, Abort, memory, history, limits, disk, Idle
<1>1. CASE RemoveCheck
  <2>1. TypeOK' BY <1>1 DEF RemoveCheck
  <2>2. Serving' BY <1>1 DEF RemoveCheck, Serving
  <2>3. OneActive' BY <1>1 DEF RemoveCheck, Serving, OneActive, Orphans
  <2>4. InPlace' BY <1>1 DEF RemoveCheck, Serving, OneActive, InPlace, NothingUnjournaled, Orphans
  <2>5. Owned' BY <1>1 DEF RemoveCheck, Serving, OneActive, InPlace, Owned
  <2>6. Granted' BY <1>1 DEF RemoveCheck, Serving, OneActive, Granted
  <2>7. NothingUnjournaled'
          BY <1>1 DEF RemoveCheck, Serving, OneActive, InPlace, Owned, NothingUnjournaled, Orphans
  <2>8. AnswerIsTrue'
          BY <1>1, <2>7
            DEF RemoveCheck, Serving, OneActive, Granted, AnswerIsTrue, NothingUnjournaled, Orphans
  <2> QED BY <2>1, <2>2, <2>3, <2>4, <2>5, <2>6, <2>7, <2>8 DEF HelperInv
<1>2. CASE RemoveRename
  <2>1. TypeOK' BY <1>2 DEF RemoveRename
  <2>2. Serving' BY <1>2 DEF RemoveRename, Serving
  <2>3. OneActive' BY <1>2 DEF RemoveRename, Serving, OneActive, Orphans
  <2>4. InPlace' BY <1>2 DEF RemoveRename, Serving, OneActive, InPlace, NothingUnjournaled, Orphans
  <2>5. Owned' BY <1>2 DEF RemoveRename, Serving, OneActive, InPlace, Owned
  <2>6. Granted' BY <1>2 DEF RemoveRename, Serving, OneActive, Granted
  <2>7. NothingUnjournaled'
          BY <1>2 DEF RemoveRename, Serving, OneActive, InPlace, Owned, NothingUnjournaled, Orphans
  <2>8. AnswerIsTrue'
          BY <1>2, <2>7
            DEF RemoveRename, Serving, OneActive, Granted, AnswerIsTrue, NothingUnjournaled, Orphans
  <2> QED BY <2>1, <2>2, <2>3, <2>4, <2>5, <2>6, <2>7, <2>8 DEF HelperInv
<1>3. CASE RemoveAgain
  <2>1. TypeOK' BY <1>3 DEF RemoveAgain
  <2>2. Serving' BY <1>3 DEF RemoveAgain, Serving
  <2>3. OneActive' BY <1>3 DEF RemoveAgain, Serving, OneActive, Orphans
  <2>4. InPlace' BY <1>3 DEF RemoveAgain, Serving, OneActive, InPlace, NothingUnjournaled, Orphans
  <2>5. Owned' BY <1>3 DEF RemoveAgain, Serving, OneActive, InPlace, Owned
  <2>6. Granted' BY <1>3 DEF RemoveAgain, Serving, OneActive, Granted
  <2>7. NothingUnjournaled'
          BY <1>3 DEF RemoveAgain, Serving, OneActive, InPlace, Owned, NothingUnjournaled, Orphans
  <2>8. AnswerIsTrue'
          BY <1>3, <2>7
            DEF RemoveAgain, Serving, OneActive, Granted, AnswerIsTrue, NothingUnjournaled, Orphans
  <2> QED BY <2>1, <2>2, <2>3, <2>4, <2>5, <2>6, <2>7, <2>8 DEF HelperInv
<1>4. CASE RemoveTree
  <2>1. TypeOK' BY <1>4 DEF RemoveTree
  <2>2. Serving' BY <1>4 DEF RemoveTree, Serving
  <2>3. OneActive' BY <1>4 DEF RemoveTree, Serving, OneActive, Orphans
  <2>4. InPlace' BY <1>4 DEF RemoveTree, Serving, OneActive, InPlace, NothingUnjournaled, Orphans
  <2>5. Owned' BY <1>4 DEF RemoveTree, Serving, OneActive, InPlace, Owned
  <2>6. Granted' BY <1>4 DEF RemoveTree, Serving, OneActive, Granted
  <2>7. NothingUnjournaled'
          BY <1>4 DEF RemoveTree, Serving, OneActive, InPlace, Owned, NothingUnjournaled, Orphans
  <2>8. AnswerIsTrue'
          BY <1>4, <2>7
            DEF RemoveTree, Serving, OneActive, Granted, AnswerIsTrue, NothingUnjournaled, Orphans
  <2> QED BY <2>1, <2>2, <2>3, <2>4, <2>5, <2>6, <2>7, <2>8 DEF HelperInv
<1> QED BY <1>1, <1>2, <1>3, <1>4 DEF RemoveStep

\* A step of a release, of a shutdown or of the end of the input.
LEMMA ReleaseStepKeepsInv == ASSUME HelperInv, ReleaseStep PROVE HelperInv'
<1> USE LeasesAreNumbers
      DEF HelperInv, TypeOK, AcquireLabels, RemoveLabels, ReleaseLabels, Labels, Contents, Mounts,
          Live, Fault, NoFault, Go, Releasing, Abort, memory, history, limits, disk, Answer,
            Request, Reply, Work, Record
<1>1. CASE ReleaseReply
  <2>1. TypeOK' BY <1>1 DEF ReleaseReply
  <2>2. Serving' BY <1>1 DEF ReleaseReply, Serving
  <2>3. OneActive' BY <1>1 DEF ReleaseReply, Serving, OneActive, Orphans
  <2>4. InPlace' BY <1>1 DEF ReleaseReply, Serving, OneActive, InPlace, NothingUnjournaled, Orphans
  <2>5. Owned' BY <1>1 DEF ReleaseReply, Serving, OneActive, InPlace, Owned
  <2>6. Granted' BY <1>1 DEF ReleaseReply, Serving, OneActive, Granted
  <2>7. NothingUnjournaled'
          BY <1>1 DEF ReleaseReply, Serving, OneActive, InPlace, Owned, NothingUnjournaled, Orphans
  <2>8. AnswerIsTrue'
          BY <1>1, <2>7
            DEF ReleaseReply, Serving, OneActive, Granted, AnswerIsTrue, NothingUnjournaled, Orphans
  <2> QED BY <2>1, <2>2, <2>3, <2>4, <2>5, <2>6, <2>7, <2>8 DEF HelperInv
<1>2. CASE ShutdownReply
  <2>1. TypeOK' BY <1>2 DEF ShutdownReply
  <2>2. Serving' BY <1>2 DEF ShutdownReply, Serving
  <2>3. OneActive' BY <1>2 DEF ShutdownReply, Serving, OneActive, Orphans
  <2>4. InPlace' BY <1>2 DEF ShutdownReply, Serving, OneActive, InPlace, NothingUnjournaled, Orphans
  <2>5. Owned' BY <1>2 DEF ShutdownReply, Serving, OneActive, InPlace, Owned
  <2>6. Granted' BY <1>2 DEF ShutdownReply, Serving, OneActive, Granted
  <2>7. NothingUnjournaled'
          BY <1>2 DEF ShutdownReply, Serving, OneActive, InPlace, Owned, NothingUnjournaled, Orphans
  <2>8. AnswerIsTrue'
          BY <1>2, <2>7
            DEF ShutdownReply, Serving, OneActive, Granted, AnswerIsTrue, NothingUnjournaled,
              Orphans
  <2> QED BY <2>1, <2>2, <2>3, <2>4, <2>5, <2>6, <2>7, <2>8 DEF HelperInv
<1>3. CASE EndOfInput
  <2>1. TypeOK' BY <1>3 DEF EndOfInput
  <2>2. Serving' BY <1>3 DEF EndOfInput, Serving
  <2>3. OneActive' BY <1>3 DEF EndOfInput, Serving, OneActive, Orphans
  <2>4. InPlace' BY <1>3 DEF EndOfInput, Serving, OneActive, InPlace, NothingUnjournaled, Orphans
  <2>5. Owned' BY <1>3 DEF EndOfInput, Serving, OneActive, InPlace, Owned
  <2>6. Granted' BY <1>3 DEF EndOfInput, Serving, OneActive, Granted
  <2>7. NothingUnjournaled'
          BY <1>3 DEF EndOfInput, Serving, OneActive, InPlace, Owned, NothingUnjournaled, Orphans
  <2>8. AnswerIsTrue'
          BY <1>3, <2>7
            DEF EndOfInput, Serving, OneActive, Granted, AnswerIsTrue, NothingUnjournaled, Orphans
  <2> QED BY <2>1, <2>2, <2>3, <2>4, <2>5, <2>6, <2>7, <2>8 DEF HelperInv
<1>4. CASE ReleaseRequest
  <2>1. TypeOK' BY <1>4 DEF ReleaseRequest
  <2>2. Serving' BY <1>4 DEF ReleaseRequest, Serving
  <2>3. OneActive' BY <1>4 DEF ReleaseRequest, Serving, OneActive, Orphans
  <2>4. InPlace'
          BY <1>4 DEF ReleaseRequest, Serving, OneActive, InPlace, NothingUnjournaled, Orphans
  <2>5. Owned' BY <1>4 DEF ReleaseRequest, Serving, OneActive, InPlace, Owned
  <2>6. Granted' BY <1>4 DEF ReleaseRequest, Serving, OneActive, Granted
  <2>7. NothingUnjournaled'
          BY <1>4 DEF ReleaseRequest, Serving, OneActive, InPlace, Owned, NothingUnjournaled,
            Orphans
  <2>8. AnswerIsTrue'
          BY <1>4, <2>7
            DEF ReleaseRequest, Serving, OneActive, Granted, AnswerIsTrue, NothingUnjournaled,
              Orphans
  <2> QED BY <2>1, <2>2, <2>3, <2>4, <2>5, <2>6, <2>7, <2>8 DEF HelperInv
<1>5. CASE ReleaseBegin
  <2>1. TypeOK' BY <1>5 DEF ReleaseBegin
  <2>2. Serving' BY <1>5 DEF ReleaseBegin, Serving
  <2>3. OneActive' BY <1>5 DEF ReleaseBegin, Serving, OneActive, Orphans
  <2>4. InPlace' BY <1>5 DEF ReleaseBegin, Serving, OneActive, InPlace, NothingUnjournaled, Orphans
  <2>5. Owned' BY <1>5 DEF ReleaseBegin, Serving, OneActive, InPlace, Owned
  <2>6. Granted' BY <1>5 DEF ReleaseBegin, Serving, OneActive, Granted
  <2>7. NothingUnjournaled'
          BY <1>5 DEF ReleaseBegin, Serving, OneActive, InPlace, Owned, NothingUnjournaled, Orphans
  <2>8. AnswerIsTrue'
          BY <1>5, <2>7
            DEF ReleaseBegin, Serving, OneActive, Granted, AnswerIsTrue, NothingUnjournaled, Orphans
  <2> QED BY <2>1, <2>2, <2>3, <2>4, <2>5, <2>6, <2>7, <2>8 DEF HelperInv
<1>6. CASE ReleaseUnmount
  <2>1. TypeOK' BY <1>6 DEF ReleaseUnmount
  <2>2. Serving' BY <1>6 DEF ReleaseUnmount, Serving
  <2>3. OneActive' BY <1>6 DEF ReleaseUnmount, Serving, OneActive, Orphans
  <2>4. InPlace'
          BY <1>6 DEF ReleaseUnmount, Serving, OneActive, InPlace, NothingUnjournaled, Orphans
  <2>5. Owned' BY <1>6 DEF ReleaseUnmount, Serving, OneActive, InPlace, Owned
  <2>6. Granted' BY <1>6 DEF ReleaseUnmount, Serving, OneActive, Granted
  <2>7. NothingUnjournaled'
          BY <1>6 DEF ReleaseUnmount, Serving, OneActive, InPlace, Owned, NothingUnjournaled,
            Orphans
  <2>8. AnswerIsTrue'
          BY <1>6, <2>7
            DEF ReleaseUnmount, Serving, OneActive, Granted, AnswerIsTrue, NothingUnjournaled,
              Orphans
  <2> QED BY <2>1, <2>2, <2>3, <2>4, <2>5, <2>6, <2>7, <2>8 DEF HelperInv
<1>7. CASE ReleaseLink
  <2>1. TypeOK' BY <1>7 DEF ReleaseLink
  <2>2. Serving' BY <1>7 DEF ReleaseLink, Serving
  <2>3. OneActive' BY <1>7 DEF ReleaseLink, Serving, OneActive, Orphans
  <2>4. InPlace' BY <1>7 DEF ReleaseLink, Serving, OneActive, InPlace, NothingUnjournaled, Orphans
  <2>5. Owned' BY <1>7 DEF ReleaseLink, Serving, OneActive, InPlace, Owned
  <2>6. Granted' BY <1>7 DEF ReleaseLink, Serving, OneActive, Granted
  <2>7. NothingUnjournaled'
          BY <1>7 DEF ReleaseLink, Serving, OneActive, InPlace, Owned, NothingUnjournaled, Orphans
  <2>8. AnswerIsTrue'
          BY <1>7, <2>7
            DEF ReleaseLink, Serving, OneActive, Granted, AnswerIsTrue, NothingUnjournaled, Orphans
  <2> QED BY <2>1, <2>2, <2>3, <2>4, <2>5, <2>6, <2>7, <2>8 DEF HelperInv
<1>8. CASE ReleaseDir
  <2>1. TypeOK' BY <1>8 DEF ReleaseDir
  <2>2. Serving' BY <1>8 DEF ReleaseDir, Serving
  <2>3. OneActive' BY <1>8 DEF ReleaseDir, Serving, OneActive, Orphans
  <2>4. InPlace' BY <1>8 DEF ReleaseDir, Serving, OneActive, InPlace, NothingUnjournaled, Orphans
  <2>5. Owned' BY <1>8 DEF ReleaseDir, Serving, OneActive, InPlace, Owned
  <2>6. Granted' BY <1>8 DEF ReleaseDir, Serving, OneActive, Granted
  <2>7. NothingUnjournaled'
          BY <1>8 DEF ReleaseDir, Serving, OneActive, InPlace, Owned, NothingUnjournaled, Orphans
  <2>8. AnswerIsTrue'
          BY <1>8, <2>7
            DEF ReleaseDir, Serving, OneActive, Granted, AnswerIsTrue, NothingUnjournaled, Orphans
  <2> QED BY <2>1, <2>2, <2>3, <2>4, <2>5, <2>6, <2>7, <2>8 DEF HelperInv
<1>9. CASE ReleaseChild
  <2>1. TypeOK' BY <1>9 DEF ReleaseChild
  <2>2. Serving' BY <1>9 DEF ReleaseChild, Serving
  <2>3. OneActive' BY <1>9 DEF ReleaseChild, Serving, OneActive, Orphans
  <2>4. InPlace' BY <1>9 DEF ReleaseChild, Serving, OneActive, InPlace, NothingUnjournaled, Orphans
  <2>5. Owned' BY <1>9 DEF ReleaseChild, Serving, OneActive, InPlace, Owned
  <2>6. Granted' BY <1>9 DEF ReleaseChild, Serving, OneActive, Granted
  <2>7. NothingUnjournaled'
          BY <1>9 DEF ReleaseChild, Serving, OneActive, InPlace, Owned, NothingUnjournaled, Orphans
  <2>8. AnswerIsTrue'
          BY <1>9, <2>7
            DEF ReleaseChild, Serving, OneActive, Granted, AnswerIsTrue, NothingUnjournaled, Orphans
  <2> QED BY <2>1, <2>2, <2>3, <2>4, <2>5, <2>6, <2>7, <2>8 DEF HelperInv
<1>10. CASE ReleaseNote
  <2>1. TypeOK'
    <3>1. journal' \in [Leases -> Live \cup {"none", "released"}] BY <1>10 DEF ReleaseNote, Serving
    <3>2. child' \in Contents /\ grave' \in Contents /\ mount' \in Mounts
            BY <1>10 DEF ReleaseNote, Serving
    <3>3. pc' \in Labels BY <1>10 DEF ReleaseNote, Serving
    <3>4. cur' = cur BY <1>10 DEF ReleaseNote, Serving
    <3>5. active' \in Leases \cup {0} /\ next' \in Nat \ {0} /\ tampers' \in Nat
            BY <1>10 DEF ReleaseNote, Serving
    <3>6. lease' \in [delete: BOOLEAN, existed: BOOLEAN, owned: BOOLEAN, released: BOOLEAN]
            BY <1>10 DEF ReleaseNote, Serving
    <3>7. granted' \subseteq Leases /\ freed' \subseteq Leases BY <1>10 DEF ReleaseNote, Serving
    <3> QED BY <3>1, <3>2, <3>3, <3>4, <3>5, <3>6, <3>7
  <2>2. Serving' BY <1>10 DEF ReleaseNote, Serving
  <2>3. OneActive' BY <1>10 DEF ReleaseNote, Serving, OneActive, Orphans
  <2>4. InPlace' BY <1>10 DEF ReleaseNote, Serving, OneActive, InPlace, NothingUnjournaled, Orphans
  <2>5. Owned' BY <1>10 DEF ReleaseNote, Serving, OneActive, InPlace, Owned
  <2>6. Granted' BY <1>10 DEF ReleaseNote, Serving, OneActive, Granted
  <2>7. NothingUnjournaled'
          BY <1>10 DEF ReleaseNote, Serving, OneActive, InPlace, Owned, NothingUnjournaled, Orphans
  <2>8. AnswerIsTrue'
          BY <1>10, <2>7
            DEF ReleaseNote, Serving, OneActive, Granted, AnswerIsTrue, NothingUnjournaled, Orphans
  <2> QED BY <2>1, <2>2, <2>3, <2>4, <2>5, <2>6, <2>7, <2>8 DEF HelperInv
<1>11. CASE ReleaseFailed
  <2>1. TypeOK' BY <1>11 DEF ReleaseFailed
  <2>2. Serving' BY <1>11 DEF ReleaseFailed, Serving
  <2>3. OneActive' BY <1>11 DEF ReleaseFailed, Serving, OneActive, Orphans
  <2>4. InPlace'
          BY <1>11 DEF ReleaseFailed, Serving, OneActive, InPlace, NothingUnjournaled, Orphans
  <2>5. Owned' BY <1>11 DEF ReleaseFailed, Serving, OneActive, InPlace, Owned
  <2>6. Granted' BY <1>11 DEF ReleaseFailed, Serving, OneActive, Granted
  <2>7. NothingUnjournaled'
          BY <1>11
            DEF ReleaseFailed, Serving, OneActive, InPlace, Owned, NothingUnjournaled, Orphans
  <2>8. AnswerIsTrue'
          BY <1>11, <2>7
            DEF ReleaseFailed, Serving, OneActive, Granted, AnswerIsTrue, NothingUnjournaled,
              Orphans
  <2> QED BY <2>1, <2>2, <2>3, <2>4, <2>5, <2>6, <2>7, <2>8 DEF HelperInv
<1>12. CASE ReleaseEnd
  <2>1. TypeOK'
    <3>1. journal' \in [Leases -> Live \cup {"none", "released"}] BY <1>12 DEF ReleaseEnd, Serving
    <3>2. child' \in Contents /\ grave' \in Contents /\ mount' \in Mounts
            BY <1>12 DEF ReleaseEnd, Serving
    <3>3. pc' \in Labels BY <1>12 DEF ReleaseEnd, Serving
    <3>4. cur' = cur BY <1>12 DEF ReleaseEnd, Serving
    <3>5. active' \in Leases \cup {0} /\ next' \in Nat \ {0} /\ tampers' \in Nat
            BY <1>12 DEF ReleaseEnd, Serving
    <3>6. lease' \in [delete: BOOLEAN, existed: BOOLEAN, owned: BOOLEAN, released: BOOLEAN]
            BY <1>12 DEF ReleaseEnd, Serving
    <3>7. granted' \subseteq Leases /\ freed' \subseteq Leases BY <1>12 DEF ReleaseEnd, Serving
    <3> QED BY <3>1, <3>2, <3>3, <3>4, <3>5, <3>6, <3>7
  <2>2. Serving' BY <1>12 DEF ReleaseEnd, Serving
  <2>3. OneActive' BY <1>12 DEF ReleaseEnd, Serving, OneActive, Orphans
  <2>4. InPlace' BY <1>12 DEF ReleaseEnd, Serving, OneActive, InPlace, NothingUnjournaled, Orphans
  <2>5. Owned' BY <1>12 DEF ReleaseEnd, Serving, OneActive, InPlace, Owned
  <2>6. Granted' BY <1>12 DEF ReleaseEnd, Serving, OneActive, Granted
  <2>7. NothingUnjournaled'
          BY <1>12 DEF ReleaseEnd, Serving, OneActive, InPlace, Owned, NothingUnjournaled, Orphans
  <2>8. AnswerIsTrue'
          BY <1>12, <2>7
            DEF ReleaseEnd, Serving, OneActive, Granted, AnswerIsTrue, NothingUnjournaled, Orphans
  <2> QED BY <2>1, <2>2, <2>3, <2>4, <2>5, <2>6, <2>7, <2>8 DEF HelperInv
<1> QED BY <1>1, <1>2, <1>3, <1>4, <1>5, <1>6, <1>7, <1>8, <1>9, <1>10, <1>11, <1>12 DEF ReleaseStep

\* A start, a crash, an interrupt and a replacement by another program.
LEMMA OutsideKeepsInv == ASSUME HelperInv, Outside PROVE HelperInv'
<1> USE LeasesAreNumbers
      DEF HelperInv, TypeOK, AcquireLabels, RemoveLabels, ReleaseLabels, Labels, Contents, Mounts,
          Live, Fault, NoFault, Go, Releasing, Abort, memory, history, limits, disk, Forget, NoLease
<1>1. CASE Start
  <2>1. TypeOK' BY <1>1 DEF Start
  <2>2. Serving' BY <1>1 DEF Start, Serving
  <2>3. OneActive' BY <1>1 DEF Start, Serving, OneActive, Orphans
  <2>4. InPlace' BY <1>1 DEF Start, Serving, OneActive, InPlace, NothingUnjournaled, Orphans
  <2>5. Owned' BY <1>1 DEF Start, Serving, OneActive, InPlace, Owned
  <2>6. Granted' BY <1>1 DEF Start, Serving, OneActive, Granted
  <2>7. NothingUnjournaled'
          BY <1>1 DEF Start, Serving, OneActive, InPlace, Owned, NothingUnjournaled, Orphans
  <2>8. AnswerIsTrue'
          BY <1>1, <2>7
            DEF Start, Serving, OneActive, Granted, AnswerIsTrue, NothingUnjournaled, Orphans
  <2> QED BY <2>1, <2>2, <2>3, <2>4, <2>5, <2>6, <2>7, <2>8 DEF HelperInv
<1>2. CASE Crash
  <2>1. TypeOK' BY <1>2 DEF Crash
  <2>2. Serving' BY <1>2 DEF Crash, Serving
  <2>3. OneActive' BY <1>2 DEF Crash, Serving, OneActive, Orphans
  <2>4. InPlace' BY <1>2 DEF Crash, Serving, OneActive, InPlace, NothingUnjournaled, Orphans
  <2>5. Owned' BY <1>2 DEF Crash, Serving, OneActive, InPlace, Owned
  <2>6. Granted' BY <1>2 DEF Crash, Serving, OneActive, Granted
  <2>7. NothingUnjournaled'
          BY <1>2 DEF Crash, Serving, OneActive, InPlace, Owned, NothingUnjournaled, Orphans
  <2>8. AnswerIsTrue'
          BY <1>2, <2>7
            DEF Crash, Serving, OneActive, Granted, AnswerIsTrue, NothingUnjournaled, Orphans
  <2> QED BY <2>1, <2>2, <2>3, <2>4, <2>5, <2>6, <2>7, <2>8 DEF HelperInv
<1>3. CASE Interrupt
  <2>1. TypeOK' BY <1>3 DEF Interrupt
  <2>2. Serving' BY <1>3 DEF Interrupt, Serving
  <2>3. OneActive' BY <1>3 DEF Interrupt, Serving, OneActive, Orphans
  <2>4. InPlace' BY <1>3 DEF Interrupt, Serving, OneActive, InPlace, NothingUnjournaled, Orphans
  <2>5. Owned' BY <1>3 DEF Interrupt, Serving, OneActive, InPlace, Owned
  <2>6. Granted' BY <1>3 DEF Interrupt, Serving, OneActive, Granted
  <2>7. NothingUnjournaled'
          BY <1>3 DEF Interrupt, Serving, OneActive, InPlace, Owned, NothingUnjournaled, Orphans
  <2>8. AnswerIsTrue'
          BY <1>3, <2>7
            DEF Interrupt, Serving, OneActive, Granted, AnswerIsTrue, NothingUnjournaled, Orphans
  <2> QED BY <2>1, <2>2, <2>3, <2>4, <2>5, <2>6, <2>7, <2>8 DEF HelperInv
<1>4. CASE Tamper
  <2>1. TypeOK' BY <1>4 DEF Tamper
  <2>2. Serving' BY <1>4 DEF Tamper, Serving
  <2>3. OneActive' BY <1>4 DEF Tamper, Serving, OneActive, Orphans
  <2>4. InPlace' BY <1>4 DEF Tamper, Serving, OneActive, InPlace, NothingUnjournaled, Orphans
  <2>5. Owned' BY <1>4 DEF Tamper, Serving, OneActive, InPlace, Owned
  <2>6. Granted' BY <1>4 DEF Tamper, Serving, OneActive, Granted
  <2>7. NothingUnjournaled'
          BY <1>4 DEF Tamper, Serving, OneActive, InPlace, Owned, NothingUnjournaled, Orphans
  <2>8. AnswerIsTrue'
          BY <1>4, <2>7
            DEF Tamper, Serving, OneActive, Granted, AnswerIsTrue, NothingUnjournaled, Orphans
  <2> QED BY <2>1, <2>2, <2>3, <2>4, <2>5, <2>6, <2>7, <2>8 DEF HelperInv
<1> QED BY <1>1, <1>2, <1>3, <1>4 DEF Outside

-----------------------------------------------------------------------------
(* The theorems *)

\* The invariant holds when no helper has run yet.
LEMMA InitInv == Init => HelperInv
<1> SUFFICES ASSUME Init PROVE HelperInv OBVIOUS
<1> USE DEF Init, NoLease, Live, Contents, Mounts
<1>1. TypeOK BY DEF TypeOK, Labels
<1>2. Serving /\ InPlace /\ Owned /\ Granted
  BY DEF Serving, InPlace, Owned, Granted, AcquireLabels, RemoveLabels, ReleaseLabels, Releasing
<1>3. OneActive BY DEF OneActive, Orphans
<1>4. NothingUnjournaled /\ AnswerIsTrue BY DEF NothingUnjournaled, AnswerIsTrue, Orphans
<1> QED BY <1>1, <1>2, <1>3, <1>4 DEF HelperInv

\* Every step, a stuttering one too, keeps the invariant.
LEMMA NextInv == HelperInv /\ [Next]_vars => HelperInv'
<1> SUFFICES ASSUME HelperInv, [Next]_vars PROVE HelperInv' OBVIOUS
<1>1. CASE Next
  BY <1>1, AcquireStepKeepsInv, RemoveStepKeepsInv, ReleaseStepKeepsInv, OutsideKeepsInv
    DEF Next, Outside
<1>2. CASE UNCHANGED vars
  <2> USE <1>2 DEF vars, disk, memory, history, limits, HelperInv
  <2>1. TypeOK' BY DEF TypeOK
  <2>2. Serving' /\ InPlace' /\ Owned' /\ Granted'
          BY DEF Serving, InPlace, Owned, Granted, Releasing
  <2>3. OneActive' BY DEF OneActive, Orphans
  <2>4. NothingUnjournaled' /\ AnswerIsTrue' BY DEF NothingUnjournaled, AnswerIsTrue, Orphans
  <2> QED BY <2>1, <2>2, <2>3, <2>4
<1> QED BY <1>1, <1>2

\* The helper is in a state that its invariant allows, and well typed, at all times.
THEOREM HelperInvHolds == Spec => []HelperInv
BY InitInv, NextInv, PTL DEF Spec

\* A link, a quarantined tree or an unmarked child that the helper made is under a journal that is
\* not released, and a child that stays without one was left by a release: whatever step the helper,
\* a fault, a crash or another program takes, the next helper on the store stops at the remains.
THEOREM NothingIsUnjournaled == Spec => []NothingUnjournaled
<1>1. HelperInv => NothingUnjournaled BY DEF HelperInv
<1> QED BY HelperInvHolds, <1>1, PTL

\* A release that was answered OK is noted as released and has undone its lease, and a helper that
\* exits with zero has released every lease it handed out.
THEOREM AnswersAreTrue == Spec => []AnswerIsTrue
<1>1. HelperInv => AnswerIsTrue BY DEF HelperInv
<1> QED BY HelperInvHolds, <1>1, PTL

\* What another program put in the place of the child or of the link is not taken.
LEMMA ForeignStep == ASSUME HelperInv, Next, tampers' = tampers PROVE ForeignKept
<1> USE DEF HelperInv, TypeOK, InPlace, Contents, AcquireLabels, ForeignKept,
          Fault, NoFault, Go, Idle, Work, Record, disk, history, limits, memory
<1>1. CASE AcquireRefused BY <1>1 DEF AcquireRefused
<1>2. CASE Acquire BY <1>2 DEF Acquire
<1>3. CASE AcquireJournal BY <1>3 DEF AcquireJournal
<1>4. CASE AcquireBegin BY <1>4 DEF AcquireBegin, PathsFree
<1>5. CASE AcquireCreate BY <1>5 DEF AcquireCreate
<1>6. CASE AcquireClone BY <1>6 DEF AcquireClone
<1>7. CASE AcquireOwn BY <1>7 DEF AcquireOwn
<1>8. CASE AcquireMounting BY <1>8 DEF AcquireMounting
<1>9. CASE AcquireUnmake BY <1>9 DEF AcquireUnmake
<1>10. CASE AcquireLink BY <1>10 DEF AcquireLink
<1>11. CASE AcquireReady BY <1>11 DEF AcquireReady
<1>12. CASE FailMount BY <1>12 DEF FailMount
<1>13. CASE FailDir BY <1>13 DEF FailDir
<1>14. CASE FailEnd BY <1>14 DEF FailEnd
<1>15. CASE RemoveCheck BY <1>15 DEF RemoveCheck
<1>16. CASE RemoveRename BY <1>16 DEF RemoveRename
<1>17. CASE RemoveAgain BY <1>17 DEF RemoveAgain
<1>18. CASE RemoveTree BY <1>18 DEF RemoveTree
<1>19. CASE ReleaseReply BY <1>19 DEF ReleaseReply
<1>20. CASE ShutdownReply BY <1>20 DEF ShutdownReply
<1>21. CASE EndOfInput BY <1>21 DEF EndOfInput
<1>22. CASE ReleaseRequest BY <1>22 DEF ReleaseRequest
<1>23. CASE ReleaseBegin BY <1>23 DEF ReleaseBegin
<1>24. CASE ReleaseUnmount BY <1>24 DEF ReleaseUnmount
<1>25. CASE ReleaseLink BY <1>25 DEF ReleaseLink
<1>26. CASE ReleaseDir BY <1>26 DEF ReleaseDir
<1>27. CASE ReleaseChild BY <1>27 DEF ReleaseChild
<1>28. CASE ReleaseNote BY <1>28 DEF ReleaseNote
<1>29. CASE ReleaseFailed BY <1>29 DEF ReleaseFailed
<1>30. CASE ReleaseEnd BY <1>30 DEF ReleaseEnd
<1>31. CASE Start BY <1>31 DEF Start
<1>32. CASE Crash BY <1>32 DEF Crash
<1>33. CASE Interrupt BY <1>33 DEF Interrupt
<1>34. CASE Tamper BY <1>34 DEF Tamper
<1> QED BY <1>1, <1>2, <1>3, <1>4, <1>5, <1>6, <1>7, <1>8, <1>9, <1>10, <1>11, <1>12, <1>13,
      <1>14, <1>15, <1>16, <1>17, <1>18, <1>19, <1>20, <1>21, <1>22, <1>23, <1>24, <1>25, <1>26,
        <1>27, <1>28, <1>29, <1>30, <1>31, <1>32, <1>33, <1>34
          DEF Next, AcquireStep, RemoveStep, ReleaseStep

\* No step of the helper deletes what another program has put in the place of the child or of the
\* link, but for the one that os.Remove takes by the path alone.
THEOREM ForeignStays == Spec => ForeignIsPreserved
<1>1. HelperInv /\ [Next]_vars => [tampers' = tampers => ForeignKept]_vars
  BY ForeignStep
<1> QED BY HelperInvHolds, <1>1, PTL DEF Spec, ForeignIsPreserved, ForeignKept
=============================================================================
