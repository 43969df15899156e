---------------------------- MODULE BridgeProofs ----------------------------
(* Machine-checked proofs about Bridge, for every set of runs and every     *)
(* value of the bounds.                                                      *)
EXTENDS Bridge, TLAPS

-----------------------------------------------------------------------------
(* The inductive invariant *)

Answered(r) == response[r] # None \/ tombstone[r] # None

\* Editor sessions are numbered in the order in which they start.
SessionInv ==
    /\ session \in {0, sessions}
    /\ hand.session <= sessions
    /\ \A r \in Runs : request[r] <= sessions

\* The claimed run is a run of the living editor that has no answer yet. Its
\* phase tells whether its tests were executed.
SlotInv ==
    /\ slot.run = None => slot = NoSlot
    /\ slot.run # None =>
          /\ session # 0 /\ request[slot.run] = session
          /\ ~Answered(slot.run)
          /\ slot.phase # "none"
          /\ executed[slot.run] = 1 => MayHaveStarted(slot)
          /\ slot.phase \in {"running", "completing"} =>
                executed[slot.run] = 1 /\ ~failed[slot.run] /\ slot.guid /\ observer # "none"
          /\ slot.phase = "completing" => pending[slot.run] /\ ~restoring /\ slot.count < Confirmations
    /\ observer \in {"new", "started"} => slot.phase = "running"

\* What testplay does, and what it can read, tells whether the tests of the
\* run were executed; what tells that they were not is never followed by their
\* execution.
RunInv(r) ==
    /\ client[r] = "start" => request[r] = 0
    /\ request[r] = 0 => client[r] \in {"start", "cold"} /\ executed[r] = 0 /\ ~Answered(r)
    /\ client[r] \in {"cold", "compile", "result"} => request[r] = 0 \/ Answered(r)
    /\ executed[r] \in 0 .. 1
    /\ failed[r] \/ job[r] # "none" => executed[r] = 1
    /\ marker[r] = "not_started" => executed[r] = 0
    /\ executed[r] = 1 /\ request[r] = session =>
          slot.run = r \/ Answered(r) \/ pending[r] \/ marker[r] # None

\* An answer of the session the request names is true.
AnswerInv(r) ==
    /\ Readable(response[r], r) =>
          /\ response[r].outcome \in {"compile_failed", "busy", "rejected"} => executed[r] = 0
          /\ response[r].outcome = "completed" => executed[r] = 1
    /\ response[r] # None /\ response[r].outcome = "completed" => ~failed[r] /\ job[r] = "none"
    /\ Readable(tombstone[r], r) /\ tombstone[r].state = "not_started" => executed[r] = 0

BridgeInv ==
    /\ TypeOK /\ SessionInv /\ SlotInv
    /\ \A r \in Runs : RunInv(r) /\ AnswerInv(r)

-----------------------------------------------------------------------------
(* Lemmas about the operators *)

\* The released slot is a slot.
LEMMA NoSlotType == NoSlot \in Slots
  BY DEF NoSlot, Slots, Phases

\* The slot t cancels the run of s, and does not forget that its tests may have
\* been executed.
Cancels(s, t, probe) ==
    /\ t \in Slots /\ t.run = s.run /\ t.phase = "cancelling" /\ t.guid = s.guid
    /\ probe => t.probe
    /\ s.phase = "cancelling" /\ s.probe => t.probe
    /\ MayHaveStarted(s) /\ (s.phase \in {"running", "completing"} => s.guid) => MayHaveStarted(t)

\* That is what BeginCancellation does to a claimed run.
LEMMA BeginCancels ==
  ASSUME NEW s \in Slots, s.run # None,
         NEW grace \in BOOLEAN, NEW only \in BOOLEAN, NEW probe \in BOOLEAN
  PROVE  Cancels(s, Begin(s, grace, only, probe), probe)
<1> DEFINE t == Begin(s, grace, only, probe)
<1>1. CASE s.phase = "cancelling"
  <2> DEFINE o == s.only \/ only
  <2> DEFINE p == s.probe \/ probe
  <2>1. o \in BOOLEAN /\ p \in BOOLEAN /\ (probe => p) /\ (s.probe => p)
    BY Zenon
  <2>2. t = [s EXCEPT !.only = o, !.probe = p]
    BY <1>1, Zenon DEF Begin
  <2> HIDE DEF o, p, t
  <2>3. /\ t \in Slots /\ t.run = s.run /\ t.phase = s.phase /\ t.guid = s.guid /\ t.probe = p
    BY <2>1, <2>2 DEF Slots
  <2> QED
    BY <1>1, <2>1, <2>3, Zenon DEF MayHaveStarted, Cancels, t
<1>2. CASE s.phase # "cancelling"
  <2>1. t = [s EXCEPT !.phase = "cancelling", !.count = 0, !.only = only, !.probe = probe, !.grace = grace]
    BY <1>2 DEF Begin
  <2> HIDE DEF t
  <2>2. t = [run |-> s.run, phase |-> "cancelling", guid |-> s.guid, count |-> 0,
             only |-> only, probe |-> probe, grace |-> grace]
    BY <2>1 DEF Slots
  <2>3. /\ t \in Slots /\ t.run = s.run /\ t.phase = "cancelling" /\ t.guid = s.guid /\ t.probe = probe
    BY <2>2 DEF Slots, Phases
  <2> QED
    BY <1>2, <2>3, Zenon DEF MayHaveStarted, Cancels, t
<1> QED
  BY <1>1, <1>2

\* The marker of a cancelled run that nobody marked before.
LEMMA MarkedType ==
  ASSUME marker \in [Runs -> Executions \cup {None}], NEW s \in Slots
  PROVE  /\ Marked(s) \in [Runs -> Executions \cup {None}]
         /\ \A m \in Runs : m # s.run => Marked(s)[m] = marker[m]
         /\ s.run # None /\ marker[s.run] # None => Marked(s)[s.run] = marker[s.run]
         /\ s.run # None /\ marker[s.run] = None => Marked(s)[s.run] = Execution(MayHaveStarted(s))
  BY DEF Marked, Execution, Executions, Slots

\* Faults stay within their bound.
LEMMA SpendType ==
  ASSUME faults \in 0 .. MaxFaults, NEW n \in Nat, Spend(n) PROVE faults' \in 0 .. MaxFaults
  BY BridgeAssumption DEF Spend

\* A tombstone keeps what an earlier one says.
LEMMA EntombedType ==
  ASSUME tombstone \in [Runs -> Tombstones \cup {None}], session \in Sessions,
         NEW r \in Runs, NEW may \in BOOLEAN
  PROVE  /\ Entombed(r, may) \in [Runs -> Tombstones \cup {None}]
         /\ \A m \in Runs : m # r => Entombed(r, may)[m] = tombstone[m]
         /\ tombstone[r] # None => Entombed(r, may)[r] = tombstone[r]
         /\ tombstone[r] = None => Entombed(r, may)[r] = [state |-> Execution(may), session |-> session]
  BY DEF Entombed, Tombstones, Execution, Executions

-----------------------------------------------------------------------------
(* How a claimed run ends, or goes on being cancelled *)

\* The run of s stays claimed and is being cancelled.
KeepsCancelling(s) ==
    /\ slot' \in Slots /\ slot'.run = s.run /\ slot'.phase = "cancelling"
    /\ slot'.guid = s.guid /\ slot'.probe = s.probe
    /\ observer' \in {"none", observer}
    /\ marker' \in {marker, Marked(s)}
    /\ UNCHANGED <<response, tombstone>>

\* The run of s is released with an answer or a tombstone: neither denies that
\* its tests may have been executed.
Ends(s) ==
    /\ slot' = NoSlot
    /\ observer' \in {"none", observer}
    /\ marker' \in {marker, Marked(s)}
    /\ \/ /\ \E o \in {"rejected", "busy", "compile_failed", "indeterminate"} :
               /\ MayHaveStarted(s) => o = "indeterminate"
               /\ response' = [response EXCEPT ![s.run] = [outcome |-> o, session |-> session]]
          /\ UNCHANGED tombstone
       \/ tombstone' = Entombed(s.run, MayHaveStarted(s)) /\ UNCHANGED response

ElseUnchanged ==
    /\ UNCHANGED <<request, pending, xml, client, session, sessions, tests, reloads, foreigns>>
    /\ hand' \in {hand, [session |-> session, idle |-> TRUE]}

\* FinishTerminal of a run being cancelled or refused ends it or keeps it.
LEMMA FinishTerminalEffect ==
  ASSUME TypeOK, NEW s \in Slots, s.run \in Runs, NEW n \in Nat,
         NEW o \in {"rejected", "busy", "compile_failed"}, o = "rejected" \/ ~MayHaveStarted(s),
         NEW mark, mark = marker \/ (s.phase = "cancelling" /\ mark = Marked(s)),
         NEW t, t = Begin(s, FALSE, TRUE, FALSE),
         FinishTerminal(s, s.run, o, FALSE, n, mark), observer' \in {"none", observer}
  PROVE  /\ faults' \in 0 .. MaxFaults
         /\ Ends(s) \/ KeepsCancelling(t)
         /\ s.phase = "cancelling" => Ends(s) \/ KeepsCancelling(s)
<1> DEFINE may == MayHaveStarted(s)
<1> DEFINE told == IF may /\ o = "rejected" THEN "indeterminate" ELSE o
<1>1. Terminal(s.run, told, may, n, NoSlot, t, mark)
  <2>1. (FALSE \/ may) = may
    BY Zenon DEF MayHaveStarted
  <2> QED
    BY <2>1, Zenon DEF FinishTerminal
<1>2. /\ may => told = "indeterminate"
      /\ told \in {"rejected", "busy", "compile_failed", "indeterminate"}
  OBVIOUS
<1>3. s.run # None
  BY BridgeAssumption
<1>4. t \in Slots /\ t.run = s.run /\ t.phase = "cancelling"
  <2>1. TRUE \in BOOLEAN /\ FALSE \in BOOLEAN
    OBVIOUS
  <2>2. Cancels(s, t, FALSE)
    BY <1>3, <2>1, BeginCancels, Zenon
  <2> QED
    BY <2>2 DEF Cancels
<1>5. ASSUME s.phase = "cancelling"
      PROVE  Marked(t) = Marked(s) /\ t.guid = s.guid /\ t.probe = s.probe
  <2>1. t = [s EXCEPT !.only = s.only \/ TRUE, !.probe = s.probe \/ FALSE]
    BY <1>3, <1>5, Zenon DEF Begin
  <2>2. t.guid = s.guid /\ t.probe = s.probe /\ t.run = s.run
    BY <2>1 DEF Slots
  <2> QED
    BY <1>4, <1>5, <2>2 DEF Marked, MayHaveStarted
<1>6. mark \in {marker, Marked(s)} /\ mark \in {marker, Marked(t)}
  BY <1>5
<1> HIDE DEF told
<1>7. faults' \in 0 .. MaxFaults
  <2>1. Spend(n) \/ Spend(n + 1)
    BY <1>1 DEF Terminal
  <2>2. faults \in 0 .. MaxFaults
    BY DEF TypeOK
  <2> QED
    BY <2>1, <2>2, SpendType
<1>8. CASE slot' = t /\ UNCHANGED <<response, tombstone>> /\ marker' \in {mark, Marked(t)}
  BY <1>4, <1>5, <1>6, <1>7, <1>8 DEF KeepsCancelling
<1>9. CASE slot' = NoSlot /\ marker' = mark /\ UNCHANGED tombstone
           /\ response' = [response EXCEPT ![s.run] = [outcome |-> told, session |-> session]]
  BY <1>2, <1>6, <1>7, <1>9 DEF Ends
<1>10. CASE slot' = NoSlot /\ marker' = mark /\ UNCHANGED response
            /\ tombstone' = Entombed(s.run, MayHaveStarted(s))
  BY <1>6, <1>7, <1>10 DEF Ends
<1> QED
  BY <1>1, <1>7, <1>8, <1>9, <1>10 DEF Terminal

\* A step of a cancellation ends the run or keeps it.
LEMMA AdvanceCancellingEffect ==
  ASSUME TypeOK, NEW s \in Slots, s.run \in Runs, NEW n \in Nat, AdvanceCancelling(s, n)
  PROVE  /\ faults' \in 0 .. MaxFaults /\ observer' = "none" /\ ElseUnchanged
         /\ s.phase = "cancelling"
         /\ Ends(s) \/ KeepsCancelling(s)
<1> DEFINE mark == Marked(s)
<1>1. /\ observer' = "none" /\ ElseUnchanged /\ s.phase = "cancelling"
      /\ faults \in 0 .. MaxFaults /\ n + 1 \in Nat
  BY DEF AdvanceCancelling, ElseUnchanged, TypeOK
<1>k. ASSUME slot' = s \/ slot' = [s EXCEPT !.count = 0] \/ (s.count < 2 /\ slot' = [s EXCEPT !.count = @ + 1]),
             marker' \in {marker, mark}, UNCHANGED <<response, tombstone>>
      PROVE  KeepsCancelling(s)
  <2>1. /\ slot' \in Slots /\ slot'.run = s.run /\ slot'.phase = s.phase
        /\ slot'.guid = s.guid /\ slot'.probe = s.probe
    BY <1>k DEF Slots
  <2> QED
    BY <1>1, <1>k, <2>1 DEF KeepsCancelling
<1>s. ASSUME SealCancelled(s, n, mark)
      PROVE  faults' \in 0 .. MaxFaults /\ (Ends(s) \/ KeepsCancelling(s))
  <2>1. CASE s.only
    <3>1. faults' \in 0 .. MaxFaults
      BY <1>1, <1>s, <2>1, SpendType DEF SealCancelled
    <3> QED
      BY <1>1, <1>s, <1>k, <2>1, <3>1 DEF SealCancelled, Ends
  <2>2. CASE ~s.only
    <3>1. FinishTerminal(s, s.run, "rejected", FALSE, n, mark)
      BY <1>s, <2>2 DEF SealCancelled
    <3> QED
      BY <1>1, <3>1, FinishTerminalEffect
  <2> QED
    BY <2>1, <2>2
<1>2. \/ SealCancelled(s, n, mark)
      \/ /\ Spend(n) \/ Spend(n + 1)
         /\ slot' = s \/ slot' = [s EXCEPT !.count = 0] \/ (s.count < 2 /\ slot' = [s EXCEPT !.count = @ + 1])
         /\ marker' \in {marker, mark}
         /\ UNCHANGED <<response, tombstone>>
  BY DEF AdvanceCancelling, Confirmations, Slots
<1> QED
  BY <1>1, <1>2, <1>k, <1>s, SpendType

\* The callbacks and a domain reload cancel a run whose tests were executed.
LEMMA BeginCancellationEffect ==
  ASSUME TypeOK, NEW n \in Nat, NEW grace \in BOOLEAN, slot.run \in Runs,
         slot.phase \in {"running", "completing"} => slot.guid,
         BeginCancellation(grace, FALSE, TRUE, n)
  PROVE  /\ faults' \in 0 .. MaxFaults /\ observer' = "none"
         /\ slot' \in Slots /\ slot'.run = slot.run /\ slot'.phase = "cancelling" /\ slot'.probe
         /\ slot'.guid = slot.guid
         /\ marker' \in {marker, [marker EXCEPT ![slot.run] = "possibly_started"]}
<1> DEFINE s == Begin(slot, grace, FALSE, TRUE)
<1>1. /\ slot \in Slots /\ slot.run # None /\ faults \in 0 .. MaxFaults /\ n + 1 \in Nat
  BY BridgeAssumption DEF TypeOK
<1>b. /\ slot' = s /\ observer' = "none" /\ marker' \in {marker, Marked(s)}
      /\ Spend(n) \/ Spend(n + 1)
  BY <1>1, Zenon DEF BeginCancellation
<1>2. Cancels(slot, s, TRUE)
  <2>1. TRUE \in BOOLEAN /\ FALSE \in BOOLEAN
    OBVIOUS
  <2> QED
    BY <1>1, <2>1, BeginCancels, Zenon
<1> HIDE DEF s
<1>3. s \in Slots /\ s.run = slot.run /\ s.phase = "cancelling" /\ s.probe /\ s.guid = slot.guid
  BY <1>2 DEF Cancels
<1>4. Marked(s) \in {marker, [marker EXCEPT ![slot.run] = "possibly_started"]}
  BY <1>3 DEF Marked, Execution, MayHaveStarted
<1> QED
  BY <1>1, <1>b, <1>3, <1>4, SpendType

-----------------------------------------------------------------------------
(* The steps of a cancellation keep the invariant. *)

\* What the invariant says of a run that a step leaves alone.
Untouched(r) ==
    /\ request'[r] = request[r] /\ response'[r] = response[r] /\ tombstone'[r] = tombstone[r]
    /\ marker'[r] = marker[r] /\ pending'[r] = pending[r] /\ client'[r] = client[r]
    /\ job'[r] = job[r] /\ executed'[r] = executed[r] /\ failed'[r] = failed[r]

\* A step that leaves a run alone keeps what the invariant says of it.
LEMMA UntouchedInv ==
  ASSUME NEW r \in Runs, RunInv(r), AnswerInv(r), Untouched(r), session' = session,
         slot.run = r => slot'.run = r
  PROVE  RunInv(r)' /\ AnswerInv(r)'
  BY DEF RunInv, AnswerInv, Untouched, Answered, Readable

\* A handshake names the living session or is the one that was there.
LEMMA HandshakeInv ==
  ASSUME TypeOK, SessionInv, hand' \in {hand, [session |-> session, idle |-> TRUE]}, UNCHANGED sessions
  PROVE  hand' \in [session: Sessions, idle: BOOLEAN] /\ hand'.session <= sessions'
<1>1. /\ hand \in [session: Sessions, idle: BOOLEAN] /\ hand.session <= sessions
      /\ session \in Sessions /\ session <= sessions
  BY BridgeAssumption DEF TypeOK, SessionInv, Sessions
<1>2. CASE hand' = [session |-> session, idle |-> TRUE]
  BY <1>1, <1>2
<1> QED
  BY <1>1, <1>2

\* A cancellation that goes on keeps the invariant.
LEMMA KeepsInv ==
  ASSUME BridgeInv, NEW s \in Slots, slot.run \in Runs, s.run = slot.run, s.phase = "cancelling",
         executed[slot.run] = 1 => MayHaveStarted(s),
         KeepsCancelling(s), observer' \notin {"new", "started"},
         faults' \in 0 .. MaxFaults, ElseUnchanged
  PROVE  BridgeInv'
<1> DEFINE r == slot.run
<1> USE DEF BridgeInv, KeepsCancelling, ElseUnchanged, tests
<1>h. hand' \in [session: Sessions, idle: BOOLEAN] /\ hand'.session <= sessions'
  BY HandshakeInv
<1>1. TypeOK'
  BY <1>h, MarkedType DEF TypeOK
<1>2. SessionInv'
  BY <1>h DEF SessionInv
<1>3. SlotInv'
  BY BridgeAssumption DEF SlotInv, Answered, MayHaveStarted
<1>4. ASSUME NEW m \in Runs PROVE RunInv(m)' /\ AnswerInv(m)'
  <2>1. CASE m # r
    BY <1>4, <2>1, MarkedType, UntouchedInv DEF Untouched, TypeOK
  <2>2. CASE m = r
    <3>1. AnswerInv(m)'
      BY <2>2 DEF AnswerInv, Readable, Answered
    <3>2. marker'[r] = "not_started" => executed[r] = 0
      BY <2>2, MarkedType, BridgeAssumption DEF TypeOK, RunInv, Execution, Executions
    <3>3. RunInv(m)'
      BY <2>2, <3>2 DEF RunInv, Answered
    <3> QED
      BY <3>1, <3>3
  <2> QED
    BY <2>1, <2>2
<1> QED
  BY <1>1, <1>2, <1>3, <1>4

\* A cancellation that ends, with an answer or a tombstone, keeps the invariant.
LEMMA EndsInv ==
  ASSUME BridgeInv, NEW s \in Slots, NEW r \in Runs, slot.run = r, s.run = r,
         executed[r] = 1 => MayHaveStarted(s),
         Ends(s), observer' \notin {"new", "started"},
         faults' \in 0 .. MaxFaults, ElseUnchanged
  PROVE  BridgeInv'
<1> USE DEF BridgeInv, Ends, ElseUnchanged, tests
<1>b. MayHaveStarted(s) \in BOOLEAN
  BY Zenon DEF MayHaveStarted
<1>0. /\ tombstone \in [Runs -> Tombstones \cup {None}] /\ session \in Sessions
      /\ response[r] = None /\ tombstone[r] = None /\ RunInv(r) /\ request[r] # 0
  BY BridgeAssumption DEF SlotInv, Answered, TypeOK, SessionInv
<1> DEFINE sealed == Entombed(r, MayHaveStarted(s))
<1>e. /\ sealed \in [Runs -> Tombstones \cup {None}]
      /\ \A m \in Runs : m # r => sealed[m] = tombstone[m]
      /\ sealed[r] = [state |-> Execution(MayHaveStarted(s)), session |-> session]
  BY <1>b, <1>0, EntombedType, Zenon
<1> HIDE DEF sealed
<1>s. tombstone' \in {tombstone, sealed}
  BY Zenon DEF sealed
<1>t. \/ /\ \E o \in {"rejected", "busy", "compile_failed", "indeterminate"} :
               /\ MayHaveStarted(s) => o = "indeterminate"
               /\ response'[r] = [outcome |-> o, session |-> session]
         /\ tombstone'[r] = None
      \/ /\ tombstone'[r] = [state |-> Execution(MayHaveStarted(s)), session |-> session]
         /\ response'[r] = None
  <2>1. CASE /\ \E o \in {"rejected", "busy", "compile_failed", "indeterminate"} :
                  /\ MayHaveStarted(s) => o = "indeterminate"
                  /\ response' = [response EXCEPT ![r] = [outcome |-> o, session |-> session]]
             /\ UNCHANGED tombstone
    BY <1>0, <2>1 DEF TypeOK
  <2>2. CASE tombstone' = sealed /\ UNCHANGED response
    BY <1>0, <1>e, <2>2
  <2> QED
    BY <2>1, <2>2, Zenon DEF sealed
<1>u. \A m \in Runs : m # r => response'[m] = response[m] /\ tombstone'[m] = tombstone[m]
  BY <1>e, <1>s DEF TypeOK
<1>h. hand' \in [session: Sessions, idle: BOOLEAN] /\ hand'.session <= sessions'
  BY HandshakeInv
<1>n. NoSlot \in Slots /\ NoSlot.run = None /\ NoSlot.phase = "none"
  BY NoSlotType DEF NoSlot
<1>1. TypeOK'
  <2>1. response' \in [Runs -> Responses \cup {None}]
    BY DEF TypeOK, Responses, Outcomes
  <2>2. tombstone' \in [Runs -> Tombstones \cup {None}]
    BY <1>e, <1>s DEF TypeOK
  <2> QED
    BY <1>h, <1>n, <2>1, <2>2, MarkedType DEF TypeOK
<1>2. SessionInv'
  BY <1>h DEF SessionInv
<1>3. SlotInv'
  BY <1>n DEF SlotInv
<1>a. Answered(r)'
  <2>1. ASSUME NEW o \in {"rejected", "busy", "compile_failed", "indeterminate"},
               response'[r] = [outcome |-> o, session |-> session]
        PROVE  response'[r] # None
    BY <1>0, <2>1, BridgeAssumption DEF Responses, Outcomes
  <2>2. ASSUME tombstone'[r] = [state |-> Execution(MayHaveStarted(s)), session |-> session]
        PROVE  tombstone'[r] # None
    BY <1>0, <2>2, BridgeAssumption DEF Tombstones, Execution, Executions
  <2> QED
    BY <1>t, <2>1, <2>2 DEF Answered
<1>4. ASSUME NEW m \in Runs PROVE RunInv(m)' /\ AnswerInv(m)'
  <2>1. CASE m # r
    BY <1>4, <1>u, <2>1, MarkedType, UntouchedInv DEF Untouched, TypeOK
  <2>2. CASE m = r
    <3>1. AnswerInv(m)'
      BY <1>t, <2>2, <1>0, BridgeAssumption DEF AnswerInv, Readable, RunInv, Execution
    <3>2. marker'[r] = "not_started" => executed[r] = 0
      BY <2>2, MarkedType, BridgeAssumption DEF TypeOK, RunInv, Execution, Executions
    <3>3. RunInv(m)'
      BY <1>a, <2>2, <1>0, <3>2 DEF RunInv
    <3> QED
      BY <3>1, <3>3
  <2> QED
    BY <2>1, <2>2
<1> QED
  BY <1>1, <1>2, <1>3, <1>4
-----------------------------------------------------------------------------
(* The steps of the Test Framework keep the invariant. *)

\* A step that leaves the files of the bridge and the claimed run alone.
LEMMA QuietInv ==
  ASSUME BridgeInv, TypeOK',
         UNCHANGED <<request, response, tombstone, marker, pending, client, session, sessions, slot, executed>>,
         hand'.session <= sessions,
         \A m \in Runs : job'[m] # "none" => job[m] # "none",
         \A m \in Runs : failed'[m] => failed[m] \/ job[m] # "none",
         slot.phase \in {"running", "completing"} => failed' = failed /\ observer' # "none",
         slot.phase = "completing" => ~restoring',
         observer' \in {"new", "started"} => observer \in {"new", "started"}
  PROVE  BridgeInv'
<1> USE DEF BridgeInv
<1>1. SessionInv'
  BY DEF SessionInv
<1>2. SlotInv'
  BY DEF SlotInv, Answered, TypeOK
<1>3. ASSUME NEW m \in Runs PROVE RunInv(m)' /\ AnswerInv(m)'
  <2>1. RunInv(m)'
    BY <1>3 DEF RunInv, Answered
  <2>2. AnswerInv(m)'
    BY <1>3 DEF AnswerInv, Readable
  <2> QED
    BY <2>1, <2>2
<1> QED
  BY <1>1, <1>2, <1>3

\* A callback or a domain reload that cancels.
LEMMA CallbackCancelInv ==
  ASSUME BridgeInv, NEW n \in Nat, NEW grace \in BOOLEAN, BeginCancellation(grace, FALSE, TRUE, n),
         UNCHANGED <<request, response, tombstone, pending, hand, client, session, sessions, executed>>,
         job' \in [Runs -> {"none", "queued", "started", "finished", "cleanup"}],
         \A m \in Runs : job'[m] # "none" => job[m] # "none",
         failed' \in [Runs -> BOOLEAN],
         \A m \in Runs : failed'[m] => failed[m] \/ job[m] # "none",
         xml' \in [Runs -> {"none", "own", "foreign"}], foreign' \in {"none", "queued", "started"},
         restoring' \in BOOLEAN, reloads' \in 0 .. MaxReloads, foreigns' \in 0 .. MaxForeign
  PROVE  BridgeInv'
<1> USE DEF BridgeInv
<1>1. CASE slot.run = None
  <2>1. /\ UNCHANGED <<slot, marker>> /\ observer' = "none"
        /\ Spend(n) \/ Spend(n + 1)
    BY <1>1, Zenon DEF BeginCancellation, Begin, Marked
  <2>2. faults' \in 0 .. MaxFaults
    BY <2>1, SpendType DEF TypeOK
  <2>3. slot.phase = "none"
    BY <1>1 DEF SlotInv, NoSlot
  <2>4. TypeOK'
    BY <2>1, <2>2 DEF TypeOK
  <2> QED
    BY <2>1, <2>3, <2>4, QuietInv DEF SessionInv
<1>2. CASE slot.run # None
  <2>1. slot.run \in Runs /\ slot \in Slots /\ (slot.phase \in {"running", "completing"} => slot.guid)
    BY <1>2 DEF TypeOK, Slots, SlotInv
  <2>2. /\ faults' \in 0 .. MaxFaults /\ observer' = "none"
        /\ slot' \in Slots /\ slot'.run = slot.run /\ slot'.phase = "cancelling" /\ slot'.probe
        /\ marker' \in {marker, [marker EXCEPT ![slot.run] = "possibly_started"]}
    BY <2>1, BeginCancellationEffect
  <2>3. TypeOK'
    BY <2>1, <2>2 DEF TypeOK, Executions
  <2>4. SessionInv'
    BY DEF SessionInv
  <2>5. SlotInv'
    BY <1>2, <2>2 DEF SlotInv, Answered, MayHaveStarted
  <2>6. ASSUME NEW m \in Runs PROVE RunInv(m)' /\ AnswerInv(m)'
    <3>1. marker'[m] \in {marker[m], "possibly_started"}
      BY <2>1, <2>2, <2>6 DEF TypeOK
    <3>2. RunInv(m)'
      BY <2>2, <2>6, <3>1, BridgeAssumption DEF RunInv, Answered, Executions
    <3>3. AnswerInv(m)'
      BY <2>6 DEF AnswerInv, Readable
    <3> QED
      BY <3>2, <3>3
  <2> QED
    BY <2>3, <2>4, <2>5, <2>6
<1> QED
  BY <1>1, <1>2

\* RunStarted reaches the observer.
LEMMA OnRunStartedInv ==
  ASSUME BridgeInv, OnRunStarted, Callback, UNCHANGED <<failed, foreigns>>,
         job' \in [Runs -> {"none", "queued", "started", "finished", "cleanup"}],
         \A m \in Runs : job'[m] # "none" => job[m] # "none",
         foreign' \in {"none", "queued", "started"}
  PROVE  BridgeInv'
<1> USE DEF Callback
<1>1. CASE observer = "started"
  <2>1. BeginCancellation(FALSE, FALSE, TRUE, 0)
    BY <1>1 DEF OnRunStarted
  <2>2. FALSE \in BOOLEAN /\ 0 \in Nat
    OBVIOUS
  <2> QED
    BY <2>1, <2>2, CallbackCancelInv, Zenon DEF OnRunStarted, BridgeInv, TypeOK
<1>2. CASE observer # "started"
  <2>1. /\ UNCHANGED <<slot, marker, faults>>
        /\ observer' = IF observer = "new" THEN "started" ELSE observer
    BY <1>2 DEF OnRunStarted
  <2>2. TypeOK'
    BY <2>1 DEF OnRunStarted, BridgeInv, TypeOK
  <2>3. UNCHANGED <<pending, hand>> /\ hand.session <= sessions
    BY DEF OnRunStarted, BridgeInv, SessionInv
  <2>4. /\ slot.phase \in {"running", "completing"} => observer' # "none"
        /\ slot.phase = "completing" => ~restoring
    BY <2>1 DEF BridgeInv, SlotInv, NoSlot
  <2> QED
    BY <2>1, <2>2, <2>3, <2>4, QuietInv
<1> QED
  BY <1>1, <1>2

\* RunFinished reaches the observer.
LEMMA OnRunFinishedInv ==
  ASSUME BridgeInv, NEW origin \in {"own", "foreign"}, OnRunFinished(origin), Callback, ~restoring,
         UNCHANGED <<failed, foreigns>>,
         job' \in [Runs -> {"none", "queued", "started", "finished", "cleanup"}],
         \A m \in Runs : job'[m] # "none" => job[m] # "none",
         foreign' \in {"none", "queued", "started"}
  PROVE  BridgeInv'
<1> USE DEF Callback
<1>b. FALSE \in BOOLEAN /\ 0 \in Nat /\ 1 \in Nat
  OBVIOUS
<1>1. CASE observer = "new"
  <2>1. BeginCancellation(FALSE, FALSE, TRUE, 0) /\ UNCHANGED <<xml, pending>>
    BY <1>1 DEF OnRunFinished
  <2> QED
    BY <1>b, <2>1, CallbackCancelInv, Zenon DEF BridgeInv, TypeOK
<1>2. CASE observer = "started"
  <2>1. /\ slot.phase = "running" /\ slot.run # None /\ slot.run \in Runs /\ slot \in Slots
    BY <1>2 DEF BridgeInv, SlotInv, TypeOK, Slots, NoSlot
  <2>2. CASE BeginCancellation(FALSE, FALSE, TRUE, 1)
    <3>1. xml' \in {xml, [xml EXCEPT ![slot.run] = origin]} /\ UNCHANGED pending
      BY <1>2, <2>1, <2>2 DEF OnRunFinished, BeginCancellation, Begin
    <3>2. xml' \in [Runs -> {"none", "own", "foreign"}]
      BY <3>1 DEF BridgeInv, TypeOK
    <3> QED
      BY <1>b, <2>2, <3>1, <3>2, CallbackCancelInv, Zenon DEF BridgeInv, TypeOK
  <2>3. CASE /\ xml' = [xml EXCEPT ![slot.run] = origin]
             /\ pending' = [pending EXCEPT ![slot.run] = TRUE]
             /\ observer' = "finished"
             /\ slot' = [slot EXCEPT !.phase = "completing", !.count = 0]
             /\ UNCHANGED <<marker, faults>>
    <3>1. /\ slot' \in Slots /\ slot'.run = slot.run /\ slot'.phase = "completing" /\ slot'.guid = slot.guid
          /\ slot'.count = 0
      <4>1. slot' = [run |-> slot.run, phase |-> "completing", guid |-> slot.guid, count |-> 0,
                     only |-> slot.only, probe |-> slot.probe, grace |-> slot.grace]
        BY <2>1, <2>3 DEF Slots
      <4> QED
        BY <2>1, <4>1 DEF Slots, Phases
    <3>2. TypeOK'
      BY <2>3, <3>1 DEF BridgeInv, TypeOK
    <3>3. SessionInv'
      BY DEF BridgeInv, SessionInv
    <3>4. SlotInv'
      BY <2>1, <2>3, <3>1 DEF BridgeInv, TypeOK, SlotInv, Answered, MayHaveStarted, Confirmations
    <3>5. ASSUME NEW m \in Runs PROVE RunInv(m)' /\ AnswerInv(m)'
      <4>1. RunInv(m)'
        BY <2>3, <3>1, <3>5 DEF BridgeInv, TypeOK, RunInv, Answered
      <4>2. AnswerInv(m)'
        BY <3>5 DEF BridgeInv, AnswerInv, Readable
      <4> QED
        BY <4>1, <4>2
    <3> QED
      BY <3>2, <3>3, <3>4, <3>5 DEF BridgeInv
  <2> QED
    BY <1>2, <2>2, <2>3, Zenon DEF OnRunFinished
<1>3. CASE observer \notin {"new", "started"}
  <2>1. UNCHANGED <<observer, slot, marker, faults, xml, pending>>
    BY <1>3 DEF OnRunFinished
  <2>2. TypeOK'
    BY <2>1 DEF BridgeInv, TypeOK
  <2>3. hand.session <= sessions
    BY DEF BridgeInv, SessionInv
  <2>4. /\ slot.phase \in {"running", "completing"} => observer # "none"
        /\ slot.phase = "completing" => ~restoring
    BY DEF BridgeInv, SlotInv, NoSlot
  <2> QED
    BY <2>1, <2>2, <2>3, <2>4, QuietInv
<1> QED
  BY <1>1, <1>2, <1>3

\* The steps of the job inside the Test Framework keep the invariant.
LEMMA JobInv ==
  ASSUME BridgeInv, NEW r \in Runs, Job(r) PROVE BridgeInv'
<1> USE DEF Busy
<1>1. CASE JobStarts(r)
  BY <1>1, OnRunStartedInv DEF JobStarts, BridgeInv, TypeOK
<1>2. CASE JobFinishes(r)
  <2>1. /\ OnRunFinished("own") /\ Callback /\ ~restoring /\ UNCHANGED <<failed, foreigns, foreign>>
        /\ job' \in [Runs -> {"none", "queued", "started", "finished", "cleanup"}]
        /\ \A m \in Runs : job'[m] # "none" => job[m] # "none"
        /\ foreign \in {"none", "queued", "started"}
    BY <1>2 DEF JobFinishes, BridgeInv, TypeOK
  <2> QED
    BY <2>1, OnRunFinishedInv
<1>3. CASE JobVanishes(r) \/ JobCleans(r)
  <2>1. /\ UNCHANGED <<files, hand, client, editor, foreign, restoring, executed, failed, bounds>>
        /\ job' \in [Runs -> {"none", "queued", "started", "finished", "cleanup"}]
        /\ \A m \in Runs : job'[m] # "none" => job[m] # "none"
    BY <1>3 DEF JobVanishes, JobCleans, BridgeInv, TypeOK
  <2>2. TypeOK'
    BY <2>1 DEF BridgeInv, TypeOK, files, editor, bounds
  <2>3. hand.session <= sessions
    BY DEF BridgeInv, SessionInv
  <2>4. /\ slot.phase \in {"running", "completing"} => observer # "none"
        /\ slot.phase = "completing" => ~restoring
    BY DEF BridgeInv, SlotInv, NoSlot
  <2> QED
    BY <2>1, <2>2, <2>3, <2>4, QuietInv DEF files, editor
<1> QED
  BY <1>1, <1>2, <1>3 DEF Job

\* A job that fails while it starts keeps the invariant.
LEMMA JobFailsInv ==
  ASSUME BridgeInv, NEW r \in Runs, JobFails(r) PROVE BridgeInv'
<1>1. /\ OnError /\ Callback /\ UNCHANGED <<job, foreign, foreigns, xml, pending>>
      /\ failed' \in [Runs -> BOOLEAN]
      /\ \A m \in Runs : failed'[m] => failed[m] \/ job[m] # "none"
  BY DEF JobFails, OnError, BridgeInv, TypeOK
<1>2. CASE observer = "none"
  <2>1. UNCHANGED <<observer, slot, marker, faults>>
    BY <1>1, <1>2 DEF OnError
  <2>2. TypeOK'
    BY <1>1, <2>1 DEF BridgeInv, TypeOK, Callback
  <2>3. hand.session <= sessions
    BY DEF BridgeInv, SessionInv
  <2>4. slot.phase \notin {"running", "completing"}
    BY <1>2 DEF BridgeInv, SlotInv, NoSlot
  <2> QED
    BY <1>1, <1>2, <2>1, <2>2, <2>3, <2>4, QuietInv DEF Callback
<1>3. CASE observer # "none"
  <2>1. BeginCancellation(FALSE, FALSE, TRUE, 0)
    BY <1>1, <1>3 DEF OnError
  <2>2. FALSE \in BOOLEAN /\ 0 \in Nat
    OBVIOUS
  <2> QED
    BY <1>1, <2>1, <2>2, CallbackCancelInv, Zenon DEF BridgeInv, TypeOK, Callback
<1> QED
  BY <1>2, <1>3

\* The job of another run keeps the invariant.
LEMMA ForeignInv ==
  ASSUME BridgeInv, ForeignQueued \/ Foreign PROVE BridgeInv'
<1>1. CASE ForeignQueued
  <2>1. /\ UNCHANGED <<files, hand, client, editor, job, restoring, executed, failed, reloads, faults>>
        /\ foreign' = "queued" /\ foreigns' \in 0 .. MaxForeign
    BY <1>1, BridgeAssumption DEF ForeignQueued, BridgeInv, TypeOK
  <2>2. TypeOK'
    BY <2>1 DEF BridgeInv, TypeOK, files, editor
  <2>3. hand.session <= sessions
    BY DEF BridgeInv, SessionInv
  <2>4. /\ slot.phase \in {"running", "completing"} => observer # "none"
        /\ slot.phase = "completing" => ~restoring
    BY DEF BridgeInv, SlotInv, NoSlot
  <2> QED
    BY <2>1, <2>2, <2>3, <2>4, QuietInv DEF files, editor
<1>2. CASE ForeignStarts
  BY <1>2, OnRunStartedInv DEF ForeignStarts, BridgeInv, TypeOK
<1>3. CASE ForeignFinishes
  <2>1. /\ OnRunFinished("foreign") /\ Callback /\ ~restoring /\ UNCHANGED <<job, failed, foreigns>>
        /\ foreign' \in {"none", "queued", "started"}
        /\ job \in [Runs -> {"none", "queued", "started", "finished", "cleanup"}]
    BY <1>3 DEF ForeignFinishes, BridgeInv, TypeOK
  <2> QED
    BY <2>1, OnRunFinishedInv
<1> QED
  BY <1>1, <1>2, <1>3 DEF Foreign
-----------------------------------------------------------------------------
(* The steps of testplay keep the invariant. *)

\* What testplay reads of a run tells whether its tests were executed.
LEMMA VerdictTrue ==
  ASSUME BridgeInv, NEW r \in Runs, Readable(response[r], r) \/ Readable(tombstone[r], r)
  PROVE  /\ Verdict(r) \in {"result", "unknown", "compile", "cold"}
         /\ Verdict(r) = "result" => executed[r] = 1
         /\ Verdict(r) \in {"compile", "cold"} => executed[r] = 0
  BY DEF Verdict, BridgeInv, AnswerInv, TypeOK, Responses, Outcomes, Readable

\* A step of testplay on the run r.
LEMMA ClientInv ==
  ASSUME BridgeInv, NEW r \in Runs, Submit(r) \/ Poll(r) \/ Cancel(r) \/ ClientKilled(r)
  PROVE  BridgeInv'
<1> USE DEF BridgeInv
<1>1. CASE Submit(r)
  <2>1. /\ client[r] = "start" /\ hand.session # 0 /\ hand.session \in Sessions
        /\ request[r] = 0
        /\ UNCHANGED <<response, tombstone, marker, pending, xml, hand, editor, tests, reloads, foreigns>>
    BY <1>1 DEF Submit, TypeOK, RunInv
  <2> USE DEF editor, tests
  <2>2. CASE /\ request' = [request EXCEPT ![r] = hand.session]
             /\ client' = [client EXCEPT ![r] = "waiting"]
             /\ UNCHANGED faults
    <3>1. TypeOK'
      BY <2>1, <2>2 DEF TypeOK
    <3>2. SessionInv'
      BY <2>1, <2>2 DEF SessionInv, TypeOK
    <3>3. SlotInv'
      BY <2>1, <2>2 DEF SlotInv, TypeOK, Slots, Answered
    <3>4. ASSUME NEW m \in Runs PROVE RunInv(m)' /\ AnswerInv(m)'
      BY <2>1, <2>2, <3>4 DEF RunInv, AnswerInv, Answered, Readable, TypeOK
    <3> QED
      BY <3>1, <3>2, <3>3, <3>4
  <2>3. CASE Spend(1) /\ client' = [client EXCEPT ![r] = "cold"] /\ UNCHANGED request
    <3>1. TypeOK'
      BY <2>1, <2>3, SpendType DEF TypeOK
    <3>2. SessionInv'
      BY <2>1, <2>3 DEF SessionInv
    <3>3. SlotInv'
      BY <2>1, <2>3 DEF SlotInv, Answered
    <3>4. ASSUME NEW m \in Runs PROVE RunInv(m)' /\ AnswerInv(m)'
      BY <2>1, <2>3, <3>4 DEF RunInv, AnswerInv, Answered, Readable, TypeOK
    <3> QED
      BY <3>1, <3>2, <3>3, <3>4
  <2> QED
    BY <1>1, <2>2, <2>3 DEF Submit
<1>2. CASE Poll(r) \/ ClientKilled(r)
  <2>1. /\ UNCHANGED <<files, hand, editor, tests, bounds>> /\ client[r] = "waiting"
        /\ \E c \in {"result", "unknown", "compile", "cold", "killed"} :
              /\ client' = [client EXCEPT ![r] = c]
              /\ c \in {"result", "compile", "cold"} => Answered(r)
    BY <1>2, VerdictTrue DEF Poll, ClientKilled, Answered, Readable
  <2> USE DEF files, editor, tests, bounds
  <2>2. TypeOK'
    BY <2>1 DEF TypeOK
  <2>3. SessionInv'
    BY <2>1 DEF SessionInv
  <2>4. SlotInv'
    BY <2>1 DEF SlotInv, Answered
  <2>5. ASSUME NEW m \in Runs PROVE RunInv(m)' /\ AnswerInv(m)'
    BY <2>1, <2>5 DEF RunInv, AnswerInv, Answered, Readable, TypeOK
  <2> QED
    BY <2>2, <2>3, <2>4, <2>5
<1>3. CASE Cancel(r)
  <2>1. /\ UNCHANGED <<request, response, tombstone, pending, xml, hand, editor, tests, reloads, foreigns>>
        /\ client[r] = "waiting" /\ client' = [client EXCEPT ![r] = "abandoned"]
        /\ marker' \in {marker, [marker EXCEPT ![r] = "possibly_started"]}
    BY <1>3 DEF Cancel
  <2> USE DEF editor, tests
  <2>f. faults' \in 0 .. MaxFaults
    BY <1>3, SpendType DEF Cancel, TypeOK
  <2>2. TypeOK'
    BY <2>1, <2>f DEF TypeOK, Executions
  <2>3. SessionInv'
    BY <2>1 DEF SessionInv
  <2>4. SlotInv'
    BY <2>1 DEF SlotInv, Answered
  <2>5. ASSUME NEW m \in Runs PROVE RunInv(m)' /\ AnswerInv(m)'
    BY <2>1, <2>5, BridgeAssumption DEF RunInv, AnswerInv, Answered, Readable, TypeOK, Executions
  <2> QED
    BY <2>2, <2>3, <2>4, <2>5
<1> QED
  BY <1>1, <1>2, <1>3
-----------------------------------------------------------------------------
(* The steps of BridgeServer.Pump keep the invariant. *)

\* A claimed run in the phases before Execute has not been executed.
LEMMA NotYetExecuted ==
  ASSUME BridgeInv, slot.phase \in {"new", "refreshing"}
  PROVE  /\ slot.run \in Runs /\ slot \in Slots /\ slot.run # None /\ executed[slot.run] = 0
         /\ observer \notin {"new", "started"} /\ ~MayHaveStarted(slot)
<1>1. slot.run \in Runs /\ slot \in Slots /\ slot.run # None
  BY DEF BridgeInv, SlotInv, NoSlot, TypeOK, Slots
<1>2. ~MayHaveStarted(slot)
  BY DEF MayHaveStarted
<1>3. executed[slot.run] = 0
  BY <1>1, <1>2 DEF BridgeInv, SlotInv, RunInv
<1> QED
  BY <1>1, <1>2, <1>3 DEF BridgeInv, SlotInv

\* Sealing, rejecting or claiming a request keeps the invariant.
LEMMA UnclaimedInv ==
  ASSUME BridgeInv, NEW r \in Runs, SealUnclaimed(r) \/ RejectUnclaimed(r) \/ Claim(r)
  PROVE  BridgeInv'
<1> USE DEF BridgeInv, files, editor, tests, bounds
<1>1. /\ session # 0 /\ slot.run = None /\ request[r] # 0 /\ response[r] = None /\ tombstone[r] = None
      /\ slot = NoSlot /\ session \in Sessions /\ tombstone \in [Runs -> Tombstones \cup {None}]
      /\ RunInv(r)
  BY DEF SealUnclaimed, RejectUnclaimed, Claim, Unclaimed, Serving, SlotInv, TypeOK
<1>2. CASE SealUnclaimed(r)
  <2> DEFINE may == pending[r] \/ marker[r] # "not_started"
  <2> DEFINE sealed == Entombed(r, may)
  <2>1. may \in BOOLEAN
    BY Zenon
  <2>2. /\ sealed \in [Runs -> Tombstones \cup {None}]
        /\ \A m \in Runs : m # r => sealed[m] = tombstone[m]
        /\ sealed[r] = [state |-> Execution(may), session |-> session]
    BY <1>1, <2>1, EntombedType, Zenon
  <2>3. /\ tombstone' = sealed
        /\ UNCHANGED <<request, response, marker, pending, xml, hand, client, editor, tests, bounds>>
    BY <1>2, Zenon DEF SealUnclaimed
  <2>4. ~may => executed[r] = 0
    BY <1>1 DEF RunInv
  <2> HIDE DEF sealed, may
  <2>5. TypeOK'
    BY <2>2, <2>3 DEF TypeOK
  <2>6. SessionInv'
    BY <2>3 DEF SessionInv
  <2>7. SlotInv'
    BY <1>1, <2>3 DEF SlotInv
  <2>8. ASSUME NEW m \in Runs PROVE RunInv(m)' /\ AnswerInv(m)'
    <3>1. CASE m # r
      BY <2>2, <2>3, <2>8, <3>1, UntouchedInv DEF Untouched
    <3>2. CASE m = r
      <4>1. tombstone'[r] # None
        BY <1>1, <2>2, <2>3, BridgeAssumption DEF Tombstones, Execution, Executions
      <4>2. RunInv(r)'
        BY <1>1, <2>3, <4>1 DEF RunInv, Answered
      <4>3. AnswerInv(r)'
        BY <1>1, <2>2, <2>3, <2>4 DEF AnswerInv, Readable, Execution
      <4> QED
        BY <3>2, <4>2, <4>3
    <3> QED
      BY <3>1, <3>2
  <2> QED
    BY <2>5, <2>6, <2>7, <2>8
<1>3. CASE RejectUnclaimed(r)
  <2>1. /\ UNCHANGED <<request, pending, xml, hand, client, session, sessions, observer, tests, reloads, foreigns>>
        /\ request[r] # session /\ marker[r] = None /\ ~pending[r]
        /\ Terminal(r, "rejected", FALSE, 0, slot, slot, marker)
    BY <1>3 DEF RejectUnclaimed
  <2> DEFINE sealed == Entombed(r, FALSE)
  <2>2. /\ sealed \in [Runs -> Tombstones \cup {None}]
        /\ \A m \in Runs : m # r => sealed[m] = tombstone[m]
        /\ sealed[r] = [state |-> Execution(FALSE), session |-> session]
    <3>1. FALSE \in BOOLEAN
      OBVIOUS
    <3> QED
      BY <1>1, <3>1, EntombedType, Zenon
  <2>3. Spend(0) \/ Spend(0 + 1)
    BY <2>1, Zenon DEF Terminal
  <2>4. slot' = slot
    BY <2>1, Zenon DEF Terminal
  <2>5. marker' = marker
    BY <1>1, <2>1, Zenon DEF Terminal, Marked
  <2>6. \/ /\ response' = [response EXCEPT ![r] = [outcome |-> "rejected", session |-> session]]
           /\ UNCHANGED tombstone
        \/ tombstone' = sealed /\ UNCHANGED response
        \/ UNCHANGED <<response, tombstone>>
    BY <2>1, Zenon DEF Terminal
  <2> HIDE DEF sealed
  <2>7. faults' \in 0 .. MaxFaults
    BY <2>3, SpendType DEF TypeOK
  <2>8. TypeOK'
    <3>1. response' \in [Runs -> Responses \cup {None}] /\ tombstone' \in [Runs -> Tombstones \cup {None}]
      BY <1>1, <2>2, <2>6 DEF TypeOK, Responses, Outcomes
    <3> QED
      BY <2>1, <2>4, <2>5, <2>7, <3>1 DEF TypeOK
  <2>9. SessionInv'
    BY <2>1 DEF SessionInv
  <2>10. SlotInv'
    BY <1>1, <2>1, <2>4 DEF SlotInv
  <2>11. ASSUME NEW m \in Runs PROVE RunInv(m)' /\ AnswerInv(m)'
    <3>1. CASE m # r
      <4>1. response'[m] = response[m] /\ tombstone'[m] = tombstone[m]
        BY <2>2, <2>6, <2>11, <3>1 DEF TypeOK
      <4> QED
        BY <2>1, <2>4, <2>5, <2>11, <4>1, UntouchedInv DEF Untouched
    <3>2. CASE m = r
      <4>1. /\ response'[r] # None => response'[r].session = session /\ response'[r].outcome = "rejected"
            /\ tombstone'[r] # None => tombstone'[r].session = session
        BY <1>1, <2>2, <2>6 DEF TypeOK
      <4>2. RunInv(r)'
        BY <1>1, <2>1, <2>4, <2>5 DEF RunInv, Answered
      <4>3. AnswerInv(r)'
        BY <2>1, <4>1 DEF AnswerInv, Readable
      <4> QED
        BY <3>2, <4>2, <4>3
    <3> QED
      BY <3>1, <3>2
  <2> QED
    BY <2>8, <2>9, <2>10, <2>11
<1>4. CASE Claim(r)
  <2>1. /\ slot' \in Slots /\ slot'.run = r /\ slot'.phase = "new" /\ ~slot'.guid
        /\ UNCHANGED <<files, hand, client, session, sessions, observer, tests, bounds>>
        /\ request[r] = session /\ ~pending[r] /\ marker[r] = None
    <3>1. slot' = [NoSlot EXCEPT !.run = r, !.phase = "new"]
      BY <1>4 DEF Claim
    <3>2. slot' = [run |-> r, phase |-> "new", guid |-> FALSE, count |-> 0,
                   only |-> FALSE, probe |-> FALSE, grace |-> FALSE]
      BY <3>1 DEF NoSlot
    <3>3. slot' \in Slots /\ slot'.run = r /\ slot'.phase = "new" /\ ~slot'.guid
      BY <3>2 DEF Slots, Phases
    <3> QED
      BY <1>4, <3>3 DEF Claim
  <2>2. observer \notin {"new", "started"}
    BY <1>1 DEF SlotInv, NoSlot
  <2>3. executed[r] # 1
    BY <1>1, <2>1, BridgeAssumption DEF RunInv, Answered
  <2>4. TypeOK'
    BY <2>1 DEF TypeOK
  <2>5. SessionInv'
    BY <2>1 DEF SessionInv
  <2>6. SlotInv'
    BY <1>1, <2>1, <2>2, <2>3, BridgeAssumption DEF SlotInv, Answered
  <2>7. ASSUME NEW m \in Runs PROVE RunInv(m)' /\ AnswerInv(m)'
    BY <1>1, <2>1, <2>7, UntouchedInv, BridgeAssumption DEF Untouched
  <2> QED
    BY <2>4, <2>5, <2>6, <2>7
<1> QED
  BY <1>2, <1>3, <1>4

\* A step of the cancellation of the claimed run keeps the invariant.
LEMMA CancellationInv ==
  ASSUME BridgeInv, CancelMarked \/ CancelUnread \/ Cancelling PROVE BridgeInv'
<1>t. TypeOK /\ (slot.phase \in {"running", "completing"} => slot.guid)
  BY DEF BridgeInv, SlotInv, NoSlot

\* A step of a cancellation of the claimed run.
<1>1. ASSUME NEW s \in Slots, slot.run # None, s.run = slot.run,
             MayHaveStarted(slot) => MayHaveStarted(s),
             NEW n \in Nat, AdvanceCancelling(s, n)
      PROVE  BridgeInv'
  <2>1. slot.run \in Runs /\ (executed[slot.run] = 1 => MayHaveStarted(s))
    BY <1>1 DEF BridgeInv, SlotInv, TypeOK, Slots
  <2>2. /\ faults' \in 0 .. MaxFaults /\ observer' = "none" /\ ElseUnchanged /\ s.phase = "cancelling"
        /\ Ends(s) \/ KeepsCancelling(s)
    BY <1>t, <1>1, <2>1, AdvanceCancellingEffect
  <2>3. observer' \notin {"new", "started"}
    BY <2>2
  <2>4. CASE Ends(s)
    BY <1>1, <2>1, <2>2, <2>3, <2>4, EndsInv
  <2>5. CASE KeepsCancelling(s)
    BY <1>1, <2>1, <2>2, <2>3, <2>5, KeepsInv
  <2> QED
    BY <2>2, <2>4, <2>5
<1>2. CASE CancelMarked \/ CancelUnread
  <2> DEFINE s == Begin(slot, FALSE, TRUE, OwnsJob)
  <2>1. /\ slot.run # None /\ slot \in Slots
        /\ AdvanceCancelling(s, 0) \/ AdvanceCancelling(s, 1)
    BY <1>2, <1>t DEF CancelMarked, CancelUnread, Unanswered, TypeOK
  <2>2. TRUE \in BOOLEAN /\ FALSE \in BOOLEAN /\ OwnsJob \in BOOLEAN
    BY DEF OwnsJob
  <2>3. Cancels(slot, s, OwnsJob)
    BY <2>1, <2>2, BeginCancels, Zenon
  <2> HIDE DEF s
  <2>4. s \in Slots /\ s.run = slot.run /\ (MayHaveStarted(slot) => MayHaveStarted(s))
    BY <1>t, <2>3 DEF Cancels
  <2> QED
    BY <1>1, <2>1, <2>4
<1>3. CASE Cancelling
  <2>1. AdvanceCancelling(slot, 0) /\ slot.phase = "cancelling" /\ slot \in Slots /\ slot.run # None
    BY <1>3, <1>t DEF Cancelling, AdvanceCancelling, BridgeInv, SlotInv, NoSlot, TypeOK
  <2> QED
    BY <1>1, <2>1
<1> QED
  BY <1>2, <1>3

\* A claimed run that is refused before its tests start keeps the invariant.
LEMMA RefuseInv ==
  ASSUME BridgeInv, RefuseNew \/ RefuseRefreshed PROVE BridgeInv'
<1> DEFINE t == Begin(slot, FALSE, TRUE, FALSE)
<1>1. slot.phase \in {"new", "refreshing"}
  BY DEF RefuseNew, RefuseRefreshed, Claimed
<1>2. PICK o \in {"rejected", "busy", "compile_failed"} :
         FinishTerminal(slot, slot.run, o, FALSE, 0, marker)
  BY DEF RefuseNew, RefuseRefreshed, Refuse
<1>3. ElseUnchanged /\ observer' = observer
  BY DEF RefuseNew, RefuseRefreshed, Refuse, ElseUnchanged
<1>4. /\ slot.run \in Runs /\ slot \in Slots /\ slot.run # None /\ executed[slot.run] = 0
      /\ observer' \notin {"new", "started"} /\ ~MayHaveStarted(slot)
  BY <1>1, <1>3, NotYetExecuted
<1>5. /\ faults' \in 0 .. MaxFaults
      /\ Ends(slot) \/ KeepsCancelling(t)
  <2>1. /\ TypeOK /\ 0 \in Nat /\ observer' \in {"none", observer}
        /\ o = "rejected" \/ ~MayHaveStarted(slot)
        /\ marker = marker \/ (slot.phase = "cancelling" /\ marker = Marked(slot))
    BY <1>3, <1>4 DEF BridgeInv
  <2> QED
    BY <1>2, <1>4, <2>1, FinishTerminalEffect, Zenon
<1>6. Cancels(slot, t, FALSE)
  <2>1. TRUE \in BOOLEAN /\ FALSE \in BOOLEAN
    OBVIOUS
  <2> QED
    BY <1>4, <2>1, BeginCancels, Zenon
<1> HIDE DEF t
<1>7. t \in Slots /\ t.run = slot.run /\ t.phase = "cancelling"
  BY <1>6 DEF Cancels
<1>8. CASE Ends(slot)
  BY <1>3, <1>4, <1>5, <1>8, EndsInv
<1>9. CASE KeepsCancelling(t)
  BY <1>3, <1>4, <1>5, <1>7, <1>9, KeepsInv
<1> QED
  BY <1>5, <1>8, <1>9

\* A step that changes the claimed run but none of its files.
LEMMA SlotStepInv ==
  ASSUME BridgeInv, TypeOK', SlotInv',
         UNCHANGED <<request, response, tombstone, marker, pending, hand, client, session, sessions,
                     job, executed, failed>>,
         slot'.run = slot.run
  PROVE  BridgeInv'
<1> USE DEF BridgeInv
<1>1. SessionInv'
  BY DEF SessionInv
<1>2. ASSUME NEW m \in Runs PROVE RunInv(m)' /\ AnswerInv(m)'
  BY <1>2, UntouchedInv DEF Untouched
<1> QED
  BY <1>1, <1>2

\* The asset refresh of the claimed run keeps the invariant.
LEMMA RefreshInv ==
  ASSUME BridgeInv, Refresh PROVE BridgeInv'
<1> USE DEF files, editor, tests, bounds
<1>1. /\ slot.phase = "new" /\ slot' = [slot EXCEPT !.phase = "refreshing"]
      /\ UNCHANGED <<files, hand, client, session, sessions, observer, tests, bounds>>
  BY DEF Refresh, Claimed
<1>2. /\ slot.run \in Runs /\ slot \in Slots /\ slot.run # None /\ executed[slot.run] = 0
      /\ observer \notin {"new", "started"} /\ ~MayHaveStarted(slot)
  BY <1>1, NotYetExecuted
<1>3. slot' \in Slots /\ slot'.run = slot.run /\ slot'.phase = "refreshing"
  BY <1>1, <1>2 DEF Slots, Phases
<1>4. TypeOK'
  BY <1>1, <1>3 DEF BridgeInv, TypeOK
<1>5. SlotInv'
  BY <1>1, <1>2, <1>3 DEF BridgeInv, SlotInv, Answered
<1> QED
  BY <1>1, <1>3, <1>4, <1>5, SlotStepInv

\* Watching for the end of the job keeps the invariant.
LEMMA ObserveCompletionInv ==
  ASSUME BridgeInv, ObserveCompletion PROVE BridgeInv'
<1> USE DEF files, editor, tests, bounds
<1>1. /\ slot.phase = "completing" /\ slot \in Slots
      /\ slot' = [slot EXCEPT !.count = 0] \/ (slot.count < 1 /\ slot' = [slot EXCEPT !.count = @ + 1])
      /\ UNCHANGED <<files, hand, client, session, sessions, observer, tests, bounds>>
  BY DEF ObserveCompletion, Claimed, Confirmations, BridgeInv, TypeOK, Slots
<1>2. /\ slot' \in Slots /\ slot'.run = slot.run /\ slot'.phase = "completing" /\ slot'.guid = slot.guid
      /\ slot'.count < Confirmations
  BY <1>1 DEF Slots, Confirmations
<1>3. TypeOK'
  BY <1>1, <1>2 DEF BridgeInv, TypeOK
<1>4. SlotInv'
  BY <1>1, <1>2 DEF BridgeInv, SlotInv, NoSlot, Answered, MayHaveStarted
<1> QED
  BY <1>1, <1>2, <1>3, <1>4, SlotStepInv

\* The end of the grace period keeps the invariant.
LEMMA GraceElapsesInv ==
  ASSUME BridgeInv, GraceElapses PROVE BridgeInv'
<1> USE DEF files, editor, tests, bounds
<1>1. /\ slot.grace /\ slot \in Slots /\ slot' = [slot EXCEPT !.grace = FALSE]
      /\ UNCHANGED <<files, hand, client, session, sessions, observer, tests, bounds>>
  BY DEF GraceElapses, BridgeInv, TypeOK
<1>2. /\ slot' \in Slots /\ slot'.run = slot.run /\ slot'.phase = slot.phase /\ slot'.guid = slot.guid
      /\ slot'.probe = slot.probe /\ slot'.count = slot.count
  BY <1>1 DEF Slots
<1>3. TypeOK'
  BY <1>1, <1>2 DEF BridgeInv, TypeOK
<1>4. slot.run # None
  BY <1>1 DEF BridgeInv, SlotInv, NoSlot
<1>5. SlotInv'
  BY <1>1, <1>2, <1>4 DEF BridgeInv, SlotInv, Answered, MayHaveStarted
<1> QED
  BY <1>1, <1>2, <1>3, <1>5, SlotStepInv

\* Execute is called for a run that was never executed, and has been executed
\* then unless it threw without a job.
LEMMA StartRunInv ==
  ASSUME BridgeInv, StartRun
  PROVE  /\ BridgeInv'
         /\ executed' = executed \/ (slot.run \in Runs /\ executed[slot.run] = 0
                                     /\ ~Answered(slot.run) /\ request[slot.run] # 0
                                     /\ executed' = [executed EXCEPT ![slot.run] = 1])
<1> DEFINE r == slot.run
<1> DEFINE running == [slot EXCEPT !.phase = "running"]
<1> DEFINE begun == Begin(running, TRUE, FALSE, TRUE)
<1> USE DEF BridgeInv
<1>1. /\ slot.phase = "refreshing" /\ marker[r] = None
      /\ UNCHANGED <<request, response, tombstone, pending, xml, hand, client, session,
                      sessions, foreign, restoring, failed, reloads, foreigns>>
  BY DEF StartRun, Claimed, Unanswered
<1>2. /\ r \in Runs /\ slot \in Slots /\ r # None /\ executed[r] = 0
      /\ ~Answered(r) /\ request[r] = session /\ session # 0 /\ RunInv(r) /\ ~failed[r]
  BY <1>1, NotYetExecuted DEF SlotInv, RunInv
<1>3. running \in Slots /\ running.run = r /\ running.phase = "running"
  BY <1>2 DEF Slots, Phases
<1>4. begun \in Slots /\ begun.run = r /\ begun.phase = "cancelling" /\ begun.probe
  <2>1. TRUE \in BOOLEAN /\ FALSE \in BOOLEAN
    OBVIOUS
  <2>2. Cancels(running, begun, TRUE)
    BY <1>2, <1>3, <2>1, BeginCancels, Zenon
  <2> QED
    BY <1>3, <2>2 DEF Cancels
<1>5. CASE /\ slot' = [running EXCEPT !.guid = TRUE]
           /\ observer' = "new"
           /\ job' = [job EXCEPT ![r] = "queued"]
           /\ executed' = [executed EXCEPT ![r] = @ + 1]
           /\ UNCHANGED <<marker, faults>>
  <2>1. slot' \in Slots /\ slot'.run = r /\ slot'.phase = "running" /\ slot'.guid
    BY <1>3, <1>5 DEF Slots
  <2>2. executed' = [executed EXCEPT ![r] = 1]
    BY <1>2, <1>5 DEF TypeOK
  <2> HIDE DEF running
  <2>3. TypeOK'
    <3>1. /\ executed' \in [Runs -> 0 .. 2]
          /\ job' \in [Runs -> {"none", "queued", "started", "finished", "cleanup"}]
      <4>1. executed' \in [Runs -> 0 .. 2]
        BY <1>2, <2>2 DEF TypeOK
      <4>2. job' \in [Runs -> {"none", "queued", "started", "finished", "cleanup"}]
        BY <1>5 DEF TypeOK
      <4> QED
        BY <4>1, <4>2
    <3> QED
      BY <1>1, <1>5, <2>1, <3>1 DEF TypeOK
  <2>4. SessionInv'
    BY <1>1 DEF SessionInv
  <2>5. SlotInv'
    BY <1>1, <1>2, <1>5, <2>1, <2>2 DEF TypeOK, SlotInv, Answered, MayHaveStarted
  <2>6. ASSUME NEW m \in Runs PROVE RunInv(m)' /\ AnswerInv(m)'
    <3>1. CASE m # r
      BY <1>1, <1>2, <1>5, <2>1, <2>2, <2>6, <3>1, UntouchedInv DEF Untouched, TypeOK
    <3>2. CASE m = r
      <4>1. RunInv(r)'
        BY <1>1, <1>2, <1>5, <2>1, <2>2, BridgeAssumption DEF RunInv, TypeOK, Answered, Executions
      <4>2. AnswerInv(m)'
        BY <1>1, <1>2, <2>1, <3>2 DEF AnswerInv, Answered, Readable
      <4> QED
        BY <1>1, <1>2, <2>1, <2>2, <3>2, <4>1, <4>2
    <3> QED
      BY <3>1, <3>2
  <2> QED
    BY <1>2, <2>2, <2>3, <2>4, <2>5, <2>6 DEF SessionInv
<1>6. CASE /\ slot' = begun
           /\ observer' = "none"
           /\ Spend(1)
           /\ marker' = Marked(begun)
           /\ \/ UNCHANGED <<job, executed>>
              \/ /\ job' = [job EXCEPT ![r] = "queued"]
                 /\ executed' = [executed EXCEPT ![r] = @ + 1]
  <2> HIDE DEF begun
  <2>1. /\ marker' \in [Runs -> Executions \cup {None}] /\ marker'[r] = "possibly_started"
        /\ \A m \in Runs : m # r => marker'[m] = marker[m]
    BY <1>1, <1>2, <1>4, <1>6, MarkedType DEF TypeOK, Execution, MayHaveStarted
  <2>2. executed' \in {executed, [executed EXCEPT ![r] = 1]}
    BY <1>2, <1>6 DEF TypeOK
  <2>3. TypeOK'
    <3>1. executed' \in [Runs -> 0 .. 2] /\ job' \in [Runs -> {"none", "queued", "started", "finished", "cleanup"}]
      BY <1>6, <2>2 DEF TypeOK
    <3>2. faults' \in 0 .. MaxFaults
      BY <1>6, SpendType DEF TypeOK
    <3> QED
      BY <1>1, <1>4, <1>6, <2>1, <3>1, <3>2 DEF TypeOK
  <2>4. SessionInv'
    BY <1>1 DEF SessionInv
  <2>5. SlotInv'
    BY <1>1, <1>2, <1>4, <1>6 DEF SlotInv, Answered, MayHaveStarted
  <2>6. ASSUME NEW m \in Runs PROVE RunInv(m)' /\ AnswerInv(m)'
    <3>1. CASE m # r
      BY <1>1, <1>2, <1>4, <1>6, <2>1, <2>6, <3>1, UntouchedInv DEF Untouched, TypeOK
    <3>2. CASE m = r
      <4>1. job' \in {job, [job EXCEPT ![r] = "queued"]} /\ (executed' = executed => job' = job)
        BY <1>2, <1>6, <2>2 DEF TypeOK
      <4>2. RunInv(m)'
        BY <1>1, <1>2, <1>4, <1>6, <2>1, <2>2, <3>2, <4>1 DEF RunInv, TypeOK, Answered
      <4>3. AnswerInv(m)'
        BY <1>1, <1>2, <3>2 DEF AnswerInv, Answered, Readable
      <4> QED
        BY <4>2, <4>3
    <3> QED
      BY <3>1, <3>2
  <2> QED
    BY <1>2, <2>2, <2>3, <2>4, <2>5, <2>6
<1> QED
  BY <1>5, <1>6, Zenon DEF StartRun

\* Publish releases the run with its answer, or, when it fails, with what does
\* not deny that its tests were executed.
LEMMA PublishInv ==
  ASSUME BridgeInv, Publish PROVE BridgeInv'
<1> DEFINE r == slot.run
<1> DEFINE next == [slot EXCEPT !.count = @ + 1]
<1> USE DEF BridgeInv
<1>1. /\ slot.phase = "completing" /\ session # 0
      /\ ~Busy(r) /\ FrameOver(slot) /\ slot.count + 1 >= Confirmations
      /\ UNCHANGED <<request, xml, client, session, sessions, tests, reloads, foreigns>>
  BY DEF Publish, Claimed, Serving
<1>2. /\ r \in Runs /\ slot \in Slots /\ r # None /\ executed[r] = 1 /\ slot.guid
      /\ ~Answered(r) /\ request[r] = session /\ RunInv(r) /\ ~failed[r] /\ pending[r] /\ ~restoring
      /\ observer \notin {"new", "started"} /\ slot.count = 1
  BY <1>1 DEF SlotInv, NoSlot, TypeOK, Slots, Confirmations
<1>3. job[r] = "none"
  BY <1>1, <1>2 DEF Busy, FrameOver, Confirmations, TypeOK, Slots
<1>4. next \in Slots /\ next.run = r /\ next.phase = "completing" /\ next.guid
  BY <1>1, <1>2 DEF Slots

\* The run is released, answered with what was executed, or, after a failure,
\* without any answer but with its pending response.
<1>5. ASSUME slot' = NoSlot, observer' = "none", hand' = [session |-> session, idle |-> TRUE],
             UNCHANGED <<tombstone, marker>>,
             \/ /\ response' = [response EXCEPT ![r] = [outcome |-> "completed", session |-> session]]
                /\ pending' \in {pending, [pending EXCEPT ![r] = FALSE]}
             \/ UNCHANGED <<response, pending>>,
             faults' \in 0 .. MaxFaults
      PROVE  BridgeInv'
  <2> USE DEF tests
  <2>h. hand' \in [session: Sessions, idle: BOOLEAN] /\ hand'.session <= sessions'
    BY <1>1, <1>5, HandshakeInv
  <2>n. NoSlot \in Slots /\ NoSlot.run = None /\ NoSlot.phase = "none"
    BY NoSlotType DEF NoSlot
  <2>1. TypeOK'
    <3>1. [outcome |-> "completed", session |-> session] \in Responses
      BY DEF TypeOK, Responses, Outcomes
    <3>2. response' \in [Runs -> Responses \cup {None}]
      BY <1>5, <3>1 DEF TypeOK
    <3>3. pending' \in [Runs -> BOOLEAN]
      BY <1>5 DEF TypeOK
    <3> QED
      BY <1>1, <1>5, <2>h, <2>n, <3>2, <3>3 DEF TypeOK
  <2>2. SessionInv'
    BY <1>1, <2>h DEF SessionInv
  <2>3. SlotInv'
    BY <1>5, <2>n DEF SlotInv
  <2>4. ASSUME NEW m \in Runs PROVE RunInv(m)' /\ AnswerInv(m)'
    <3>1. CASE m # r
      BY <1>1, <1>5, <2>4, <3>1, UntouchedInv DEF Untouched, TypeOK
    <3>2. CASE m = r
      <4>1. \/ /\ response'[m] = [outcome |-> "completed", session |-> session] /\ response'[m] # None
            \/ response'[m] = None /\ pending'[m]
        BY <1>2, <1>5, <3>2, BridgeAssumption DEF TypeOK, Answered, Responses, Outcomes
      <4>2. RunInv(m)'
        BY <1>1, <1>2, <1>5, <3>2, <4>1 DEF RunInv, Answered
      <4>3. AnswerInv(m)'
        BY <1>1, <1>2, <1>3, <1>5, <3>2, <4>1 DEF AnswerInv, Answered, Readable
      <4> QED
        BY <4>2, <4>3
    <3> QED
      BY <3>1, <3>2
  <2> QED
    BY <2>1, <2>2, <2>3, <2>4
<1>6. ASSUME NEW s \in Slots, NEW t, t = Begin(s, FALSE, TRUE, FALSE),
             FinishTerminal(s, r, "rejected", TRUE, 1, marker), observer' \in {"none", observer}
      PROVE  /\ faults' \in 0 .. MaxFaults
             /\ \/ Ends(slot)
                \/ slot' = t /\ marker' \in {marker, Marked(t)} /\ UNCHANGED <<response, tombstone>>
  <2>1. (TRUE \/ MayHaveStarted(s)) = TRUE /\ MayHaveStarted(slot)
    BY <1>1, Zenon DEF MayHaveStarted
  <2>2. Terminal(r, "indeterminate", TRUE, 1, NoSlot, t, marker)
    BY <1>6, <2>1, Zenon DEF FinishTerminal
  <2>3. Spend(1) \/ Spend(1 + 1)
    BY <2>2, Zenon DEF Terminal
  <2>4. faults' \in 0 .. MaxFaults
    BY <2>3, SpendType DEF TypeOK
  <2>5. Entombed(r, TRUE) = Entombed(r, MayHaveStarted(slot))
    BY <2>1, Zenon DEF Entombed, Execution
  <2>6. CASE /\ response' = [response EXCEPT ![r] = [outcome |-> "indeterminate", session |-> session]]
             /\ slot' = NoSlot /\ marker' = marker /\ UNCHANGED tombstone
    BY <1>6, <2>4, <2>6 DEF Ends
  <2>7. CASE tombstone' = Entombed(r, TRUE) /\ slot' = NoSlot /\ marker' = marker /\ UNCHANGED response
    BY <1>6, <2>4, <2>5, <2>7, Zenon DEF Ends
  <2>8. CASE /\ slot' = t /\ marker' \in {marker, Marked(t)}
             /\ UNCHANGED <<response, tombstone>>
    BY <2>4, <2>8, Zenon
  <2> QED
    BY <2>2, <2>6, <2>7, <2>8, Zenon DEF Terminal
<1>7. ASSUME Ends(slot), ElseUnchanged, observer' \in {"none", observer}, faults' \in 0 .. MaxFaults
      PROVE  BridgeInv'
  <2>1. MayHaveStarted(slot)
    BY <1>1 DEF MayHaveStarted
  <2> QED
    BY <1>2, <1>7, <2>1, EndsInv
<1>8. CASE /\ slot' = NoSlot /\ observer' = "none"
           /\ hand' = [session |-> session, idle |-> TRUE]
           /\ response' = [response EXCEPT ![r] = [outcome |-> "completed", session |-> session]]
           /\ \/ pending' = [pending EXCEPT ![r] = FALSE] /\ UNCHANGED faults
              \/ Spend(1) /\ UNCHANGED pending
           /\ UNCHANGED <<tombstone, marker>>
  <2>1. faults' \in 0 .. MaxFaults
    BY <1>8, SpendType DEF TypeOK
  <2> QED
    BY <1>5, <1>8, <2>1
<1>9. CASE /\ FinishTerminal(NoSlot, r, "rejected", TRUE, 1, marker)
           /\ observer' = "none"
           /\ hand' = [session |-> session, idle |-> TRUE]
           /\ UNCHANGED pending
  <2>1. NoSlot = Begin(NoSlot, FALSE, TRUE, FALSE) /\ Marked(NoSlot) = marker
    BY Zenon DEF Begin, Marked, NoSlot
  <2>o. observer' \in {"none", observer} /\ NoSlot \in Slots
    BY <1>9, NoSlotType
  <2>2. /\ faults' \in 0 .. MaxFaults
        /\ \/ Ends(slot)
           \/ slot' = NoSlot /\ marker' \in {marker, Marked(NoSlot)} /\ UNCHANGED <<response, tombstone>>
    BY <1>6, <1>9, <2>o, <2>1, Zenon
  <2>3. ElseUnchanged
    BY <1>1, <1>9 DEF ElseUnchanged
  <2> QED
    BY <1>5, <1>7, <1>9, <2>o, <2>1, <2>2, <2>3
<1>10. CASE /\ FinishTerminal(next, r, "rejected", TRUE, 1, marker)
            /\ observer' = (IF slot'.run = None THEN observer ELSE "none")
            /\ UNCHANGED <<hand, pending>>
  <2> DEFINE t == Begin(next, FALSE, TRUE, FALSE)
  <2>1. ElseUnchanged /\ observer' \in {"none", observer} /\ observer' \notin {"new", "started"}
    BY <1>1, <1>2, <1>10 DEF ElseUnchanged
  <2>2. /\ faults' \in 0 .. MaxFaults
        /\ Ends(slot) \/ (slot' = t /\ marker' \in {marker, Marked(t)} /\ UNCHANGED <<response, tombstone>>)
    BY <1>4, <1>6, <1>10, <2>1, Zenon
  <2>3. Cancels(next, t, FALSE)
    <3>1. TRUE \in BOOLEAN /\ FALSE \in BOOLEAN
      OBVIOUS
    <3> QED
      BY <1>2, <1>4, <3>1, BeginCancels, Zenon
  <2> HIDE DEF t
  <2>4. t \in Slots /\ t.run = r /\ t.phase = "cancelling" /\ MayHaveStarted(t)
    BY <1>4, <2>3 DEF Cancels, MayHaveStarted
  <2>5. ASSUME slot' = t, marker' \in {marker, Marked(t)}, UNCHANGED <<response, tombstone>>
        PROVE  BridgeInv'
    <3>1. KeepsCancelling(t)
      BY <2>1, <2>4, <2>5 DEF KeepsCancelling
    <3> QED
      BY <1>2, <2>1, <2>2, <2>4, <3>1, KeepsInv
  <2> QED
    BY <1>7, <2>1, <2>2, <2>5
<1> QED
  BY <1>8, <1>9, <1>10, Zenon DEF Publish
-----------------------------------------------------------------------------
(* The editor process and the handshake keep the invariant. *)

\* What QuietInv asks of a step that changes neither the slot nor the observer.
LEMMA SlotFacts ==
  ASSUME BridgeInv
  PROVE  /\ hand.session <= sessions
         /\ slot.phase \in {"running", "completing"} => observer # "none"
         /\ slot.phase = "completing" => ~restoring
  BY DEF BridgeInv, SessionInv, SlotInv, NoSlot

\* The heartbeat of the editor keeps the invariant.
LEMMA HandshakeStepsInv ==
  ASSUME BridgeInv, Heartbeat \/ HandshakeExpires PROVE BridgeInv'
<1> USE DEF files, editor, tests, bounds
<1>1. /\ UNCHANGED <<files, client, editor, tests, bounds>>
      /\ hand' \in [session: Sessions, idle: BOOLEAN] /\ hand'.session \in {0, session}
  <2>1. CASE Heartbeat
    <3>1. (slot.run = None /\ ~AnyBusy) \in BOOLEAN /\ session \in Sessions
      BY DEF BridgeInv, TypeOK
    <3>2. hand' = [session |-> session, idle |-> (slot.run = None /\ ~AnyBusy)]
      BY <2>1, Zenon DEF Heartbeat
    <3>3. UNCHANGED <<files, client, editor, tests, bounds>>
      BY <2>1 DEF Heartbeat
    <3> QED
      BY <3>1, <3>2, <3>3
  <2>2. CASE HandshakeExpires
    BY <2>2, BridgeAssumption DEF HandshakeExpires, Sessions
  <2> QED
    BY <2>1, <2>2
<1>2. TypeOK'
  BY <1>1 DEF BridgeInv, TypeOK
<1>3. hand'.session <= sessions
  BY <1>1, BridgeAssumption DEF BridgeInv, TypeOK, SessionInv, Sessions
<1> QED
  BY <1>1, <1>2, <1>3, SlotFacts, QuietInv

\* A domain reload keeps the invariant.
LEMMA ReloadInv ==
  ASSUME BridgeInv, DomainReload \/ Restored PROVE BridgeInv'
<1>1. CASE DomainReload
  <2>1. /\ reloads' \in 0 .. MaxReloads /\ restoring' \in BOOLEAN
        /\ UNCHANGED <<request, response, tombstone, pending, xml, hand, client, session, sessions,
                       job, foreign, executed, failed, foreigns>>
    BY <1>1, BridgeAssumption DEF DomainReload, BridgeInv, TypeOK
  <2>2. CASE OwnsJob
    <3>1. BeginCancellation(TRUE, FALSE, TRUE, 0) /\ TRUE \in BOOLEAN /\ 0 \in Nat
      BY <1>1, <2>2 DEF DomainReload
    <3> QED
      BY <2>1, <3>1, CallbackCancelInv, Zenon DEF BridgeInv, TypeOK
  <2>3. CASE ~OwnsJob
    <3>1. observer' = "none" /\ UNCHANGED <<slot, marker, faults>>
      BY <1>1, <2>3 DEF DomainReload
    <3>2. TypeOK'
      BY <2>1, <3>1 DEF BridgeInv, TypeOK
    <3> QED
      BY <2>1, <2>3, <3>1, <3>2, SlotFacts, QuietInv DEF OwnsJob
  <2> QED
    BY <2>2, <2>3
<1>2. CASE Restored
  <2>1. /\ UNCHANGED <<files, hand, client, editor, executed, failed, bounds>> /\ restoring' = FALSE
        /\ job' = job \/ job' = [r \in Runs |-> "none"]
        /\ foreign' \in {foreign, "none"}
    BY <1>2 DEF Restored
  <2> USE DEF files, editor, bounds
  <2>2. TypeOK'
    BY <2>1 DEF BridgeInv, TypeOK
  <2> QED
    BY <2>1, <2>2, SlotFacts, QuietInv
<1> QED
  BY <1>1, <1>2

\* The start and the end of an editor keep the invariant.
LEMMA EditorInv ==
  ASSUME BridgeInv, EditorEnds \/ EditorStarts PROVE BridgeInv'
<1> USE DEF BridgeInv, files, editor, tests, bounds
<1>n. NoSlot \in Slots /\ NoSlot.run = None /\ NoSlot.phase = "none"
  BY NoSlotType DEF NoSlot
<1>1. CASE EditorEnds
  <2>1. /\ session' = 0 /\ slot' = NoSlot /\ observer' = "none"
        /\ job' = [r \in Runs |-> "none"] /\ foreign' = "none" /\ restoring' = FALSE
        /\ UNCHANGED <<files, hand, client, sessions, executed, failed, bounds>>
    BY <1>1 DEF EditorEnds
  <2>2. TypeOK'
    <3>1. session' \in Sessions
      BY <2>1, BridgeAssumption DEF Sessions
    <3>2. job' \in [Runs -> {"none", "queued", "started", "finished", "cleanup"}]
      BY <2>1
    <3> QED
      BY <1>n, <2>1, <3>1, <3>2 DEF TypeOK
  <2>3. SessionInv'
    BY <2>1 DEF SessionInv
  <2>4. SlotInv'
    BY <1>n, <2>1 DEF SlotInv
  <2>5. ASSUME NEW m \in Runs PROVE RunInv(m)' /\ AnswerInv(m)'
    BY <2>1, <2>5 DEF RunInv, AnswerInv, Answered, Readable
  <2> QED
    BY <2>2, <2>3, <2>4, <2>5
<1>2. CASE EditorStarts
  <2>1. /\ session = 0 /\ sessions' = sessions + 1 /\ session' = sessions + 1 /\ sessions' \in Sessions
        /\ sessions \in Nat
        /\ UNCHANGED <<files, hand, client, slot, observer, tests, bounds>>
    BY <1>2, BridgeAssumption DEF EditorStarts, TypeOK, Sessions
  <2>2. slot = NoSlot
    BY <2>1 DEF SlotInv
  <2>3. TypeOK'
    BY <2>1 DEF TypeOK
  <2>4. SessionInv'
    BY <2>1 DEF SessionInv, TypeOK, Sessions
  <2>5. SlotInv'
    BY <1>n, <2>1, <2>2 DEF SlotInv
  <2>6. ASSUME NEW m \in Runs PROVE RunInv(m)' /\ AnswerInv(m)'
    <3>1. request[m] <= sessions /\ request[m] \in Nat
      BY <2>6 DEF SessionInv, TypeOK, Sessions
    <3> QED
      BY <2>1, <2>6, <3>1 DEF RunInv, AnswerInv, Answered, Readable
  <2> QED
    BY <2>3, <2>4, <2>5, <2>6
<1> QED
  BY <1>1, <1>2

-----------------------------------------------------------------------------
(* The invariant, and what follows from it *)

\* The invariant holds at first.
LEMMA InitInv == Init => BridgeInv
<1> SUFFICES ASSUME Init PROVE BridgeInv
  OBVIOUS
<1>n. NoSlot \in Slots /\ NoSlot.run = None /\ NoSlot.phase = "none"
  BY NoSlotType DEF NoSlot
<1>1. TypeOK
  <2>1. 0 \in Sessions /\ 1 \in Sessions
    BY BridgeAssumption DEF Sessions
  <2>2. /\ request \in [Runs -> Sessions] /\ response \in [Runs -> Responses \cup {None}]
        /\ tombstone \in [Runs -> Tombstones \cup {None}] /\ marker \in [Runs -> Executions \cup {None}]
        /\ pending \in [Runs -> BOOLEAN] /\ xml \in [Runs -> {"none", "own", "foreign"}]
    BY <2>1 DEF Init
  <2>3. /\ hand \in [session: Sessions, idle: BOOLEAN]
        /\ client \in [Runs -> {"start", "waiting", "result", "compile", "unknown",
                                "abandoned", "cold", "killed"}]
        /\ session \in Sessions /\ sessions \in Sessions
    BY <2>1 DEF Init
  <2>4. /\ job \in [Runs -> {"none", "queued", "started", "finished", "cleanup"}]
        /\ executed \in [Runs -> 0 .. 2] /\ failed \in [Runs -> BOOLEAN]
        /\ reloads \in 0 .. MaxReloads /\ foreigns \in 0 .. MaxForeign /\ faults \in 0 .. MaxFaults
    BY BridgeAssumption DEF Init
  <2> QED
    BY <1>n, <2>2, <2>3, <2>4 DEF Init, TypeOK
<1>2. SessionInv
  BY DEF Init, SessionInv
<1>3. SlotInv
  BY <1>n DEF Init, SlotInv
<1>4. ASSUME NEW m \in Runs PROVE RunInv(m) /\ AnswerInv(m)
  BY <1>4, BridgeAssumption DEF Init, RunInv, AnswerInv, Answered, Readable, Executions
<1> QED
  BY <1>1, <1>2, <1>3, <1>4 DEF BridgeInv

\* Every step keeps the invariant: one step of the proof per action.
LEMMA StepInv == BridgeInv /\ [Next]_vars => BridgeInv'
<1> SUFFICES ASSUME BridgeInv, [Next]_vars PROVE BridgeInv'
  OBVIOUS
<1>1. ASSUME NEW r \in Runs, Submit(r) \/ Poll(r) \/ Cancel(r) \/ ClientKilled(r) PROVE BridgeInv'
  BY <1>1, ClientInv
<1>2. ASSUME NEW r \in Runs, Job(r) \/ JobFails(r) PROVE BridgeInv'
  BY <1>2, JobInv, JobFailsInv
<1>3. CASE Pump
  <2>1. ASSUME NEW r \in Runs, SealUnclaimed(r) \/ RejectUnclaimed(r) \/ Claim(r) PROVE BridgeInv'
    BY <2>1, UnclaimedInv
  <2>2. CASE CancelMarked \/ CancelUnread \/ Cancelling
    BY <2>2, CancellationInv
  <2>3. CASE RefuseNew \/ RefuseRefreshed
    BY <2>3, RefuseInv
  <2>4. CASE StartRun
    BY <2>4, StartRunInv
  <2>5. CASE Refresh \/ ObserveCompletion \/ Publish
    BY <2>5, RefreshInv, ObserveCompletionInv, PublishInv
  <2> QED
    BY <1>3, <2>1, <2>2, <2>3, <2>4, <2>5 DEF Pump
<1>4. CASE ForeignQueued \/ Foreign
  BY <1>4, ForeignInv
<1>5. CASE Heartbeat \/ HandshakeExpires
  BY <1>5, HandshakeStepsInv
<1>6. CASE DomainReload \/ Restored \/ GraceElapses
  BY <1>6, ReloadInv, GraceElapsesInv
<1>7. CASE EditorEnds \/ EditorStarts
  BY <1>7, EditorInv
<1>8. CASE UNCHANGED vars
  <2> USE DEF vars, files, editor, tests, bounds
  <2>1. TypeOK'
    BY <1>8 DEF BridgeInv, TypeOK
  <2> QED
    BY <1>8, <2>1, SlotFacts, QuietInv
<1> QED
  BY <1>1, <1>2, <1>3, <1>4, <1>5, <1>6, <1>7, <1>8 DEF Next

\* The inductive invariant of the bridge holds in every reachable state.
THEOREM Invariant == Spec => []BridgeInv
  BY InitInv, StepInv, PTL DEF Spec

\* Every reachable state of the bridge is well typed: in particular no run is
\* executed more often than the type allows, and the slot of the editor holds
\* the fields the phases expect.
THEOREM TypeCorrect == Spec => []TypeOK
<1>1. BridgeInv => TypeOK
  BY DEF BridgeInv
<1> QED
  BY <1>1, Invariant, PTL

\* A run whose cleanup reported an error is never published as completed.
THEOREM CompletedClean == Spec => []CompletedIsClean
<1>1. BridgeInv => CompletedIsClean
  BY DEF BridgeInv, AnswerInv, CompletedIsClean
<1> QED
  BY <1>1, Invariant, PTL
-----------------------------------------------------------------------------
(* The bridge implements WarmRequest. *)

\* What testplay tells of a run in WarmRequest.
verdicts == [r \in Runs |-> Answer(client[r])]

\* A step of testplay on a run stutters or decides.
LEMMA ClientDecides ==
  ASSUME BridgeInv, NEW r \in Runs, Submit(r) \/ Poll(r) \/ Cancel(r) \/ ClientKilled(r)
  PROVE  \/ UNCHANGED <<executed, verdicts>>
         \/ \E v \in Once!Verdicts : Once!Decide(r, v)
<1> USE DEF BridgeInv, tests
<1>1. executed' = executed
  BY DEF Submit, Poll, Cancel, ClientKilled
<1>2. client \in [Runs -> {"start", "waiting", "result", "compile", "unknown",
                           "abandoned", "cold", "killed"}]
  BY DEF TypeOK
<1>3. CASE Submit(r) /\ client' = [client EXCEPT ![r] = "waiting"]
  <2>1. client[r] = "start"
    BY <1>3 DEF Submit
  <2> QED
    BY <1>1, <1>2, <1>3, <2>1 DEF verdicts, Answer
<1>4. ASSUME client[r] \in {"start", "waiting"},
             NEW c \in {"result", "unknown", "compile", "abandoned", "cold", "killed"},
             client' = [client EXCEPT ![r] = c],
             c = "result" => executed[r] = 1, c \in {"compile", "cold"} => executed[r] = 0
      PROVE  Once!Decide(r, Answer(c)) /\ Answer(c) \in Once!Verdicts
  <2>1. verdicts' = [verdicts EXCEPT ![r] = Answer(c)] /\ verdicts[r] = "open"
    BY <1>2, <1>4 DEF verdicts, Answer
  <2> QED
    BY <1>1, <1>4, <2>1 DEF Once!Decide, Once!Verdicts, Answer, verdicts
<1>5. CASE Submit(r) /\ client' = [client EXCEPT ![r] = "cold"]
  <2>1. client[r] = "start" /\ executed[r] = 0
    BY <1>5 DEF Submit, RunInv
  <2> QED
    BY <1>4, <1>5, <2>1
<1>6. CASE Poll(r)
  BY <1>4, <1>6, VerdictTrue DEF Poll
<1>7. CASE Cancel(r) \/ ClientKilled(r)
  BY <1>4, <1>7 DEF Cancel, ClientKilled
<1> QED
  BY <1>3, <1>5, <1>6, <1>7 DEF Submit

\* StartRun stutters or executes the claimed run.
LEMMA StartRunExecutes ==
  ASSUME BridgeInv, StartRun
  PROVE  UNCHANGED <<executed, verdicts>> \/ \E r \in Runs : Once!Execute(r)
<1>1. client' = client
  BY DEF StartRun
<1>2. verdicts' = verdicts
  BY <1>1 DEF verdicts
<1>3. ASSUME NEW r \in Runs, r = slot.run, executed[r] = 0, ~Answered(r), request[r] # 0,
             executed' = [executed EXCEPT ![r] = 1]
      PROVE  Once!Execute(r)
  <2>1. client[r] \notin {"cold", "compile", "result"}
    BY <1>3 DEF BridgeInv, RunInv
  <2>2. verdicts[r] \notin {"cold", "compile", "result"}
    BY <1>3, <2>1 DEF verdicts, Answer
  <2> QED
    BY <1>2, <1>3, <2>2 DEF Once!Execute, verdicts
<1> QED
  BY <1>2, <1>3, StartRunInv

\* Every other step stutters.
LEMMA OthersStutter ==
  ASSUME \/ \E r \in Runs : Job(r) \/ JobFails(r)
         \/ \E r \in Runs : SealUnclaimed(r) \/ RejectUnclaimed(r) \/ Claim(r)
         \/ CancelMarked \/ CancelUnread \/ Cancelling
         \/ RefuseNew \/ Refresh \/ RefuseRefreshed \/ ObserveCompletion \/ Publish
         \/ Heartbeat \/ ForeignQueued \/ Foreign \/ DomainReload \/ Restored \/ GraceElapses
         \/ EditorEnds \/ EditorStarts \/ HandshakeExpires \/ UNCHANGED vars
  PROVE  UNCHANGED <<executed, verdicts>>
<1> USE DEF tests, editor, files, bounds, vars, Callback
<1>1. UNCHANGED <<executed, client>>
  <2>1. ASSUME NEW r \in Runs, Job(r) \/ JobFails(r) PROVE UNCHANGED <<executed, client>>
    BY <2>1 DEF Job, JobStarts, JobFinishes, JobVanishes, JobCleans, JobFails
  <2>2. ASSUME NEW r \in Runs, SealUnclaimed(r) \/ RejectUnclaimed(r) \/ Claim(r)
        PROVE  UNCHANGED <<executed, client>>
    BY <2>2 DEF SealUnclaimed, RejectUnclaimed, Claim
  <2>3. CASE CancelMarked \/ CancelUnread \/ Cancelling
    BY <2>3 DEF CancelMarked, CancelUnread, Cancelling, AdvanceCancelling
  <2>4. CASE RefuseNew \/ Refresh \/ RefuseRefreshed \/ ObserveCompletion \/ Publish
    BY <2>4 DEF RefuseNew, Refresh, RefuseRefreshed, Refuse, ObserveCompletion, Publish
  <2>5. CASE Heartbeat \/ ForeignQueued \/ Foreign \/ DomainReload \/ Restored \/ GraceElapses
    BY <2>5 DEF Heartbeat, ForeignQueued, Foreign, ForeignStarts, ForeignFinishes, DomainReload, Restored,
       GraceElapses
  <2>6. CASE EditorEnds \/ EditorStarts \/ HandshakeExpires \/ UNCHANGED vars
    BY <2>6 DEF EditorEnds, EditorStarts, HandshakeExpires
  <2> QED
    BY <2>1, <2>2, <2>3, <2>4, <2>5, <2>6
<1> QED
  BY <1>1 DEF verdicts

\* Every step of the bridge is a step of WarmRequest or a stuttering step.
LEMMA StepRefines == BridgeInv /\ [Next]_vars => [Once!Next]_<<executed, verdicts>>
<1> SUFFICES ASSUME BridgeInv, [Next]_vars PROVE [Once!Next]_<<executed, verdicts>>
  OBVIOUS
<1>1. ASSUME NEW r \in Runs, Submit(r) \/ Poll(r) \/ Cancel(r) \/ ClientKilled(r)
      PROVE  [Once!Next]_<<executed, verdicts>>
  BY <1>1, ClientDecides DEF Once!Next
<1>2. CASE StartRun
  BY <1>2, StartRunExecutes DEF Once!Next
<1> QED
  BY <1>1, <1>2, OthersStutter DEF Next, Pump

\* The bridge implements WarmRequest: whatever is lost, reloaded, restarted or
\* cancelled, the tests of a run are executed at most once by the editor, and
\* testplay runs them cold, reports compile errors or a result only if what the
\* editor did, and will do, agrees.
THEOREM BridgeImplementsWarmRequest == Spec => ExecutedOnce
<1>1. Init => Once!Init
  BY DEF Init, Once!Init, Answer
<1>2. BridgeInv /\ [Next]_vars => [Once!Next]_<<executed, [r \in Runs |-> Answer(client[r])]>>
  BY StepRefines DEF verdicts
<1> QED
  BY <1>1, <1>2, Invariant, PTL DEF Spec, ExecutedOnce, Once!Spec
=============================================================================
