--------------------------- MODULE RefsPoolProofs ---------------------------
(* Machine-checked proofs about RefsPool, for every number of workers, every   *)
(* set of drivers and commands, and every bound on failures, crashes and       *)
(* commands that RefsPoolAssumption allows.                                    *)
(*                                                                             *)
(* Each action is first brought to what it does to the records ("b": In, Goes, *)
(* Returns, Dirs, SettledTo, ...), then each part of the invariant follows     *)
(* from that.                                                                  *)
EXTENDS RefsPool, TLAPS

-----------------------------------------------------------------------------
(* The inductive invariant *)

\* The labels, and what the records of the command and of the driver hold.
SetupAts == {"pending", "create", "identify", "format", "layout", "clone", "metadata", "flush",
             "detach", "reattach", "verify", "detach_again", "commit", "close", "rollback",
             "unmake", "forget", "dirs"}
CommandAts == {"mount", "read", "unwind", "clone", "measure", "flush", "close", "post", "delete",
               "record", "dirs", "shape", "receipt", "note_captured", "journal", "note_journal",
               "marker", "note_marker", "note_flushed", "resume"}
Ats == {"none", "check"} \cup SetupAts \cup CommandAts
Attached == {"d_baseline", "d_acquire", "d_check", "d_edit", "d_play", "d_release", "d_flush",
             "l_release", "l_flush", "l_detach", "s_flush", "s_close"}
Unwinding == {"u_release", "u_flush", "u_close"}
Waiting == {"d_mount", "l_status", "l_remove", "s_remove", "u_removed"}
Owning == Attached \cup Unwinding \cup Waiting \cup {"u_remove", "u_end"}
Places == Owning \cup {"svc", "idle", "ended", "start", "d_setup"}
Operations == {"setup", "status", "probe", "remove", "incomplete", "marker", "diagnose",
               "corrupt", "session"}
States == {"gone", "new", "here", "ghost", "torn"}
Loose == {"ghost", "new"}
Outcomes == {"none", "ready", "working", "ok", "error", "taken", "failed"}
Active == {"ready", "working", "ok", "error"}
Receipts == {"none", "dir", "captured", "journal", "marker", "flushed", "verified", "removed"}

Hosts == [dirs : 0 .. 2, pending : {"none", "bare", "vhdx", "volume"}, owner : BOOLEAN,
          vhdx : BOOLEAN]
Services == [op : Operations \cup {"none"}, at : Ats, back : Places \cup {"none"}, who : 0 .. N,
             tail : {"none", "marker", "corrupt"}, safe : BOOLEAN, unsure : BOOLEAN,
             created : BOOLEAN, committed : BOOLEAN, bad : Answers \cup {"error"},
             zero : BOOLEAN, result : Answers]
Drivers == [kind : Kinds \cup {"none"}, sizing : BOOLEAN, pool : BOOLEAN, mounted : BOOLEAN,
            preserve : BOOLEAN, error : BOOLEAN, tried : SUBSET Workers, fresh : BOOLEAN,
            clean : BOOLEAN, cerr : Answers \cup {"plain"},
            cleanup : {"none", "not-started", "released", "preserved", "uncertain"}]
Types ==
    /\ host \in Hosts /\ mount \in {"no", "on", "stuck"} /\ disk \in [Items -> States]
    /\ pc \in Places /\ svc \in Services /\ drv \in Drivers
    /\ acq \in [Workers -> Outcomes]
    /\ lease \in [Workers -> {"none", "held", "released"}]
    /\ rec \in Receipts
    /\ diag \in 0 .. N /\ told \in BOOLEAN
    /\ faults \in 0 .. MaxFaults /\ crashes \in 0 .. MaxCrashes /\ commands \in 0 .. MaxCommands

-----------------------------------------------------------------------------
\* A command runs, it is at one of these labels.
Busy == pc = "svc"
In(op, ats) == pc = "svc" /\ svc.op = op /\ svc.at \in ats

\* Where the driver or the operator is, or waits for its command.
Caller == IF pc = "svc" THEN svc.back ELSE pc

Nothing == host.dirs = 0 /\ host.pending = "none" /\ ~host.owner /\ ~host.vhdx
Owned == host.dirs = 2 /\ host.pending = "none" /\ host.owner /\ host.vhdx

\* Who called the command, and where its result goes.
CallInv ==
    /\ ~Busy => svc.at = "none"
    /\ Busy => svc.at # "none" /\ svc.op # "none" /\ svc.back \in Waiting \cup {"idle", "d_setup"}
    /\ Busy /\ svc.at = "check" => ~svc.committed
    /\ Busy /\ svc.op = "setup" => svc.at \in {"check"} \cup SetupAts
    /\ Busy /\ svc.op # "setup" => svc.at \in {"check"} \cup CommandAts
    /\ svc.tail # "none" => Caller = "idle" /\ (Busy => svc.op \in {"status", "remove"})
    /\ Busy /\ svc.at = "resume" => svc.tail # "none"
    /\ Busy /\ svc.op = "session" => svc.back = "d_mount"
    /\ Caller = "d_setup" => svc.op = "setup"
    /\ Caller = "d_mount" => svc.op = "session"
    /\ Caller = "l_status" => svc.op = "status"
    /\ Caller \in {"l_remove", "s_remove", "u_removed"} => svc.op = "remove"
    /\ Caller \in Owning => svc.op # "setup"
    /\ Busy /\ svc.op \in {"marker", "corrupt"} => svc.who \in Workers
    /\ Busy /\ svc.op = "corrupt" => lease[svc.who] = "released"

\* Where the volume is attached.
OnAts == {"read", "unwind", "clone", "measure", "flush", "close", "shape", "journal", "marker",
          "note_captured", "note_journal", "note_marker", "note_flushed"}
SetupOnAts == {"layout", "clone", "metadata", "flush", "detach", "verify", "detach_again"}
MountInv ==
    /\ Busy /\ svc.op # "setup" => (mount = "on" <=> svc.at \in OnAts)
    /\ Busy /\ svc.op = "setup" /\ svc.at # "close" => (mount = "on" <=> svc.at \in SetupOnAts)
    /\ pc \in Attached => mount = "on" /\ drv.mounted
    /\ pc \in Unwinding /\ mount = "on" => drv.mounted
    /\ pc = "d_mount" => (mount = "on" <=> svc.result = "nil")
    /\ pc \in Places \ (Attached \cup Unwinding \cup {"svc", "d_mount"}) => mount # "on"
    /\ mount = "on" => host.vhdx

\* A volume that is not attached is settled, and one that is not there is empty.
VolumeInv ==
    /\ mount # "on" => \A i \in Items : disk[i] \notin Loose
    /\ ~host.vhdx => \A i \in Items : disk[i] = "gone"
    /\ disk[Layout] \notin {"torn", "ghost"} /\ disk[PoolFile] \notin {"torn", "ghost"}

\* How far a setup has come, and what it has shown of the volume.
SetupInv ==
    Busy /\ svc.op = "setup" /\ svc.at # "check" =>
        /\ svc.committed <=> host.owner
        /\ svc.committed => svc.at \in {"close", "rollback"} /\ host.dirs = 2 /\ host.vhdx
        /\ svc.committed => host.pending = "none" \/ (faults > 1 /\ svc.bad # "nil")
        /\ svc.at \in {"close", "rollback"} /\ svc.bad = "nil" => svc.committed
        /\ svc.at \in SetupAts \ {"close", "rollback", "unmake", "forget", "dirs"} => host.dirs = 2
        /\ svc.at \in {"pending", "create"} => ~host.vhdx
        /\ svc.at \in SetupOnAts \cup {"identify", "format", "reattach", "commit"} => host.vhdx
        /\ svc.at \in {"detach", "reattach", "verify", "detach_again", "commit"} =>
               disk[Layout] = "here" /\ disk[PoolFile] = "here"
        /\ svc.at = "dirs" => host.pending = "none"
        /\ svc.at = "pending" => host.pending = "none"

\* What is on the host while a command runs ...
CommandInv ==
    Busy /\ svc.op # "setup" =>
        /\ svc.at \notin {"check", "record", "dirs", "post", "resume"} =>
               IF svc.op = "incomplete" THEN OneRecord ELSE Owned
        /\ svc.at \in {"record", "dirs"} => ~host.vhdx /\ svc.op \in {"remove", "incomplete"}
        /\ svc.at = "dirs" => ~host.owner /\ host.pending = "none"
        /\ svc.at = "unwind" => svc.bad \in {"preserved", "failed"}
        /\ svc.at = "post" => IF svc.op = "remove" THEN Nothing ELSE Owned
        /\ svc.at = "check" /\ svc.tail # "none" => Owned
        /\ svc.at = "resume" =>
               IF svc.op = "remove" /\ svc.result = "nil" THEN Nothing
               ELSE Owned \/ (svc.op = "remove" /\ svc.result \in {"uncertain", "failed"})
        /\ svc.op = "incomplete" /\ svc.at \in {"close", "delete", "record", "dirs"} =>
               ~(host.owner /\ host.vhdx)
        /\ svc.op = "incomplete" /\ svc.at \in {"close", "delete"} => disk[PoolFile] = "gone"
        /\ svc.at = "resume" => svc.result # "released"
        /\ svc.op = "remove" /\ svc.tail = "corrupt" => rec = "verified"

\* ... and when it has returned.
Whole == svc.op = "setup" /\ svc.committed /\ host.owner /\ host.vhdx
Unwritten == svc.op = "corrupt" /\ rec = "verified" /\ Nothing
ResultInv ==
    ~Busy =>
        /\ svc.op = "setup" => svc.result \in {"nil", "bare", "released", "uncertain"}
        /\ svc.op = "setup" /\ svc.result = "nil" => Owned
        /\ svc.result = "released" => Nothing \/ Whole
        /\ svc.op \in {"remove", "incomplete", "marker", "corrupt"} /\ svc.result = "nil" => Nothing
        /\ svc.result = "preserved" => (host.vhdx /\ (host.owner \/ host.pending # "none")) \/ Unwritten

\* Without a crash or a report of its own, what is on the host is a whole pool.
Half == Busy /\ ((svc.op = "setup" /\ svc.at # "check") \/ svc.at \in {"record", "dirs"})
Bare == ~host.owner /\ ~host.vhdx /\ host.pending \in {"none", "bare"}
WholeInv ==
    ~told /\ ~Half => Owned \/ Bare \/ (faults > 1 /\ host.owner /\ host.pending # "none")

\* What a driver has left in the volume is there only as long as that driver has its pool.
Left == Residue \ {ProbeDir}
Holds == drv.pool /\ (Caller \in Owning \/ told \/ drv.cleanup \in {"preserved", "uncertain"})
LeftInv ==
    /\ host.dirs = 0 => Nothing
    /\ \A i \in Left : disk[i] # "gone" => Holds

\* What the driver knows of its pool.
Removing == Busy /\ svc.op = "remove" /\ svc.at \in {"record", "dirs", "post"}
DriverInv ==
    /\ Caller \in Owning \cup {"start", "d_setup", "ended"} => drv.kind # "none"
    /\ Caller \in {"start", "d_setup"} => ~drv.pool
    /\ Caller \in Attached \cup Waiting => drv.pool
    /\ pc \in Attached \/ (pc = "d_mount" /\ svc.result = "nil") => Owned
    /\ Caller \in Owning /\ drv.pool =>
          told \/ Owned \/ Removing \/ (pc \in {"l_remove", "s_remove", "u_removed"} /\ svc.result = "nil")
    /\ Caller \in Owning /\ ~drv.pool => Nothing
    /\ pc = "ended" /\ drv.pool /\ drv.cleanup = "preserved" => host.vhdx \/ told
    /\ pc = "ended" /\ drv.cleanup = "released" => Nothing \/ Whole

\* The goroutine and the lease of a worker.
Fresh == {"start", "d_setup", "d_mount", "d_baseline", "s_flush", "s_close", "s_remove"}
LeaseInv(w) ==
    /\ lease[w] = "held" => disk[Journal(w)] = "here" /\ disk[PoolFile] = "here" /\ w \in Used
                            /\ acq[w] \in {"none", "taken"}
    /\ Busy /\ svc.op = "setup" /\ svc.at # "check" => lease[w] # "held"
    /\ pc = "d_acquire" /\ acq[w] \in {"working", "ok"} => disk[Journal(w)] = "here"
    /\ pc = "d_acquire" /\ acq[w] # "none" => w \in Used
    /\ pc # "d_acquire" /\ acq[w] \in Active => drv.kind = "gnf"
    /\ Caller \in Fresh \cup {"idle", "ended"} => acq[w] = "none"
    /\ Caller \in Fresh => lease[w] = "none"
    /\ Caller \in {"l_detach", "l_status", "l_remove", "u_removed"} => lease[w] # "held"
    /\ pc = "u_release" /\ lease[w] = "held" => mount = "on"
Still(w) == \A i \in ItemsOf(w) : disk[i] \notin Loose
Clear(w) == \A i \in ItemsOf(w) : disk[i] = "gone"
EmptyInv(w) ==
    /\ In("remove", {"read", "measure", "close", "delete"}) => Abandoned(w) \/ Still(w)
    /\ In("remove", {"close", "delete"}) => Abandoned(w) \/ Clear(w)

PoolInv ==
    /\ Types /\ CallInv /\ MountInv /\ VolumeInv /\ SetupInv /\ CommandInv /\ ResultInv
    /\ WholeInv /\ LeftInv /\ DriverInv /\ OwnerIsProven
    /\ \A w \in Workers : LeaseInv(w) /\ EmptyInv(w)
-----------------------------------------------------------------------------
(* What a step makes of the records *)

\* The command goes on, with what it has called "bad"; it returns; one is started.
SvcKeeps ==
    /\ svc' \in Services /\ svc'.op = svc.op /\ svc'.back = svc.back /\ svc'.who = svc.who
    /\ svc'.tail = svc.tail
Works(at, bad) ==
    /\ SvcKeeps /\ svc'.at = at /\ svc'.bad = bad /\ svc'.result = svc.result
    /\ pc' = pc /\ told' = told
Goes(at) == Works(at, svc.bad) /\ svc'.committed = svc.committed
Returns(result) ==
    /\ SvcKeeps /\ svc'.committed = svc.committed /\ svc'.bad = svc.bad /\ svc'.result = result
    /\ IF svc.tail = "none" THEN svc'.at = "none" /\ pc' = svc.back ELSE svc'.at = "resume" /\ pc' = pc
    /\ IF result \in {"uncertain", "failed"} THEN told' = TRUE ELSE told' = told
Starts(op, back, who, tail) ==
    /\ svc' \in Services /\ svc'.op = op /\ svc'.at = "check" /\ svc'.back = back /\ svc'.who = who
    /\ svc'.tail = tail /\ svc'.committed = FALSE /\ svc'.bad = "nil" /\ svc'.result = "nil"

Clears(at) == Works(at, "nil") /\ svc'.committed = svc.committed
Closes == Works("close", "error") /\ svc'.committed = svc.committed
Errs(bad) == Works("unwind", bad) /\ svc'.committed = svc.committed
Begins(op, back) == Starts(op, back, 0, "none") /\ pc' = "svc"
Follows(op, tail) == Starts(op, svc.back, svc.who, tail) /\ pc' = pc /\ told' = told
Ups(result) ==
    /\ svc' \in Services /\ svc'.op = svc.tail /\ svc'.at = "none" /\ svc'.tail = svc.tail
    /\ svc'.result = result /\ pc' = svc.back
Answered(result) ==
    /\ result # "released"
    /\ result = "nil" => Nothing
    /\ result = "preserved" => Owned \/ (svc.tail = "corrupt" /\ Nothing /\ rec' = "verified")
On(at) == pc = "svc" /\ svc.op # "setup" /\ svc.at = at

\* The host.
Dirs(dirs) ==
    /\ host' \in Hosts /\ host'.dirs = dirs /\ host'.pending = host.pending
    /\ host'.owner = host.owner /\ host'.vhdx = host.vhdx
Pending(pending) ==
    /\ host' \in Hosts /\ host'.dirs = host.dirs /\ host'.pending = pending
    /\ host'.owner = host.owner /\ host'.vhdx = host.vhdx
Made ==
    /\ host' \in Hosts /\ host'.dirs = host.dirs /\ host'.pending = host.pending
    /\ host'.owner = host.owner /\ host'.vhdx = TRUE
Unmade ==
    /\ host' \in Hosts /\ host'.dirs = host.dirs /\ host'.pending = host.pending
    /\ host'.owner = host.owner /\ host'.vhdx = FALSE
Committed ==
    /\ host' \in Hosts /\ host'.dirs = host.dirs /\ host'.pending = "none"
    /\ host'.owner = TRUE /\ host'.vhdx = host.vhdx
Linked ==
    /\ host' \in Hosts /\ host'.dirs = host.dirs /\ host'.pending = host.pending
    /\ host'.owner = TRUE /\ host'.vhdx = host.vhdx
Forgotten ==
    /\ host' \in Hosts /\ host'.dirs = host.dirs /\ host'.pending = "none"
    /\ host'.owner = FALSE /\ host'.vhdx = host.vhdx

\* The driver.
DrvKeeps == drv' \in Drivers /\ drv'.kind = drv.kind
Remarks ==
    DrvKeeps /\ drv'.pool = drv.pool /\ drv'.mounted = drv.mounted /\ drv'.cleanup = drv.cleanup
Owns == DrvKeeps /\ drv'.pool = TRUE /\ drv'.mounted = drv.mounted /\ drv'.cleanup = drv.cleanup
Disowns == DrvKeeps /\ drv'.pool = FALSE /\ drv'.mounted = drv.mounted /\ drv'.cleanup = drv.cleanup
Mounts == DrvKeeps /\ drv'.pool = drv.pool /\ drv'.mounted = TRUE /\ drv'.cleanup = drv.cleanup
Unmounts == DrvKeeps /\ drv'.pool = drv.pool /\ drv'.mounted = FALSE /\ drv'.cleanup = drv.cleanup
Ends == DrvKeeps /\ drv'.pool = drv.pool /\ drv'.mounted = drv.mounted

\* The workers.
AcqTo == acq' \in [Workers -> Outcomes]
Becomes(w, outcome) == AcqTo /\ \A v \in Workers : acq'[v] = IF v = w THEN outcome ELSE acq[v]
LeasesTo == lease' \in [Workers -> {"none", "held", "released"}]
Leased(w) == LeasesTo /\ \A v \in Workers : lease'[v] = IF v = w THEN "held" ELSE lease[v]
Releases(w) == LeasesTo /\ \A v \in Workers : lease'[v] = IF v = w THEN "released" ELSE lease[v]

\* The volume.
SettledTo ==
    /\ disk' \in [Items -> States]
    /\ \A i \in Items : /\ disk'[i] \notin Loose
                        /\ disk[i] \notin Loose => disk'[i] = disk[i]
                        /\ disk'[i] = "torn" => disk[i] = "torn" \/ i \in Journals
FlushedTo ==
    /\ disk' \in [Items -> States]
    /\ \A i \in Items : /\ disk'[i] \notin Loose
                        /\ disk[i] \notin Loose => disk'[i] = disk[i]
                        /\ disk[i] = "new" => disk'[i] = "here"
                        /\ disk[i] = "ghost" => disk'[i] = "gone"
PutTo(S) ==
    /\ disk' \in [Items -> States]
    /\ \A i \in Items : disk'[i] = IF i \in S THEN "here" ELSE disk[i]
DeletedTo(S) ==
    /\ disk' \in [Items -> States]
    /\ \A i \in Items : disk'[i] = IF i \in S /\ disk[i] # "gone" THEN "ghost" ELSE disk[i]
EmptiedTo == disk' \in [Items -> States] /\ \A i \in Items : disk'[i] = "gone"
NewTo(j) ==
    /\ disk' \in [Items -> States]
    /\ \A i \in Items : disk'[i] = IF i = j THEN "new" ELSE disk[i]
ProbedTo == disk' \in [Items -> States] /\ \A i \in Items : i # ProbeDir => disk'[i] = disk[i]
DeletedPartly(w) == \E S \in SUBSET {Worker(w), Marker(w)} : DeletedTo(S)

\* The count of the failures.
Counts == faults' \in 0 .. MaxFaults /\ faults' >= faults
-----------------------------------------------------------------------------
(* Lemmas about the operators of the model *)

\* The workers are numbers, and the first and the last are workers.
LEMMA WorkersAre ==
    /\ 1 \in Workers /\ N \in Workers /\ 0 \in 0 .. N
    /\ \A w \in Workers : w \in 0 .. N /\ w \in Nat
BY RefsPoolAssumption DEF Workers

\* The operations of the type invariant.
LEMMA OperationsAre == Commands \cup Attaching \cup {"setup"} = Operations
BY RefsPoolAssumption DEF Attaching, Operations

\* The command goes on at a label.
LEMMA GotoDoes ==
    ASSUME svc \in Services, NEW at \in Ats, Goto(at)
    PROVE  Goes(at)
BY DEF Goto, Goes, Works, SvcKeeps, Services

\* It goes on with what it has measured.
LEMMA MeasureDoes ==
    ASSUME svc \in Services, NEW at \in Ats, NEW zero \in BOOLEAN,
           svc' = [svc EXCEPT !.at = at, !.zero = zero], pc' = pc, told' = told
    PROVE  Goes(at)
BY ZenonT(30) DEF Goes, Works, SvcKeeps, Services

\* It goes on to the detach that an error asks for.
LEMMA FailDoes ==
    ASSUME svc \in Services, NEW bad \in Answers, Fail(bad)
    PROVE  Errs(bad)
BY ZenonT(30) DEF Fail, Errs, Works, SvcKeeps, Services, Ats, CommandAts

\* A setup goes on ...
LEMMA SetupToDoes ==
    ASSUME svc \in Services, NEW at \in Ats, NEW safe \in BOOLEAN, SetupTo(at, safe)
    PROVE  Clears(at)
BY ZenonT(30) DEF Clears, SetupTo, Works, SvcKeeps, Services, Answers

\* A step counts its failures.
LEMMA CountDoes ==
    ASSUME faults \in 0 .. MaxFaults
    PROVE  /\ NoFault => Counts
           /\ Fault => Counts
           /\ faults + 2 <= MaxFaults /\ faults' = faults + 2 => Counts /\ faults' > 1
BY RefsPoolAssumption DEF NoFault, Fault, Counts

\* ... or takes back what it has made.
LEMMA SetupFailsDoes ==
    ASSUME svc \in Services, NEW safe \in BOOLEAN, SetupFails(safe)
    PROVE  Closes
BY ZenonT(30) DEF Closes, SetupFails, Works, SvcKeeps, Services, Ats, SetupAts

\* A command returns.
LEMMA ReturnDoes ==
    ASSUME svc \in Services, told \in BOOLEAN, NEW result \in Answers, Return(result)
    PROVE  Returns(result)
BY ZenonT(60) DEF Return, Returns, SvcKeeps, Services, Ats, CommandAts

\* A command is called.
LEMMA CallDoes ==
    ASSUME NEW op \in Operations, NEW back \in Places, NEW who \in 0 .. N, Call(op, back, who)
    PROVE  Starts(op, back, who, "none") /\ pc' = "svc"
BY ZenonT(30) DEF Call, Starts, Services, Idle, Ats, Answers

\* A recovery calls a status or a remove, and remembers that it did.
LEMMA FollowDoes ==
    ASSUME svc \in Services, NEW op \in Operations, Follow(op)
    PROVE  /\ svc.tail # "none" => Starts(op, svc.back, svc.who, svc.tail)
           /\ svc.tail = "none" /\ svc.op \in {"marker", "corrupt"} => Starts(op, svc.back, svc.who, svc.op)
<1>1. ASSUME svc.tail # "none" PROVE Starts(op, svc.back, svc.who, svc.tail)
  BY <1>1, ZenonT(60) DEF Follow, Starts, Services, Idle, Ats, Answers
<1>2. ASSUME svc.tail = "none", svc.op \in {"marker", "corrupt"} PROVE Starts(op, svc.back, svc.who, svc.op)
  BY <1>2, ZenonT(60) DEF Follow, Starts, Services, Idle, Ats, Answers
<1> QED BY <1>1, <1>2

\* A recovery returns what the command it had called came to.
LEMMA UpDoes ==
    ASSUME svc \in Services, NEW result \in Answers, Up(result), svc.tail # "none"
    PROVE  Ups(result)
BY ZenonT(30) DEF Up, Ups, Services, Ats, Operations

\* What a step makes of the record of the host.
LEMMA HostDoes ==
    ASSUME host \in Hosts
    PROVE  /\ host' = [host EXCEPT !.dirs = 0] => Dirs(0)
           /\ host' = [host EXCEPT !.dirs = 1] => Dirs(1)
           /\ host' = [host EXCEPT !.dirs = 2] => Dirs(2)
           /\ host' = [host EXCEPT !.pending = "none"] => Pending("none")
           /\ host' = [host EXCEPT !.pending = "bare"] => Pending("bare")
           /\ host' = [host EXCEPT !.pending = "vhdx"] => Pending("vhdx")
           /\ host' = [host EXCEPT !.pending = "volume"] => Pending("volume")
           /\ host' = [host EXCEPT !.vhdx = TRUE] => Made
           /\ host' = [host EXCEPT !.vhdx = FALSE] => Unmade
           /\ host' = [host EXCEPT !.owner = TRUE, !.pending = "none"] => Committed
           /\ host' = [host EXCEPT !.owner = TRUE] => Linked
           /\ host' = [host EXCEPT !.owner = FALSE, !.pending = "none"] => Forgotten
<1>d. 0 \in 0 .. 2 /\ 1 \in 0 .. 2 /\ 2 \in 0 .. 2 OBVIOUS
<1>1. host' = [host EXCEPT !.dirs = 0] => Dirs(0) BY <1>d, ZenonT(20) DEF Hosts, Dirs
<1>2. host' = [host EXCEPT !.dirs = 1] => Dirs(1) BY <1>d, ZenonT(20) DEF Hosts, Dirs
<1>3. host' = [host EXCEPT !.dirs = 2] => Dirs(2) BY <1>d, ZenonT(20) DEF Hosts, Dirs
<1>4. host' = [host EXCEPT !.pending = "none"] => Pending("none") BY ZenonT(20) DEF Hosts, Pending
<1>5. host' = [host EXCEPT !.pending = "bare"] => Pending("bare") BY ZenonT(20) DEF Hosts, Pending
<1>6. host' = [host EXCEPT !.pending = "vhdx"] => Pending("vhdx") BY ZenonT(20) DEF Hosts, Pending
<1>7. host' = [host EXCEPT !.pending = "volume"] => Pending("volume")
  BY ZenonT(20) DEF Hosts, Pending
<1>8. host' = [host EXCEPT !.vhdx = TRUE] => Made BY ZenonT(20) DEF Hosts, Made
<1>9. host' = [host EXCEPT !.vhdx = FALSE] => Unmade BY ZenonT(20) DEF Hosts, Unmade
<1>10. host' = [host EXCEPT !.owner = TRUE, !.pending = "none"] => Committed
  BY ZenonT(20) DEF Hosts, Committed
<1>11. host' = [host EXCEPT !.owner = TRUE] => Linked BY ZenonT(20) DEF Hosts, Linked
<1>12. host' = [host EXCEPT !.owner = FALSE, !.pending = "none"] => Forgotten
  BY ZenonT(20) DEF Hosts, Forgotten
<1> QED BY <1>1, <1>2, <1>3, <1>4, <1>5, <1>6, <1>7, <1>8, <1>9, <1>10, <1>11, <1>12

\* A record is the one that has its fields.
LEMMA RecordsAre ==
    ASSUME host \in Hosts
    PROVE  /\ OwnedPool <=> Owned
           /\ host = NothingOnHost <=> Nothing
BY DEF Hosts, OwnedPool, Owned, NothingOnHost, Nothing

\* An entry is written and not flushed.
LEMMA NewDoes ==
    ASSUME disk \in [Items -> States], NEW i \in Items, disk' = [disk EXCEPT ![i] = "new"]
    PROVE  NewTo(i)
BY DEF NewTo, States

\* The entries of the pool are distinct, and no journals.
LEMMA ItemsAre ==
    /\ {Layout, PoolFile, ProbeDir, Rest} \subseteq Items
    /\ Layout # PoolFile /\ Layout # ProbeDir /\ Layout # Rest /\ PoolFile # ProbeDir /\ PoolFile # Rest
    /\ Layout \notin Journals /\ PoolFile \notin Journals
BY DEF Journals, Items, ItemsOf, Marker, Journal, Worker, Layout, PoolFile, ProbeDir, Rest

\* Each worker has three entries of its own.
LEMMA WorkerItemsAre ==
    ASSUME NEW w \in Workers
    PROVE  /\ ItemsOf(w) = {Marker(w), Journal(w), Worker(w)}
           /\ Marker(w) \in Items /\ Journal(w) \in Items /\ Worker(w) \in Items
           /\ Marker(w) # Journal(w) /\ Journal(w) # Worker(w) /\ Marker(w) # Worker(w)
           /\ \A i \in {Layout, PoolFile, ProbeDir, Rest} : i # Marker(w) /\ i # Journal(w) /\ i # Worker(w)
           /\ \A v \in Workers : v # w => ItemsOf(v) \cap ItemsOf(w) = {}
BY DEF Items, ItemsOf, Marker, Journal, Worker, Layout, PoolFile, ProbeDir, Rest

\* What a driver leaves are entries, and none of those of a setup or a probe.
LEMMA LeftAre ==
    /\ Left \subseteq Items
    /\ \A i \in Left : i # Layout /\ i # PoolFile /\ i # ProbeDir
BY DEF Left, Residue

\* A synthetic probe changes nothing but its own directory.
LEMMA ProbeDoes ==
    ASSUME disk \in [Items -> States],
           disk' \in {disk, Probed(disk), [disk EXCEPT ![ProbeDir] = "new"], Put(disk, {ProbeDir})}
    PROVE  ProbedTo
<1>1. CASE disk' = disk
  BY <1>1 DEF ProbedTo
<1>2. CASE disk' = Probed(disk)
  BY <1>2 DEF ProbedTo, Probed, States
<1>3. CASE disk' = [disk EXCEPT ![ProbeDir] = "new"]
  BY <1>3 DEF ProbedTo, States
<1>4. CASE disk' = Put(disk, {ProbeDir})
  BY <1>4 DEF ProbedTo, Put, States
<1> QED
  BY <1>1, <1>2, <1>3, <1>4

\* A detach settles the volume.
LEMMA SettledDoes ==
    ASSUME disk \in [Items -> States], disk' \in Settled(disk)
    PROVE  SettledTo
BY DEF Settled, SettledTo, States, Loose

\* A flush makes what was written and what was deleted last.
LEMMA FlushedDoes ==
    ASSUME disk \in [Items -> States], disk' = Flushed(disk)
    PROVE  FlushedTo
BY DEF Flushed, FlushedTo, States, Loose

\* Entries are written ...
LEMMA PutDoes ==
    ASSUME disk \in [Items -> States], NEW S, disk' = Put(disk, S)
    PROVE  PutTo(S)
BY DEF Put, PutTo, States

\* ... and deleted.
LEMMA DeleteDoes ==
    ASSUME disk \in [Items -> States], NEW S, disk' = Delete(disk, S)
    PROVE  DeletedTo(S)
BY DEF Delete, DeletedTo, States

\* A VHDX that is deleted has no entries.
LEMMA EmptyDoes == ASSUME disk' = Empty PROVE EmptiedTo
BY DEF Empty, EmptiedTo, States

\* The assignments of Setup that are no macro.
LEMMA SetupFacts ==
    ASSUME Types
    PROVE  /\ svc' = [svc EXCEPT !.at = "identify", !.safe = FALSE, !.created = TRUE] /\ pc' = pc /\ told' = told
                => Goes("identify")
           /\ svc' = [svc EXCEPT !.at = "close", !.unsure = TRUE, !.safe = FALSE, !.bad = "error"]
              /\ pc' = pc /\ told' = told => Closes
           /\ svc' = [svc EXCEPT !.at = "close", !.committed = TRUE] /\ pc' = pc /\ told' = told
                => Works("close", svc.bad) /\ svc'.committed = TRUE
           /\ svc' = [svc EXCEPT !.at = "close", !.committed = TRUE, !.bad = "error"] /\ pc' = pc /\ told' = told
                => Works("close", "error") /\ svc'.committed = TRUE
           /\ svc' = [svc EXCEPT !.at = "rollback"] /\ pc' = pc /\ told' = told => Goes("rollback")
           /\ svc' = [svc EXCEPT !.at = "rollback", !.safe = ~svc.unsure] /\ pc' = pc /\ told' = told
                => Goes("rollback")
           /\ svc' = [svc EXCEPT !.at = "rollback", !.safe = FALSE] /\ pc' = pc /\ told' = told => Goes("rollback")
<1> USE DEF Works, Goes, Closes, SvcKeeps, Services, Ats, SetupAts
<1>t. svc \in Services BY DEF Types
<1>1. svc' = [svc EXCEPT !.at = "identify", !.safe = FALSE, !.created = TRUE] /\ pc' = pc /\ told' = told
                => Goes("identify") BY <1>t, ZenonT(40)
<1>2. svc' = [svc EXCEPT !.at = "close", !.unsure = TRUE, !.safe = FALSE, !.bad = "error"]
              /\ pc' = pc /\ told' = told => Closes BY <1>t, ZenonT(40)
<1>3. svc' = [svc EXCEPT !.at = "close", !.committed = TRUE] /\ pc' = pc /\ told' = told
                => Works("close", svc.bad) /\ svc'.committed = TRUE BY <1>t, ZenonT(40)
<1>4. svc' = [svc EXCEPT !.at = "close", !.committed = TRUE, !.bad = "error"] /\ pc' = pc /\ told' = told
                => Works("close", "error") /\ svc'.committed = TRUE BY <1>t, ZenonT(40)
<1>5. svc' = [svc EXCEPT !.at = "rollback"] /\ pc' = pc /\ told' = told => Goes("rollback")
  BY <1>t, ZenonT(40)
<1>6. svc' = [svc EXCEPT !.at = "rollback", !.safe = ~svc.unsure] /\ pc' = pc /\ told' = told
                => Goes("rollback") BY <1>t, ZenonT(40)
<1>7. svc' = [svc EXCEPT !.at = "rollback", !.safe = FALSE] /\ pc' = pc /\ told' = told => Goes("rollback")
  BY <1>t, ZenonT(40)
<1> QED BY <1>1, <1>2, <1>3, <1>4, <1>5, <1>6, <1>7

\* A join of two errors is an error.
LEMMA JoinIs ==
    ASSUME NEW err \in Answers \cup {"plain"}, NEW new \in Answers \cup {"plain"}
    PROVE  Join(err, new) \in Answers \cup {"plain"}
BY DEF Join

\* What a step makes of the locals of the driver.
LEMMA DriverDoes ==
    ASSUME drv \in Drivers
    PROVE  /\ drv' = [drv EXCEPT !.pool = TRUE] => Owns
           /\ drv' = [drv EXCEPT !.pool = FALSE] => Disowns
           /\ drv' = [drv EXCEPT !.mounted = TRUE] => Mounts
           /\ drv' = [drv EXCEPT !.mounted = FALSE] => Unmounts
           /\ drv' = [drv EXCEPT !.error = TRUE] => Remarks
           /\ drv' = [drv EXCEPT !.preserve = drv.pool] => Remarks
           /\ \A new \in Answers \cup {"plain"} : Joined(new) => Remarks
           /\ \A w \in Workers : drv' = [drv EXCEPT !.tried = @ \cup {w}, !.fresh = TRUE] => Remarks
           /\ \A w \in Workers : drv' = [drv EXCEPT !.tried = @ \cup {w}, !.cerr = Join(@, "bare")] => Remarks
           /\ drv' = [drv EXCEPT !.mounted = FALSE, !.cerr = Join(@, "plain"), !.clean = FALSE] => Unmounts
           /\ \A state \in {"none", "not-started", "released", "preserved", "uncertain"} :
                 drv' = [drv EXCEPT !.cleanup = state] => Ends /\ drv'.cleanup = state
<1> USE DEF DrvKeeps, Drivers, Owns, Disowns, Mounts, Unmounts, Remarks, Ends
<1>j. \A new \in Answers \cup {"plain"} : Join(drv.cerr, new) \in Answers \cup {"plain"}
  BY JoinIs
<1>b. "bare" \in Answers \cup {"plain"} /\ "plain" \in Answers \cup {"plain"}
  BY DEF Answers
<1>1. drv' = [drv EXCEPT !.pool = TRUE] => Owns
  BY <1>j, <1>b, ZenonT(40)
<1>2. drv' = [drv EXCEPT !.pool = FALSE] => Disowns
  BY <1>j, <1>b, ZenonT(40)
<1>3. drv' = [drv EXCEPT !.mounted = TRUE] => Mounts
  BY <1>j, <1>b, ZenonT(40)
<1>4. drv' = [drv EXCEPT !.mounted = FALSE] => Unmounts
  BY <1>j, <1>b, ZenonT(40)
<1>5. drv' = [drv EXCEPT !.error = TRUE] => Remarks
  BY <1>j, <1>b, ZenonT(40)
<1>6. drv' = [drv EXCEPT !.preserve = drv.pool] => Remarks
  BY <1>j, <1>b, ZenonT(40)
<1>7. \A new \in Answers \cup {"plain"} : Joined(new) => Remarks
  BY <1>j, <1>b, ZenonT(40) DEF Joined
<1>8. ASSUME NEW w \in Workers PROVE drv' = [drv EXCEPT !.tried = @ \cup {w}, !.fresh = TRUE] => Remarks
  <2>1. drv.tried \cup {w} \in SUBSET Workers
    BY Zenon
  <2> QED
    BY <2>1, ZenonT(40)
<1>9. ASSUME NEW w \in Workers PROVE drv' = [drv EXCEPT !.tried = @ \cup {w}, !.cerr = Join(@, "bare")] => Remarks
  <2>1. drv.tried \cup {w} \in SUBSET Workers
    BY Zenon
  <2> QED
    BY <1>j, <1>b, <2>1, ZenonT(40)
<1>10. drv' = [drv EXCEPT !.mounted = FALSE, !.cerr = Join(@, "plain"), !.clean = FALSE] => Unmounts
  BY <1>j, <1>b, ZenonT(40)
<1>11. \A state \in {"none", "not-started", "released", "preserved", "uncertain"} :
           drv' = [drv EXCEPT !.cleanup = state] => Ends /\ drv'.cleanup = state
  BY <1>j, <1>b, ZenonT(40)
<1> QED BY <1>1, <1>2, <1>3, <1>4, <1>5, <1>6, <1>7, <1>8, <1>9, <1>10, <1>11

\* The calls that the drivers make.
LEMMA BeginDoes ==
    /\ Call("setup", "d_setup", 0) => Begins("setup", "d_setup")
    /\ Call("session", "d_mount", 0) => Begins("session", "d_mount")
    /\ Call("status", "l_status", 0) => Begins("status", "l_status")
    /\ Call("remove", "l_remove", 0) => Begins("remove", "l_remove")
    /\ Call("remove", "s_remove", 0) => Begins("remove", "s_remove")
    /\ Call("remove", "u_removed", 0) => Begins("remove", "u_removed")
<1>1. {"setup", "session", "status", "remove"} \subseteq Operations
  BY DEF Operations
<1>2. {"d_setup", "d_mount", "l_status", "l_remove", "s_remove", "u_removed"} \subseteq Places
  BY DEF Places, Owning, Waiting
<1> QED
  BY <1>1, <1>2, WorkersAre, CallDoes, Zenon DEF Begins

\* The leases that the driver holds are on workers it uses.
LEMMA HeldAre ==
    /\ Last \in Workers /\ Last \in Used
    /\ \A w \in HeldBy : w \in Workers /\ w \in Used /\ lease[w] = "held"
BY WorkersAre DEF Last, HeldBy, Used

\* The goroutine of one worker goes on.
LEMMA BecomeDoes ==
    ASSUME acq \in [Workers -> Outcomes], NEW w \in Workers, NEW outcome \in Outcomes,
           acq' = [acq EXCEPT ![w] = outcome]
    PROVE  Becomes(w, outcome)
BY DEF Becomes, AcqTo, Outcomes

\* A worker is released, in whole or in part.
LEMMA ReleaseDoes ==
    ASSUME Types, NEW w \in Workers
    PROVE  /\ ReleaseOk(w) => DeletedTo(ItemsOf(w))
           /\ ReleaseFails(w) => DeletedPartly(w)
           /\ lease' = [lease EXCEPT ![w] = "released"] => Releases(w)
           /\ lease' = [lease EXCEPT ![w] = "held"] => Leased(w)
<1>1. disk \in [Items -> States] /\ lease \in [Workers -> {"none", "held", "released"}]
  BY DEF Types
<1>2. ReleaseOk(w) => DeletedTo(ItemsOf(w))
  BY <1>1, DeleteDoes, Zenon DEF ReleaseOk
<1>3. ReleaseFails(w) => DeletedPartly(w)
  <2>1. \A S \in {{}, {Worker(w)}, {Worker(w), Marker(w)}} : S \in SUBSET {Worker(w), Marker(w)}
    BY Zenon
  <2> QED
    BY <1>1, <2>1, DeleteDoes, Zenon DEF ReleaseFails, DeletedPartly
<1>4. lease' = [lease EXCEPT ![w] = "released"] => Releases(w)
  BY <1>1 DEF Releases, LeasesTo
<1>5. lease' = [lease EXCEPT ![w] = "held"] => Leased(w)
  BY <1>1 DEF Leased, LeasesTo
<1> QED
  BY <1>2, <1>3, <1>4, <1>5

\* What comes from outside.
Outside == Operator \/ Crash \/ ClearMount

\* Every step of a setup keeps the invariant ...
LEMMA SetupStepKeepsInv == ASSUME PoolInv, SetupStep PROVE PoolInv'
<1> USE DEF PoolInv
<1>t. Types BY DEF PoolInv
<1>v. /\ svc \in Services /\ told \in BOOLEAN /\ host \in Hosts /\ disk \in [Items -> States]
      /\ faults \in 0 .. MaxFaults /\ drv \in Drivers /\ rec \in Receipts /\ diag \in 0 .. N
  BY <1>t DEF Types
<1>1. CASE SetupCheck
  <2>b. /\ In("setup", {"check"})
        /\ mount' = mount
        /\ disk' = disk
        /\ Frame
        /\ Counts
        /\ \/ host.pending = "none" /\ ~host.owner /\ ~host.vhdx /\ Dirs(2) /\ Goes("pending")
           \/ host.pending = "none" /\ ~host.owner /\ ~host.vhdx /\ Dirs(1) /\ Returns("bare")
           \/ host' = host /\ Returns("bare")
    BY <1>1, <1>v, GotoDoes, ReturnDoes, HostDoes, CountDoes, Zenon DEF SetupCheck, At, Ats,
         SetupAts, Answers, In
  <2> USE DEF Counts, In, Busy, Frame, Driver, Counted, Goes, Works, SvcKeeps, Returns, Dirs,
         Types, Ats, SetupAts, CommandAts
  <2>1. Types'
    BY <1>t, <2>b DEF CallInv, Attached, Unwinding, Waiting, Owning, Places, Outcomes
  <2>2. CallInv'
    BY <1>t, <2>b DEF CallInv, Caller, Attached, Unwinding, Waiting, Owning, Places
  <2>3. MountInv'
    BY <1>t, <2>b DEF Caller, CallInv, MountInv, CommandInv, SetupInv, Attached, Unwinding,
         Waiting, Owning, Places, Nothing, Owned, OneRecord, OnAts, SetupOnAts
  <2>4. VolumeInv'
    BY <1>t, <2>b, ItemsAre, WorkerItemsAre DEF VolumeInv, Loose, Attached, Unwinding, Waiting,
         Owning, Places
  <2>5. SetupInv'
    BY <1>t, <2>b, ItemsAre, WorkerItemsAre DEF CallInv, SetupInv, VolumeInv, Loose, SetupOnAts,
         Waiting
  <2>6. CommandInv'
    BY <1>t, <2>b DEF CommandInv, Nothing, Owned, OneRecord, Attached, Unwinding, Waiting, Owning,
         Places
  <2>7. ResultInv'
    BY <1>t, <2>b DEF Whole, Unwritten, ResultInv, Nothing, Owned, Attached, Unwinding, Waiting, Owning, Places
  <2>8. WholeInv'
    BY <1>t, <2>b DEF Bare, WholeInv, Half, Owned, Attached, Unwinding, Waiting, Owning, Places
  <2>9. DriverInv'
    BY <1>t, <2>b DEF Whole, CallInv, CommandInv, ResultInv, SetupInv, DriverInv, Removing, Caller,
         Attached, Unwinding, Waiting, Owning, Places, Nothing, Owned, OneRecord, SetupOnAts
  <2>10. OwnerIsProven'
    BY <1>t, <2>b DEF OwnerIsProven, Attached, Unwinding, Waiting, Owning, Places
  <2>11. ASSUME NEW w \in Workers PROVE LeaseInv(w)'
    BY <1>t, <2>b, ItemsAre, WorkerItemsAre DEF CallInv, MountInv, VolumeInv, DriverInv, LeaseInv,
         Caller, Attached, Unwinding, Waiting, Owning, Places, Loose, Fresh, Active, Used, OnAts,
         SetupOnAts
  <2>12. ASSUME NEW w \in Workers PROVE EmptyInv(w)'
    BY <1>t, <2>b, ItemsAre, WorkerItemsAre DEF EmptyInv, Abandoned, Still, Clear, Loose, Attached,
         Unwinding, Waiting, Owning, Places
  <2>13. LeftInv'
    BY <1>t, <2>b, <2>1, LeftAre, ItemsAre, WorkerItemsAre DEF LeftInv, Holds, CallInv, MountInv, VolumeInv, SetupInv,
         CommandInv, ResultInv, DriverInv, LeaseInv, Caller, Attached, Unwinding, Waiting, Owning, Places, Nothing, Owned,
         OneRecord, OnAts, SetupOnAts, Loose, Active, Fresh
  <2> QED
    BY <2>1, <2>2, <2>3, <2>4, <2>5, <2>6, <2>7, <2>8, <2>9, <2>10, <2>11, <2>12, <2>13
<1>2. CASE SetupPending
  <2>b. /\ In("setup", {"pending"})
        /\ mount' = mount
        /\ disk' = disk
        /\ Frame
        /\ Counts
        /\ \/ Pending("bare") /\ Goes("create")
           \/ (host' = host \/ Pending("bare")) /\ Returns("bare")
    BY <1>2, <1>v, GotoDoes, ReturnDoes, HostDoes, CountDoes, Zenon DEF SetupPending, At, Ats,
         SetupAts, Answers, In
  <2> USE DEF Counts, In, Busy, Frame, Driver, Counted, Goes, Works, SvcKeeps, Returns, Pending,
         Types, Ats, SetupAts, CommandAts
  <2>1. Types'
    BY <1>t, <2>b DEF CallInv, Attached, Unwinding, Waiting, Owning, Places, Outcomes
  <2>2. CallInv'
    BY <1>t, <2>b DEF CallInv, Caller, Attached, Unwinding, Waiting, Owning, Places
  <2>3. MountInv'
    BY <1>t, <2>b DEF Caller, CallInv, MountInv, CommandInv, SetupInv, Attached, Unwinding,
         Waiting, Owning, Places, Nothing, Owned, OneRecord, OnAts, SetupOnAts
  <2>4. VolumeInv'
    BY <1>t, <2>b, ItemsAre, WorkerItemsAre DEF VolumeInv, Loose, Attached, Unwinding, Waiting,
         Owning, Places
  <2>5. SetupInv'
    BY <1>t, <2>b DEF SetupInv, Attached, Unwinding, Waiting, Owning, Places, SetupOnAts
  <2>6. CommandInv'
    BY <1>t, <2>b DEF CommandInv, Nothing, Owned, OneRecord, Attached, Unwinding, Waiting, Owning,
         Places
  <2>7. ResultInv'
    BY <1>t, <2>b DEF Whole, Unwritten, ResultInv, Nothing, Owned, Attached, Unwinding, Waiting, Owning, Places
  <2>8. WholeInv'
    BY <1>t, <2>b DEF Bare, CallInv, CommandInv, SetupInv, WholeInv, Half, Attached, Unwinding, Waiting,
         Owning, Places, Nothing, Owned, OneRecord, SetupOnAts
  <2>9. DriverInv'
    BY <1>t, <2>b DEF Whole, CallInv, CommandInv, ResultInv, SetupInv, DriverInv, Removing, Caller,
         Attached, Unwinding, Waiting, Owning, Places, Nothing, Owned, OneRecord, SetupOnAts
  <2>10. OwnerIsProven'
    BY <1>t, <2>b DEF OwnerIsProven, Attached, Unwinding, Waiting, Owning, Places
  <2>11. ASSUME NEW w \in Workers PROVE LeaseInv(w)'
    BY <1>t, <2>b, ItemsAre, WorkerItemsAre DEF CallInv, MountInv, VolumeInv, DriverInv, LeaseInv,
         Caller, Attached, Unwinding, Waiting, Owning, Places, Loose, Fresh, Active, Used, OnAts,
         SetupOnAts
  <2>12. ASSUME NEW w \in Workers PROVE EmptyInv(w)'
    BY <1>t, <2>b, ItemsAre, WorkerItemsAre DEF EmptyInv, Abandoned, Still, Clear, Loose, Attached,
         Unwinding, Waiting, Owning, Places
  <2>13. LeftInv'
    BY <1>t, <2>b, <2>1, LeftAre, ItemsAre, WorkerItemsAre DEF LeftInv, Holds, CallInv, MountInv, VolumeInv, SetupInv,
         CommandInv, ResultInv, DriverInv, LeaseInv, Caller, Attached, Unwinding, Waiting, Owning, Places, Nothing, Owned,
         OneRecord, OnAts, SetupOnAts, Loose, Active, Fresh
  <2> QED
    BY <2>1, <2>2, <2>3, <2>4, <2>5, <2>6, <2>7, <2>8, <2>9, <2>10, <2>11, <2>12, <2>13
<1>3. CASE SetupCreate
  <2>b. /\ In("setup", {"create"})
        /\ mount' = mount
        /\ disk' = disk
        /\ Frame
        /\ Counts
        /\ \/ Made /\ Goes("identify")
           \/ (host' = host \/ Made) /\ Closes
    BY <1>3, <1>t, <1>v, SetupFailsDoes, SetupFacts, HostDoes, CountDoes, Zenon DEF SetupCreate,
         At, Ats, SetupAts, Answers, In, SetupInv
  <2> USE DEF Counts, In, Busy, Frame, Driver, Counted, Goes, Works, SvcKeeps, Closes, Made, Types,
         Ats, SetupAts, CommandAts
  <2>1. Types'
    BY <1>t, <2>b DEF Places, Outcomes
  <2>2. CallInv'
    BY <1>t, <2>b DEF CallInv, Caller, Attached, Unwinding, Waiting, Owning, Places
  <2>3. MountInv'
    BY <1>t, <2>b DEF MountInv, Attached, Unwinding, Waiting, Owning, Places, OnAts, SetupOnAts
  <2>4. VolumeInv'
    BY <1>t, <2>b, ItemsAre, WorkerItemsAre DEF VolumeInv, Loose, Attached, Unwinding, Waiting,
         Owning, Places
  <2>5. SetupInv'
    BY <1>t, <2>b DEF SetupInv, Attached, Unwinding, Waiting, Owning, Places, SetupOnAts
  <2>6. CommandInv'
    BY <1>t, <2>b DEF CommandInv, Nothing, Owned, OneRecord, Attached, Unwinding, Waiting, Owning,
         Places
  <2>7. ResultInv'
    BY <1>t, <2>b DEF Whole, Unwritten, ResultInv, Nothing, Owned, Attached, Unwinding, Waiting, Owning, Places
  <2>8. WholeInv'
    BY <1>t, <2>b DEF Bare, WholeInv, Half, Owned, Attached, Unwinding, Waiting, Owning, Places
  <2>9. DriverInv'
    BY <1>t, <2>b DEF Whole, CallInv, CommandInv, ResultInv, SetupInv, DriverInv, Removing, Caller,
         Attached, Unwinding, Waiting, Owning, Places, Nothing, Owned, OneRecord, SetupOnAts
  <2>10. OwnerIsProven'
    BY <1>t, <2>b, ItemsAre, WorkerItemsAre DEF CallInv, SetupInv, VolumeInv, OwnerIsProven, Loose,
         SetupOnAts
  <2>11. ASSUME NEW w \in Workers PROVE LeaseInv(w)'
    BY <1>t, <2>b DEF LeaseInv, Caller, Active, Used, Fresh, Attached, Unwinding, Waiting, Owning,
         Places
  <2>12. ASSUME NEW w \in Workers PROVE EmptyInv(w)'
    BY <1>t, <2>b, ItemsAre, WorkerItemsAre DEF EmptyInv, Abandoned, Still, Clear, Loose, Attached,
         Unwinding, Waiting, Owning, Places
  <2>13. LeftInv'
    BY <1>t, <2>b, <2>1, LeftAre, ItemsAre, WorkerItemsAre DEF LeftInv, Holds, CallInv, MountInv, VolumeInv, SetupInv,
         CommandInv, ResultInv, DriverInv, LeaseInv, Caller, Attached, Unwinding, Waiting, Owning, Places, Nothing, Owned,
         OneRecord, OnAts, SetupOnAts, Loose, Active, Fresh
  <2> QED
    BY <2>1, <2>2, <2>3, <2>4, <2>5, <2>6, <2>7, <2>8, <2>9, <2>10, <2>11, <2>12, <2>13
<1>4. CASE SetupIdentify
  <2>b. /\ In("setup", {"identify"})
        /\ mount' = mount
        /\ disk' = disk
        /\ Frame
        /\ Counts
        /\ \/ Pending("vhdx") /\ Clears("format")
           \/ host' = host /\ Closes
    BY <1>4, <1>v, SetupToDoes, SetupFailsDoes, HostDoes, CountDoes, Zenon DEF SetupIdentify, At,
         Ats, SetupAts, Answers, In
  <2> USE DEF Counts, In, Busy, Frame, Driver, Counted, Works, SvcKeeps, Clears, Closes, Pending,
         Types, Ats, SetupAts, CommandAts
  <2>1. Types'
    BY <1>t, <2>b DEF Places, Outcomes
  <2>2. CallInv'
    BY <1>t, <2>b DEF CallInv, Caller, Attached, Unwinding, Waiting, Owning, Places
  <2>3. MountInv'
    BY <1>t, <2>b DEF MountInv, Attached, Unwinding, Waiting, Owning, Places, OnAts, SetupOnAts
  <2>4. VolumeInv'
    BY <1>t, <2>b, ItemsAre, WorkerItemsAre DEF VolumeInv, Loose, Attached, Unwinding, Waiting,
         Owning, Places
  <2>5. SetupInv'
    BY <1>t, <2>b DEF SetupInv, Attached, Unwinding, Waiting, Owning, Places, SetupOnAts
  <2>6. CommandInv'
    BY <1>t, <2>b DEF CommandInv, Nothing, Owned, OneRecord, Attached, Unwinding, Waiting, Owning,
         Places
  <2>7. ResultInv'
    BY <1>t, <2>b DEF Whole, Unwritten, ResultInv, Nothing, Owned, Attached, Unwinding, Waiting, Owning, Places
  <2>8. WholeInv'
    BY <1>t, <2>b DEF Bare, WholeInv, Half, Owned, Attached, Unwinding, Waiting, Owning, Places
  <2>9. DriverInv'
    BY <1>t, <2>b DEF Whole, CallInv, CommandInv, ResultInv, SetupInv, DriverInv, Removing, Caller,
         Attached, Unwinding, Waiting, Owning, Places, Nothing, Owned, OneRecord, SetupOnAts
  <2>10. OwnerIsProven'
    BY <1>t, <2>b DEF OwnerIsProven, Attached, Unwinding, Waiting, Owning, Places
  <2>11. ASSUME NEW w \in Workers PROVE LeaseInv(w)'
    BY <1>t, <2>b DEF LeaseInv, Caller, Active, Used, Fresh, Attached, Unwinding, Waiting, Owning,
         Places
  <2>12. ASSUME NEW w \in Workers PROVE EmptyInv(w)'
    BY <1>t, <2>b, ItemsAre, WorkerItemsAre DEF EmptyInv, Abandoned, Still, Clear, Loose, Attached,
         Unwinding, Waiting, Owning, Places
  <2>13. LeftInv'
    BY <1>t, <2>b, <2>1, LeftAre, ItemsAre, WorkerItemsAre DEF LeftInv, Holds, CallInv, MountInv, VolumeInv, SetupInv,
         CommandInv, ResultInv, DriverInv, LeaseInv, Caller, Attached, Unwinding, Waiting, Owning, Places, Nothing, Owned,
         OneRecord, OnAts, SetupOnAts, Loose, Active, Fresh
  <2> QED
    BY <2>1, <2>2, <2>3, <2>4, <2>5, <2>6, <2>7, <2>8, <2>9, <2>10, <2>11, <2>12, <2>13
<1>5. CASE SetupFormat
  <2>b. /\ In("setup", {"format"})
        /\ host' = host
        /\ disk' = disk
        /\ Frame
        /\ Counts
        /\ \/ mount' = "on" /\ Clears("layout")
           \/ mount' \in {"no", "stuck"} /\ Closes
    BY <1>5, <1>v, SetupToDoes, SetupFailsDoes, CountDoes, Zenon DEF SetupFormat, At, Ats,
         SetupAts, Answers, In
  <2> USE DEF Counts, In, Busy, Frame, Driver, Counted, Works, SvcKeeps, Clears, Closes, Types,
         Ats, SetupAts, CommandAts
  <2>1. Types'
    BY <1>t, <2>b DEF Places, Outcomes
  <2>2. CallInv'
    BY <1>t, <2>b DEF CallInv, Caller, Attached, Unwinding, Waiting, Owning, Places
  <2>3. MountInv'
    BY <1>t, <2>b DEF Caller, CallInv, MountInv, CommandInv, SetupInv, Attached, Unwinding,
         Waiting, Owning, Places, Nothing, Owned, OneRecord, OnAts, SetupOnAts
  <2>4. VolumeInv'
    BY <1>t, <2>b, ItemsAre, WorkerItemsAre DEF VolumeInv, MountInv, Loose, OnAts, SetupOnAts
  <2>5. SetupInv'
    BY <1>t, <2>b DEF SetupInv, Attached, Unwinding, Waiting, Owning, Places, SetupOnAts
  <2>6. CommandInv'
    BY <1>t, <2>b DEF CommandInv, Nothing, Owned, OneRecord, Attached, Unwinding, Waiting, Owning,
         Places
  <2>7. ResultInv'
    BY <1>t, <2>b DEF Whole, Unwritten, ResultInv, Nothing, Owned, Attached, Unwinding, Waiting, Owning, Places
  <2>8. WholeInv'
    BY <1>t, <2>b DEF Bare, WholeInv, Half, Owned, Attached, Unwinding, Waiting, Owning, Places
  <2>9. DriverInv'
    BY <1>t, <2>b DEF Whole, DriverInv, Caller, Removing, Nothing, Owned, Attached, Unwinding, Waiting,
         Owning, Places
  <2>10. OwnerIsProven'
    BY <1>t, <2>b DEF OwnerIsProven, Attached, Unwinding, Waiting, Owning, Places
  <2>11. ASSUME NEW w \in Workers PROVE LeaseInv(w)'
    BY <1>t, <2>b DEF LeaseInv, Caller, Active, Used, Fresh, Attached, Unwinding, Waiting, Owning,
         Places
  <2>12. ASSUME NEW w \in Workers PROVE EmptyInv(w)'
    BY <1>t, <2>b, ItemsAre, WorkerItemsAre DEF EmptyInv, Abandoned, Still, Clear, Loose, Attached,
         Unwinding, Waiting, Owning, Places
  <2>13. LeftInv'
    BY <1>t, <2>b, <2>1, LeftAre, ItemsAre, WorkerItemsAre DEF LeftInv, Holds, CallInv, MountInv, VolumeInv, SetupInv,
         CommandInv, ResultInv, DriverInv, LeaseInv, Caller, Attached, Unwinding, Waiting, Owning, Places, Nothing, Owned,
         OneRecord, OnAts, SetupOnAts, Loose, Active, Fresh
  <2> QED
    BY <2>1, <2>2, <2>3, <2>4, <2>5, <2>6, <2>7, <2>8, <2>9, <2>10, <2>11, <2>12, <2>13
<1>6. CASE SetupLayout
  <2>b. /\ In("setup", {"layout"})
        /\ host' = host
        /\ mount' = mount
        /\ Frame
        /\ Counts
        /\ \/ NewTo(Layout) /\ Clears("clone")
           \/ disk' = disk /\ Closes
    BY <1>6, <1>v, SetupToDoes, SetupFailsDoes, NewDoes, CountDoes, ItemsAre, Zenon DEF
         SetupLayout, At, Ats, SetupAts, Answers, In
  <2> USE DEF Counts, In, Busy, Frame, Driver, Counted, Works, SvcKeeps, Clears, Closes, Types,
         Ats, SetupAts, CommandAts
  <2>1. Types'
    BY <1>t, <2>b DEF Places, Outcomes, NewTo
  <2>2. CallInv'
    BY <1>t, <2>b DEF CallInv, Caller, Attached, Unwinding, Waiting, Owning, Places
  <2>3. MountInv'
    BY <1>t, <2>b DEF MountInv, Attached, Unwinding, Waiting, Owning, Places, OnAts, SetupOnAts
  <2>4. VolumeInv'
    BY <1>t, <2>b, ItemsAre, WorkerItemsAre DEF VolumeInv, MountInv, NewTo, Loose, OnAts, SetupOnAts
  <2>5. SetupInv'
    BY <1>t, <2>b, ItemsAre, WorkerItemsAre DEF SetupInv, Attached, Unwinding, Waiting, Owning,
         Places, SetupOnAts, NewTo
  <2>6. CommandInv'
    BY <1>t, <2>b, ItemsAre, WorkerItemsAre DEF CommandInv, Nothing, Owned, OneRecord, Attached,
         Unwinding, Waiting, Owning, Places, NewTo
  <2>7. ResultInv'
    BY <1>t, <2>b DEF Whole, Unwritten, ResultInv, Nothing, Owned, Attached, Unwinding, Waiting, Owning, Places
  <2>8. WholeInv'
    BY <1>t, <2>b DEF Bare, WholeInv, Half, Owned, Attached, Unwinding, Waiting, Owning, Places
  <2>9. DriverInv'
    BY <1>t, <2>b DEF Whole, DriverInv, Caller, Removing, Nothing, Owned, Attached, Unwinding, Waiting,
         Owning, Places
  <2>10. OwnerIsProven'
    BY <1>t, <2>b, ItemsAre, WorkerItemsAre DEF CallInv, SetupInv, VolumeInv, OwnerIsProven, NewTo,
         Loose, SetupOnAts
  <2>11. ASSUME NEW w \in Workers PROVE LeaseInv(w)'
    BY <1>t, <2>b, ItemsAre, WorkerItemsAre DEF LeaseInv, Caller, Active, Used, Fresh, Attached,
         Unwinding, Waiting, Owning, Places, NewTo
  <2>12. ASSUME NEW w \in Workers PROVE EmptyInv(w)'
    BY <1>t, <2>b, ItemsAre, WorkerItemsAre DEF EmptyInv, Abandoned, Still, Clear, Loose, Attached,
         Unwinding, Waiting, Owning, Places, NewTo
  <2>13. LeftInv'
    BY <1>t, <2>b, <2>1, LeftAre, ItemsAre, WorkerItemsAre DEF LeftInv, Holds, CallInv, MountInv, VolumeInv, SetupInv,
         CommandInv, ResultInv, DriverInv, LeaseInv, Caller, Attached, Unwinding, Waiting, Owning, Places, Nothing, Owned,
         OneRecord, OnAts, SetupOnAts, Loose, Active, Fresh, NewTo
  <2> QED
    BY <2>1, <2>2, <2>3, <2>4, <2>5, <2>6, <2>7, <2>8, <2>9, <2>10, <2>11, <2>12, <2>13
<1>7. CASE SetupClone
  <2>b. /\ In("setup", {"clone"})
        /\ mount' = mount
        /\ Frame
        /\ Counts
        /\ ProbedTo
        /\ \/ Pending("volume") /\ Clears("metadata")
           \/ host' = host /\ Closes
    <3>1. ProbedTo
      BY <1>7, <1>v, ProbeDoes DEF SetupClone
    <3> QED
      BY <1>7, <1>v, <3>1, SetupToDoes, SetupFailsDoes, HostDoes, CountDoes, Zenon
      DEF SetupClone, At, Ats, SetupAts, Answers, In
  <2> USE DEF Counts, In, Busy, Frame, Driver, Counted, Works, SvcKeeps, Clears, Closes, Pending,
         Types, Ats, SetupAts, CommandAts
  <2>1. Types'
    BY <1>t, <2>b DEF Places, Outcomes, ProbedTo
  <2>2. CallInv'
    BY <1>t, <2>b DEF CallInv, Caller, Attached, Unwinding, Waiting, Owning, Places
  <2>3. MountInv'
    BY <1>t, <2>b DEF MountInv, Attached, Unwinding, Waiting, Owning, Places, OnAts, SetupOnAts
  <2>4. VolumeInv'
    BY <1>t, <2>b, ItemsAre, WorkerItemsAre DEF VolumeInv, MountInv, ProbedTo, Loose, OnAts, SetupOnAts
  <2>5. SetupInv'
    BY <1>t, <2>b, ItemsAre, WorkerItemsAre DEF SetupInv, Attached, Unwinding, Waiting, Owning,
         Places, SetupOnAts, ProbedTo
  <2>6. CommandInv'
    BY <1>t, <2>b, ItemsAre, WorkerItemsAre DEF CommandInv, Nothing, Owned, OneRecord, Attached,
         Unwinding, Waiting, Owning, Places, ProbedTo
  <2>7. ResultInv'
    BY <1>t, <2>b DEF Whole, Unwritten, ResultInv, Nothing, Owned, Attached, Unwinding, Waiting, Owning, Places
  <2>8. WholeInv'
    BY <1>t, <2>b DEF Bare, WholeInv, Half, Owned, Attached, Unwinding, Waiting, Owning, Places
  <2>9. DriverInv'
    BY <1>t, <2>b DEF Whole, CallInv, CommandInv, ResultInv, SetupInv, DriverInv, Removing, Caller,
         Attached, Unwinding, Waiting, Owning, Places, Nothing, Owned, OneRecord, SetupOnAts
  <2>10. OwnerIsProven'
    BY <1>t, <2>b, ItemsAre, WorkerItemsAre DEF OwnerIsProven, Attached, Unwinding, Waiting,
         Owning, Places, ProbedTo
  <2>11. ASSUME NEW w \in Workers PROVE LeaseInv(w)'
    BY <1>t, <2>b, ItemsAre, WorkerItemsAre DEF LeaseInv, Caller, Active, Used, Fresh, Attached,
         Unwinding, Waiting, Owning, Places, ProbedTo
  <2>12. ASSUME NEW w \in Workers PROVE EmptyInv(w)'
    BY <1>t, <2>b, ItemsAre, WorkerItemsAre DEF EmptyInv, Abandoned, Still, Clear, Loose, Attached,
         Unwinding, Waiting, Owning, Places, ProbedTo
  <2>13. LeftInv'
    BY <1>t, <2>b, <2>1, LeftAre, ItemsAre, WorkerItemsAre DEF LeftInv, Holds, CallInv, MountInv, VolumeInv, SetupInv,
         CommandInv, ResultInv, DriverInv, LeaseInv, Caller, Attached, Unwinding, Waiting, Owning, Places, Nothing, Owned,
         OneRecord, OnAts, SetupOnAts, Loose, Active, Fresh, ProbedTo
  <2> QED
    BY <2>1, <2>2, <2>3, <2>4, <2>5, <2>6, <2>7, <2>8, <2>9, <2>10, <2>11, <2>12, <2>13
<1>8. CASE SetupMetadata
  <2>b. /\ In("setup", {"metadata"})
        /\ host' = host
        /\ mount' = mount
        /\ Frame
        /\ Counts
        /\ \/ NewTo(PoolFile) /\ Clears("flush")
           \/ (disk' = disk \/ NewTo(PoolFile)) /\ Closes
    BY <1>8, <1>v, SetupToDoes, SetupFailsDoes, NewDoes, CountDoes, ItemsAre, Zenon DEF
         SetupMetadata, At, Ats, SetupAts, Answers, In
  <2> USE DEF Counts, In, Busy, Frame, Driver, Counted, Works, SvcKeeps, Clears, Closes, Types,
         Ats, SetupAts, CommandAts
  <2>1. Types'
    BY <1>t, <2>b DEF Places, Outcomes, NewTo
  <2>2. CallInv'
    BY <1>t, <2>b DEF CallInv, Caller, Attached, Unwinding, Waiting, Owning, Places
  <2>3. MountInv'
    BY <1>t, <2>b DEF MountInv, Attached, Unwinding, Waiting, Owning, Places, OnAts, SetupOnAts
  <2>4. VolumeInv'
    BY <1>t, <2>b, ItemsAre, WorkerItemsAre DEF VolumeInv, MountInv, NewTo, Loose, OnAts, SetupOnAts
  <2>5. SetupInv'
    BY <1>t, <2>b, ItemsAre, WorkerItemsAre DEF SetupInv, Attached, Unwinding, Waiting, Owning,
         Places, SetupOnAts, NewTo
  <2>6. CommandInv'
    BY <1>t, <2>b, ItemsAre, WorkerItemsAre DEF CommandInv, Nothing, Owned, OneRecord, Attached,
         Unwinding, Waiting, Owning, Places, NewTo
  <2>7. ResultInv'
    BY <1>t, <2>b DEF Whole, Unwritten, ResultInv, Nothing, Owned, Attached, Unwinding, Waiting, Owning, Places
  <2>8. WholeInv'
    BY <1>t, <2>b DEF Bare, WholeInv, Half, Owned, Attached, Unwinding, Waiting, Owning, Places
  <2>9. DriverInv'
    BY <1>t, <2>b DEF Whole, DriverInv, Caller, Removing, Nothing, Owned, Attached, Unwinding, Waiting,
         Owning, Places
  <2>10. OwnerIsProven'
    BY <1>t, <2>b, ItemsAre, WorkerItemsAre DEF CallInv, SetupInv, VolumeInv, OwnerIsProven, NewTo,
         Loose, SetupOnAts
  <2>11. ASSUME NEW w \in Workers PROVE LeaseInv(w)'
    BY <1>t, <2>b, ItemsAre, WorkerItemsAre DEF LeaseInv, Caller, Active, Used, Fresh, Attached,
         Unwinding, Waiting, Owning, Places, NewTo
  <2>12. ASSUME NEW w \in Workers PROVE EmptyInv(w)'
    BY <1>t, <2>b, ItemsAre, WorkerItemsAre DEF EmptyInv, Abandoned, Still, Clear, Loose, Attached,
         Unwinding, Waiting, Owning, Places, NewTo
  <2>13. LeftInv'
    BY <1>t, <2>b, <2>1, LeftAre, ItemsAre, WorkerItemsAre DEF LeftInv, Holds, CallInv, MountInv, VolumeInv, SetupInv,
         CommandInv, ResultInv, DriverInv, LeaseInv, Caller, Attached, Unwinding, Waiting, Owning, Places, Nothing, Owned,
         OneRecord, OnAts, SetupOnAts, Loose, Active, Fresh, NewTo
  <2> QED
    BY <2>1, <2>2, <2>3, <2>4, <2>5, <2>6, <2>7, <2>8, <2>9, <2>10, <2>11, <2>12, <2>13
<1>9. CASE SetupFlush
  <2>b. /\ In("setup", {"flush"})
        /\ host' = host
        /\ mount' = mount
        /\ Frame
        /\ Counts
        /\ \/ Ready /\ FlushedTo /\ Clears("detach")
           \/ disk' = disk /\ Closes
    BY <1>9, <1>v, SetupToDoes, SetupFailsDoes, FlushedDoes, CountDoes, Zenon DEF SetupFlush, At,
         Ats, SetupAts, Answers, In
  <2> USE DEF Counts, In, Busy, Frame, Driver, Counted, Works, SvcKeeps, Clears, Closes, Types,
         Ats, SetupAts, CommandAts
  <2>1. Types'
    BY <1>t, <2>b DEF Loose, Places, Outcomes, FlushedTo
  <2>2. CallInv'
    BY <1>t, <2>b DEF CallInv, Caller, Loose, Attached, Unwinding, Waiting, Owning, Places
  <2>3. MountInv'
    BY <1>t, <2>b DEF MountInv, Loose, Attached, Unwinding, Waiting, Owning, Places, OnAts,
         SetupOnAts
  <2>4. VolumeInv'
    BY <1>t, <2>b, ItemsAre, WorkerItemsAre DEF VolumeInv, Loose, Attached, Unwinding, Waiting,
         Owning, Places, FlushedTo
  <2>5. SetupInv'
    BY <1>t, <2>b, ItemsAre, WorkerItemsAre DEF CallInv, SetupInv, VolumeInv, FlushedTo, Loose,
         SetupOnAts, Ready, Visible
  <2>6. CommandInv'
    BY <1>t, <2>b, ItemsAre, WorkerItemsAre DEF CommandInv, Nothing, Owned, OneRecord, Loose,
         Attached, Unwinding, Waiting, Owning, Places, FlushedTo
  <2>7. ResultInv'
    BY <1>t, <2>b DEF Whole, Unwritten, ResultInv, Nothing, Owned, Loose, Attached, Unwinding, Waiting, Owning, Places
  <2>8. WholeInv'
    BY <1>t, <2>b DEF Bare, WholeInv, Half, Owned, Loose, Attached, Unwinding, Waiting, Owning, Places
  <2>9. DriverInv'
    BY <1>t, <2>b DEF Whole, DriverInv, Caller, Removing, Nothing, Owned, Loose, Attached, Unwinding,
         Waiting, Owning, Places
  <2>10. OwnerIsProven'
    BY <1>t, <2>b, ItemsAre, WorkerItemsAre DEF OwnerIsProven, Loose, Attached, Unwinding, Waiting,
         Owning, Places, FlushedTo
  <2>11. ASSUME NEW w \in Workers PROVE LeaseInv(w)'
    BY <1>t, <2>b, ItemsAre, WorkerItemsAre DEF LeaseInv, Caller, Active, Used, Fresh, Loose,
         Attached, Unwinding, Waiting, Owning, Places, FlushedTo
  <2>12. ASSUME NEW w \in Workers PROVE EmptyInv(w)'
    BY <1>t, <2>b, ItemsAre, WorkerItemsAre DEF EmptyInv, Abandoned, Still, Clear, Loose, Attached,
         Unwinding, Waiting, Owning, Places, FlushedTo
  <2>13. LeftInv'
    BY <1>t, <2>b, <2>1, LeftAre, ItemsAre, WorkerItemsAre DEF LeftInv, Holds, CallInv, MountInv, VolumeInv, SetupInv,
         CommandInv, ResultInv, DriverInv, LeaseInv, Caller, Attached, Unwinding, Waiting, Owning, Places, Nothing, Owned,
         OneRecord, OnAts, SetupOnAts, Loose, Active, Fresh, FlushedTo
  <2> QED
    BY <2>1, <2>2, <2>3, <2>4, <2>5, <2>6, <2>7, <2>8, <2>9, <2>10, <2>11, <2>12, <2>13
<1>10. CASE SetupDetach
  <2>b. /\ In("setup", {"detach", "detach_again"})
        /\ host' = host
        /\ SettledTo
        /\ Frame
        /\ Counts
        /\ \/ svc.at = "detach" /\ mount' = "no" /\ Clears("reattach")
           \/ svc.at = "detach_again" /\ mount' = "no" /\ Clears("commit")
           \/ mount' \in {"no", "stuck"} /\ Closes
    BY <1>10, <1>t, <1>v, SetupToDoes, SetupFacts, SettledDoes, CountDoes, Zenon DEF SetupDetach,
         At, CloseVolume, CloseFails, Ats, SetupAts, Answers, In
  <2> USE DEF Counts, In, Busy, Frame, Driver, Counted, Works, SvcKeeps, Clears, Closes, Types,
         Ats, SetupAts, CommandAts
  <2>1. Types'
    BY <1>t, <2>b DEF Loose, Places, Outcomes, SettledTo
  <2>2. CallInv'
    BY <1>t, <2>b DEF CallInv, Caller, Loose, Attached, Unwinding, Waiting, Owning, Places
  <2>3. MountInv'
    BY <1>t, <2>b DEF MountInv, Loose, Attached, Unwinding, Waiting, Owning, Places, OnAts,
         SetupOnAts
  <2>4. VolumeInv'
    BY <1>t, <2>b, ItemsAre, WorkerItemsAre DEF VolumeInv, Loose, Attached, Unwinding, Waiting,
         Owning, Places, SettledTo
  <2>5. SetupInv'
    BY <1>t, <2>b, ItemsAre, WorkerItemsAre DEF SetupInv, Loose, Attached, Unwinding, Waiting,
         Owning, Places, SetupOnAts, SettledTo
  <2>6. CommandInv'
    BY <1>t, <2>b, ItemsAre, WorkerItemsAre DEF CommandInv, Nothing, Owned, OneRecord, Loose,
         Attached, Unwinding, Waiting, Owning, Places, SettledTo
  <2>7. ResultInv'
    BY <1>t, <2>b DEF Whole, Unwritten, ResultInv, Nothing, Owned, Loose, Attached, Unwinding, Waiting, Owning, Places
  <2>8. WholeInv'
    BY <1>t, <2>b DEF Bare, WholeInv, Half, Owned, Loose, Attached, Unwinding, Waiting, Owning, Places
  <2>9. DriverInv'
    BY <1>t, <2>b DEF Whole, DriverInv, Caller, Removing, Nothing, Owned, Loose, Attached, Unwinding,
         Waiting, Owning, Places
  <2>10. OwnerIsProven'
    BY <1>t, <2>b, ItemsAre, WorkerItemsAre DEF OwnerIsProven, Loose, Attached, Unwinding, Waiting,
         Owning, Places, SettledTo
  <2>11. ASSUME NEW w \in Workers PROVE LeaseInv(w)'
    BY <1>t, <2>b, ItemsAre, WorkerItemsAre DEF LeaseInv, Caller, Active, Used, Fresh, Loose,
         Attached, Unwinding, Waiting, Owning, Places, SettledTo
  <2>12. ASSUME NEW w \in Workers PROVE EmptyInv(w)'
    BY <1>t, <2>b, ItemsAre, WorkerItemsAre DEF EmptyInv, Abandoned, Still, Clear, Loose, Attached,
         Unwinding, Waiting, Owning, Places, SettledTo
  <2>13. LeftInv'
    BY <1>t, <2>b, <2>1, LeftAre, ItemsAre, WorkerItemsAre DEF LeftInv, Holds, CallInv, MountInv, VolumeInv, SetupInv,
         CommandInv, ResultInv, DriverInv, LeaseInv, Caller, Attached, Unwinding, Waiting, Owning, Places, Nothing, Owned,
         OneRecord, OnAts, SetupOnAts, Loose, Active, Fresh, SettledTo
  <2> QED
    BY <2>1, <2>2, <2>3, <2>4, <2>5, <2>6, <2>7, <2>8, <2>9, <2>10, <2>11, <2>12, <2>13
<1>11. CASE SetupReattach
  <2>b. /\ In("setup", {"reattach"})
        /\ host' = host
        /\ disk' = disk
        /\ Frame
        /\ Counts
        /\ \/ mount' = "on" /\ Clears("verify")
           \/ mount' \in {"no", "stuck"} /\ Closes
    BY <1>11, <1>v, SetupToDoes, SetupFailsDoes, CountDoes, Zenon DEF SetupReattach, At, Ats,
         SetupAts, Answers, In
  <2> USE DEF Counts, In, Busy, Frame, Driver, Counted, Works, SvcKeeps, Clears, Closes, Types,
         Ats, SetupAts, CommandAts
  <2>1. Types'
    BY <1>t, <2>b DEF Places, Outcomes
  <2>2. CallInv'
    BY <1>t, <2>b DEF CallInv, Caller, Attached, Unwinding, Waiting, Owning, Places
  <2>3. MountInv'
    BY <1>t, <2>b DEF Caller, CallInv, MountInv, CommandInv, SetupInv, Attached, Unwinding,
         Waiting, Owning, Places, Nothing, Owned, OneRecord, OnAts, SetupOnAts
  <2>4. VolumeInv'
    BY <1>t, <2>b, ItemsAre, WorkerItemsAre DEF VolumeInv, MountInv, Loose, OnAts, SetupOnAts
  <2>5. SetupInv'
    BY <1>t, <2>b DEF SetupInv, Attached, Unwinding, Waiting, Owning, Places, SetupOnAts
  <2>6. CommandInv'
    BY <1>t, <2>b DEF CommandInv, Nothing, Owned, OneRecord, Attached, Unwinding, Waiting, Owning,
         Places
  <2>7. ResultInv'
    BY <1>t, <2>b DEF Whole, Unwritten, ResultInv, Nothing, Owned, Attached, Unwinding, Waiting, Owning, Places
  <2>8. WholeInv'
    BY <1>t, <2>b DEF Bare, WholeInv, Half, Owned, Attached, Unwinding, Waiting, Owning, Places
  <2>9. DriverInv'
    BY <1>t, <2>b DEF Whole, DriverInv, Caller, Removing, Nothing, Owned, Attached, Unwinding, Waiting,
         Owning, Places
  <2>10. OwnerIsProven'
    BY <1>t, <2>b DEF OwnerIsProven, Attached, Unwinding, Waiting, Owning, Places
  <2>11. ASSUME NEW w \in Workers PROVE LeaseInv(w)'
    BY <1>t, <2>b DEF LeaseInv, Caller, Active, Used, Fresh, Attached, Unwinding, Waiting, Owning,
         Places
  <2>12. ASSUME NEW w \in Workers PROVE EmptyInv(w)'
    BY <1>t, <2>b, ItemsAre, WorkerItemsAre DEF EmptyInv, Abandoned, Still, Clear, Loose, Attached,
         Unwinding, Waiting, Owning, Places
  <2>13. LeftInv'
    BY <1>t, <2>b, <2>1, LeftAre, ItemsAre, WorkerItemsAre DEF LeftInv, Holds, CallInv, MountInv, VolumeInv, SetupInv,
         CommandInv, ResultInv, DriverInv, LeaseInv, Caller, Attached, Unwinding, Waiting, Owning, Places, Nothing, Owned,
         OneRecord, OnAts, SetupOnAts, Loose, Active, Fresh
  <2> QED
    BY <2>1, <2>2, <2>3, <2>4, <2>5, <2>6, <2>7, <2>8, <2>9, <2>10, <2>11, <2>12, <2>13
<1>12. CASE SetupVerify
  <2>b. /\ In("setup", {"verify"})
        /\ host' = host
        /\ mount' = mount
        /\ disk' = disk
        /\ Frame
        /\ Counts
        /\ \/ Clears("detach_again")
           \/ Closes
    BY <1>12, <1>v, SetupToDoes, SetupFailsDoes, CountDoes, Zenon DEF SetupVerify, At, Ats,
         SetupAts, Answers, In
  <2> USE DEF Counts, In, Busy, Frame, Driver, Counted, Works, SvcKeeps, Clears, Closes, Types,
         Ats, SetupAts, CommandAts
  <2>1. Types'
    BY <1>t, <2>b DEF Places, Outcomes
  <2>2. CallInv'
    BY <1>t, <2>b DEF CallInv, Caller, Attached, Unwinding, Waiting, Owning, Places
  <2>3. MountInv'
    BY <1>t, <2>b DEF MountInv, Attached, Unwinding, Waiting, Owning, Places, OnAts, SetupOnAts
  <2>4. VolumeInv'
    BY <1>t, <2>b, ItemsAre, WorkerItemsAre DEF VolumeInv, Loose, Attached, Unwinding, Waiting,
         Owning, Places
  <2>5. SetupInv'
    BY <1>t, <2>b DEF SetupInv, Attached, Unwinding, Waiting, Owning, Places, SetupOnAts
  <2>6. CommandInv'
    BY <1>t, <2>b DEF CommandInv, Nothing, Owned, OneRecord, Attached, Unwinding, Waiting, Owning,
         Places
  <2>7. ResultInv'
    BY <1>t, <2>b DEF Whole, Unwritten, ResultInv, Nothing, Owned, Attached, Unwinding, Waiting, Owning, Places
  <2>8. WholeInv'
    BY <1>t, <2>b DEF Bare, WholeInv, Half, Owned, Attached, Unwinding, Waiting, Owning, Places
  <2>9. DriverInv'
    BY <1>t, <2>b DEF Whole, DriverInv, Caller, Removing, Nothing, Owned, Attached, Unwinding, Waiting,
         Owning, Places
  <2>10. OwnerIsProven'
    BY <1>t, <2>b DEF OwnerIsProven, Attached, Unwinding, Waiting, Owning, Places
  <2>11. ASSUME NEW w \in Workers PROVE LeaseInv(w)'
    BY <1>t, <2>b DEF LeaseInv, Caller, Active, Used, Fresh, Attached, Unwinding, Waiting, Owning,
         Places
  <2>12. ASSUME NEW w \in Workers PROVE EmptyInv(w)'
    BY <1>t, <2>b, ItemsAre, WorkerItemsAre DEF EmptyInv, Abandoned, Still, Clear, Loose, Attached,
         Unwinding, Waiting, Owning, Places
  <2>13. LeftInv'
    BY <1>t, <2>b, <2>1, LeftAre, ItemsAre, WorkerItemsAre DEF LeftInv, Holds, CallInv, MountInv, VolumeInv, SetupInv,
         CommandInv, ResultInv, DriverInv, LeaseInv, Caller, Attached, Unwinding, Waiting, Owning, Places, Nothing, Owned,
         OneRecord, OnAts, SetupOnAts, Loose, Active, Fresh
  <2> QED
    BY <2>1, <2>2, <2>3, <2>4, <2>5, <2>6, <2>7, <2>8, <2>9, <2>10, <2>11, <2>12, <2>13
<1>13. CASE SetupCommit
  <2>b. /\ In("setup", {"commit"})
        /\ mount' = mount
        /\ disk' = disk
        /\ Frame
        /\ Counts
        /\ \/ Committed /\ (Works("close", svc.bad) \/ Works("close", "error")) /\ svc'.committed = TRUE
           \/ host' = host /\ Closes
           \/ Linked /\ Works("close", "error") /\ svc'.committed = TRUE /\ faults' > 1
    BY <1>13, <1>t, <1>v, SetupFailsDoes, SetupFacts, HostDoes, CountDoes, Zenon DEF SetupCommit,
         At, Ats, SetupAts, Answers, In
  <2> USE DEF Counts, In, Busy, Frame, Driver, Counted, Works, SvcKeeps, Closes, Committed, Linked,
         Types, Ats, SetupAts, CommandAts
  <2>1. Types'
    BY <1>t, <2>b DEF Places, Outcomes
  <2>2. CallInv'
    BY <1>t, <2>b DEF CallInv, Caller, Attached, Unwinding, Waiting, Owning, Places
  <2>3. MountInv'
    BY <1>t, <2>b DEF MountInv, Attached, Unwinding, Waiting, Owning, Places, OnAts, SetupOnAts
  <2>4. VolumeInv'
    BY <1>t, <2>b, ItemsAre, WorkerItemsAre DEF VolumeInv, Loose, Attached, Unwinding, Waiting,
         Owning, Places
  <2>5. SetupInv'
    BY <1>t, <2>b DEF SetupInv, Attached, Unwinding, Waiting, Owning, Places, SetupOnAts
  <2>6. CommandInv'
    BY <1>t, <2>b DEF CommandInv, Nothing, Owned, OneRecord, Attached, Unwinding, Waiting, Owning,
         Places
  <2>7. ResultInv'
    BY <1>t, <2>b DEF Whole, Unwritten, ResultInv, Nothing, Owned, Attached, Unwinding, Waiting, Owning, Places
  <2>8. WholeInv'
    BY <1>t, <2>b DEF Bare, WholeInv, Half, Owned, Attached, Unwinding, Waiting, Owning, Places
  <2>9. DriverInv'
    BY <1>t, <2>b DEF Whole, CallInv, CommandInv, ResultInv, SetupInv, DriverInv, Removing, Caller,
         Attached, Unwinding, Waiting, Owning, Places, Nothing, Owned, OneRecord, SetupOnAts
  <2>10. OwnerIsProven'
    BY <1>t, <2>b, ItemsAre, WorkerItemsAre DEF CallInv, SetupInv, VolumeInv, OwnerIsProven, Loose,
         SetupOnAts
  <2>11. ASSUME NEW w \in Workers PROVE LeaseInv(w)'
    BY <1>t, <2>b DEF LeaseInv, Caller, Active, Used, Fresh, Attached, Unwinding, Waiting, Owning,
         Places
  <2>12. ASSUME NEW w \in Workers PROVE EmptyInv(w)'
    BY <1>t, <2>b, ItemsAre, WorkerItemsAre DEF EmptyInv, Abandoned, Still, Clear, Loose, Attached,
         Unwinding, Waiting, Owning, Places
  <2>13. LeftInv'
    BY <1>t, <2>b, <2>1, LeftAre, ItemsAre, WorkerItemsAre DEF LeftInv, Holds, CallInv, MountInv, VolumeInv, SetupInv,
         CommandInv, ResultInv, DriverInv, LeaseInv, Caller, Attached, Unwinding, Waiting, Owning, Places, Nothing, Owned,
         OneRecord, OnAts, SetupOnAts, Loose, Active, Fresh
  <2> QED
    BY <2>1, <2>2, <2>3, <2>4, <2>5, <2>6, <2>7, <2>8, <2>9, <2>10, <2>11, <2>12, <2>13
<1>14. CASE SetupClose
  <2>b. /\ In("setup", {"close"})
        /\ host' = host
        /\ Frame
        /\ Counts
        /\ \/ mount # "on" /\ mount' = mount /\ disk' = disk /\ Goes("rollback")
           \/ mount' \in {"no", "stuck"} /\ SettledTo /\ Goes("rollback")
    BY <1>14, <1>t, <1>v, SetupFacts, SettledDoes, CountDoes, Zenon DEF SetupClose, At,
         CloseVolume, CloseFails, Ats, SetupAts, Answers, In, Mounted
  <2> USE DEF Counts, In, Busy, Frame, Driver, Counted, Goes, Works, SvcKeeps, Types, Ats,
         SetupAts, CommandAts
  <2>1. Types'
    BY <1>t, <2>b DEF Loose, Places, Outcomes, SettledTo
  <2>2. CallInv'
    BY <1>t, <2>b DEF CallInv, Caller, Loose, Attached, Unwinding, Waiting, Owning, Places
  <2>3. MountInv'
    BY <1>t, <2>b DEF MountInv, Loose, Attached, Unwinding, Waiting, Owning, Places, OnAts,
         SetupOnAts
  <2>4. VolumeInv'
    BY <1>t, <2>b, ItemsAre, WorkerItemsAre DEF VolumeInv, Loose, Attached, Unwinding, Waiting,
         Owning, Places, SettledTo
  <2>5. SetupInv'
    BY <1>t, <2>b, ItemsAre, WorkerItemsAre DEF SetupInv, Loose, Attached, Unwinding, Waiting,
         Owning, Places, SetupOnAts, SettledTo
  <2>6. CommandInv'
    BY <1>t, <2>b, ItemsAre, WorkerItemsAre DEF CommandInv, Nothing, Owned, OneRecord, Loose,
         Attached, Unwinding, Waiting, Owning, Places, SettledTo
  <2>7. ResultInv'
    BY <1>t, <2>b DEF Whole, Unwritten, ResultInv, Nothing, Owned, Loose, Attached, Unwinding, Waiting, Owning, Places
  <2>8. WholeInv'
    BY <1>t, <2>b DEF Bare, WholeInv, Half, Owned, Loose, Attached, Unwinding, Waiting, Owning, Places
  <2>9. DriverInv'
    BY <1>t, <2>b DEF Whole, DriverInv, Caller, Removing, Nothing, Owned, Loose, Attached, Unwinding,
         Waiting, Owning, Places
  <2>10. OwnerIsProven'
    BY <1>t, <2>b, ItemsAre, WorkerItemsAre DEF OwnerIsProven, Loose, Attached, Unwinding, Waiting,
         Owning, Places, SettledTo
  <2>11. ASSUME NEW w \in Workers PROVE LeaseInv(w)'
    BY <1>t, <2>b, ItemsAre, WorkerItemsAre DEF LeaseInv, Caller, Active, Used, Fresh, Loose,
         Attached, Unwinding, Waiting, Owning, Places, SettledTo
  <2>12. ASSUME NEW w \in Workers PROVE EmptyInv(w)'
    BY <1>t, <2>b, ItemsAre, WorkerItemsAre DEF EmptyInv, Abandoned, Still, Clear, Loose, Attached,
         Unwinding, Waiting, Owning, Places, SettledTo
  <2>13. LeftInv'
    <3>1. \A i \in Left : disk'[i] # "gone" => disk[i] # "gone"
      BY <2>b, LeftAre DEF SettledTo, Loose
    <3>2. Holds' <=> Holds
      BY <2>b DEF Holds, Caller
    <3>3. (host.dirs = 0 => Nothing)' <=> (host.dirs = 0 => Nothing)
      BY <2>b DEF Nothing
    <3> QED
      BY <3>1, <3>2, <3>3 DEF LeftInv
  <2> QED
    BY <2>1, <2>2, <2>3, <2>4, <2>5, <2>6, <2>7, <2>8, <2>9, <2>10, <2>11, <2>12, <2>13
<1>15. CASE SetupRollback
  <2>b. /\ In("setup", {"rollback"})
        /\ host' = host
        /\ mount' = mount
        /\ disk' = disk
        /\ Frame
        /\ Counts
        /\ \/ svc.bad = "nil" /\ (Returns("nil") \/ Returns("released"))
           \/ svc.bad # "nil" /\ svc.committed /\ Returns("released")
           \/ svc.bad # "nil" /\ Returns("uncertain")
           \/ svc.bad # "nil" /\ ~svc.committed /\ (Goes("unmake") \/ Goes("forget"))
    BY <1>15, <1>v, GotoDoes, ReturnDoes, CountDoes, Zenon DEF SetupRollback, At, Ats, SetupAts,
         Answers, In
  <2> USE DEF Counts, In, Busy, Frame, Driver, Counted, Goes, Works, SvcKeeps, Returns, Types, Ats,
         SetupAts, CommandAts
  <2>1. Types'
    BY <1>t, <2>b, ZenonT(60) DEF CallInv, Attached, Unwinding, Waiting, Owning, Places, Outcomes
  <2>2. CallInv'
    BY <1>t, <2>b DEF CallInv, Caller, Attached, Unwinding, Waiting, Owning, Places
  <2>3. MountInv'
    BY <1>t, <2>b DEF Caller, CallInv, MountInv, CommandInv, SetupInv, Attached, Unwinding,
         Waiting, Owning, Places, Nothing, Owned, OneRecord, OnAts, SetupOnAts
  <2>4. VolumeInv'
    BY <1>t, <2>b, ItemsAre, WorkerItemsAre DEF VolumeInv, Loose, Attached, Unwinding, Waiting,
         Owning, Places
  <2>5. SetupInv'
    BY <1>t, <2>b, ItemsAre, WorkerItemsAre DEF CallInv, SetupInv, VolumeInv, Loose, SetupOnAts,
         Waiting
  <2>6. CommandInv'
    BY <1>t, <2>b DEF CommandInv, Nothing, Owned, OneRecord, Attached, Unwinding, Waiting, Owning,
         Places
  <2>7. ResultInv'
    BY <1>t, <2>b DEF Whole, Unwritten, CallInv, CommandInv, ResultInv, SetupInv, Attached, Unwinding, Waiting,
         Owning, Places, Nothing, Owned, OneRecord, SetupOnAts
  <2>8. WholeInv'
    BY <1>t, <2>b DEF Bare, CallInv, CommandInv, SetupInv, WholeInv, Half, Attached, Unwinding, Waiting,
         Owning, Places, Nothing, Owned, OneRecord, SetupOnAts
  <2>9. DriverInv'
    BY <1>t, <2>b DEF Whole, CallInv, CommandInv, ResultInv, SetupInv, DriverInv, Removing, Caller,
         Attached, Unwinding, Waiting, Owning, Places, Nothing, Owned, OneRecord, SetupOnAts
  <2>10. OwnerIsProven'
    BY <1>t, <2>b DEF OwnerIsProven, Attached, Unwinding, Waiting, Owning, Places
  <2>11. ASSUME NEW w \in Workers PROVE LeaseInv(w)'
    BY <1>t, <2>b, ItemsAre, WorkerItemsAre DEF CallInv, MountInv, VolumeInv, DriverInv, LeaseInv,
         Caller, Attached, Unwinding, Waiting, Owning, Places, Loose, Fresh, Active, Used, OnAts,
         SetupOnAts
  <2>12. ASSUME NEW w \in Workers PROVE EmptyInv(w)'
    BY <1>t, <2>b, ItemsAre, WorkerItemsAre DEF EmptyInv, Abandoned, Still, Clear, Loose, Attached,
         Unwinding, Waiting, Owning, Places
  <2>13. LeftInv'
    BY <1>t, <2>b, <2>1, LeftAre, ItemsAre, WorkerItemsAre DEF LeftInv, Holds, CallInv, MountInv, VolumeInv, SetupInv,
         CommandInv, ResultInv, DriverInv, LeaseInv, Caller, Attached, Unwinding, Waiting, Owning, Places, Nothing, Owned,
         OneRecord, OnAts, SetupOnAts, Loose, Active, Fresh
  <2> QED
    BY <2>1, <2>2, <2>3, <2>4, <2>5, <2>6, <2>7, <2>8, <2>9, <2>10, <2>11, <2>12, <2>13
<1>16. CASE SetupUnmake
  <2>b. /\ In("setup", {"unmake"})
        /\ mount' = mount
        /\ Frame
        /\ Counts
        /\ \/ Unmade /\ EmptiedTo /\ Goes("forget")
           \/ host' = host /\ disk' = disk /\ Returns("uncertain")
    BY <1>16, <1>v, GotoDoes, ReturnDoes, HostDoes, EmptyDoes, CountDoes, Zenon DEF SetupUnmake,
         At, Ats, SetupAts, Answers, In
  <2> USE DEF Counts, In, Busy, Frame, Driver, Counted, Goes, Works, SvcKeeps, Returns, Unmade,
         Types, Ats, SetupAts, CommandAts
  <2>1. Types'
    BY <1>t, <2>b, ZenonT(60) DEF CallInv, Attached, Unwinding, Waiting, Owning, Places, EmptiedTo, Outcomes
  <2>2. CallInv'
    BY <1>t, <2>b DEF CallInv, Caller, Attached, Unwinding, Waiting, Owning, Places
  <2>3. MountInv'
    BY <1>t, <2>b DEF Caller, CallInv, MountInv, CommandInv, SetupInv, Attached, Unwinding,
         Waiting, Owning, Places, Nothing, Owned, OneRecord, OnAts, SetupOnAts
  <2>4. VolumeInv'
    BY <1>t, <2>b, ItemsAre, WorkerItemsAre DEF VolumeInv, Loose, Attached, Unwinding, Waiting,
         Owning, Places, EmptiedTo
  <2>5. SetupInv'
    BY <1>t, <2>b, ItemsAre, WorkerItemsAre DEF SetupInv, Attached, Unwinding, Waiting, Owning,
         Places, SetupOnAts, EmptiedTo
  <2>6. CommandInv'
    BY <1>t, <2>b, ItemsAre, WorkerItemsAre DEF CommandInv, Nothing, Owned, OneRecord, Attached,
         Unwinding, Waiting, Owning, Places, EmptiedTo
  <2>7. ResultInv'
    BY <1>t, <2>b DEF Whole, Unwritten, ResultInv, Nothing, Owned, Attached, Unwinding, Waiting, Owning, Places
  <2>8. WholeInv'
    BY <1>t, <2>b DEF Bare, WholeInv, Half, Owned, Attached, Unwinding, Waiting, Owning, Places
  <2>9. DriverInv'
    BY <1>t, <2>b DEF Whole, CallInv, CommandInv, ResultInv, SetupInv, DriverInv, Removing, Caller,
         Attached, Unwinding, Waiting, Owning, Places, Nothing, Owned, OneRecord, SetupOnAts
  <2>10. OwnerIsProven'
    BY <1>t, <2>b, ItemsAre, WorkerItemsAre DEF OwnerIsProven, Attached, Unwinding, Waiting,
         Owning, Places, EmptiedTo
  <2>11. ASSUME NEW w \in Workers PROVE LeaseInv(w)'
    BY <1>t, <2>b, ItemsAre, WorkerItemsAre DEF CallInv, MountInv, VolumeInv, DriverInv, LeaseInv,
         Caller, Attached, Unwinding, Waiting, Owning, Places, EmptiedTo, Loose, Fresh, Active,
         Used, OnAts, SetupOnAts
  <2>12. ASSUME NEW w \in Workers PROVE EmptyInv(w)'
    BY <1>t, <2>b, ItemsAre, WorkerItemsAre DEF EmptyInv, Abandoned, Still, Clear, Loose, Attached,
         Unwinding, Waiting, Owning, Places, EmptiedTo
  <2>13. LeftInv'
    BY <1>t, <2>b, <2>1, LeftAre, ItemsAre, WorkerItemsAre DEF LeftInv, Holds, CallInv, MountInv, VolumeInv, SetupInv,
         CommandInv, ResultInv, DriverInv, LeaseInv, Caller, Attached, Unwinding, Waiting, Owning, Places, Nothing, Owned,
         OneRecord, OnAts, SetupOnAts, Loose, Active, Fresh, EmptiedTo
  <2> QED
    BY <2>1, <2>2, <2>3, <2>4, <2>5, <2>6, <2>7, <2>8, <2>9, <2>10, <2>11, <2>12, <2>13
<1>17. CASE SetupForget
  <2>b. /\ In("setup", {"forget"})
        /\ mount' = mount
        /\ disk' = disk
        /\ Frame
        /\ Counts
        /\ \/ Pending("none") /\ Goes("dirs")
           \/ host' = host /\ Returns("uncertain")
    BY <1>17, <1>v, GotoDoes, ReturnDoes, HostDoes, CountDoes, Zenon DEF SetupForget, At, Ats,
         SetupAts, Answers, In
  <2> USE DEF Counts, In, Busy, Frame, Driver, Counted, Goes, Works, SvcKeeps, Returns, Pending,
         Types, Ats, SetupAts, CommandAts
  <2>1. Types'
    BY <1>t, <2>b DEF CallInv, Attached, Unwinding, Waiting, Owning, Places, Outcomes
  <2>2. CallInv'
    BY <1>t, <2>b DEF CallInv, Caller, Attached, Unwinding, Waiting, Owning, Places
  <2>3. MountInv'
    BY <1>t, <2>b DEF Caller, CallInv, MountInv, CommandInv, SetupInv, Attached, Unwinding,
         Waiting, Owning, Places, Nothing, Owned, OneRecord, OnAts, SetupOnAts
  <2>4. VolumeInv'
    BY <1>t, <2>b, ItemsAre, WorkerItemsAre DEF VolumeInv, Loose, Attached, Unwinding, Waiting,
         Owning, Places
  <2>5. SetupInv'
    BY <1>t, <2>b DEF SetupInv, Attached, Unwinding, Waiting, Owning, Places, SetupOnAts
  <2>6. CommandInv'
    BY <1>t, <2>b DEF CommandInv, Nothing, Owned, OneRecord, Attached, Unwinding, Waiting, Owning,
         Places
  <2>7. ResultInv'
    BY <1>t, <2>b DEF Whole, Unwritten, ResultInv, Nothing, Owned, Attached, Unwinding, Waiting, Owning, Places
  <2>8. WholeInv'
    BY <1>t, <2>b DEF Bare, WholeInv, Half, Owned, Attached, Unwinding, Waiting, Owning, Places
  <2>9. DriverInv'
    BY <1>t, <2>b DEF Whole, CallInv, CommandInv, ResultInv, SetupInv, DriverInv, Removing, Caller,
         Attached, Unwinding, Waiting, Owning, Places, Nothing, Owned, OneRecord, SetupOnAts
  <2>10. OwnerIsProven'
    BY <1>t, <2>b DEF OwnerIsProven, Attached, Unwinding, Waiting, Owning, Places
  <2>11. ASSUME NEW w \in Workers PROVE LeaseInv(w)'
    BY <1>t, <2>b, ItemsAre, WorkerItemsAre DEF CallInv, MountInv, VolumeInv, DriverInv, LeaseInv,
         Caller, Attached, Unwinding, Waiting, Owning, Places, Loose, Fresh, Active, Used, OnAts,
         SetupOnAts
  <2>12. ASSUME NEW w \in Workers PROVE EmptyInv(w)'
    BY <1>t, <2>b, ItemsAre, WorkerItemsAre DEF EmptyInv, Abandoned, Still, Clear, Loose, Attached,
         Unwinding, Waiting, Owning, Places
  <2>13. LeftInv'
    BY <1>t, <2>b, <2>1, LeftAre, ItemsAre, WorkerItemsAre DEF LeftInv, Holds, CallInv, MountInv, VolumeInv, SetupInv,
         CommandInv, ResultInv, DriverInv, LeaseInv, Caller, Attached, Unwinding, Waiting, Owning, Places, Nothing, Owned,
         OneRecord, OnAts, SetupOnAts, Loose, Active, Fresh
  <2> QED
    BY <2>1, <2>2, <2>3, <2>4, <2>5, <2>6, <2>7, <2>8, <2>9, <2>10, <2>11, <2>12, <2>13
<1>18. CASE SetupDirs
  <2>b. /\ In("setup", {"dirs"})
        /\ mount' = mount
        /\ disk' = disk
        /\ Frame
        /\ Counts
        /\ \/ host.pending = "none" /\ ~host.owner /\ ~host.vhdx /\ Dirs(0) /\ Returns("released")
           \/ (host' = host \/ Dirs(1)) /\ Returns("uncertain")
    <3>1. In("setup", {"dirs"}) /\ mount' = mount /\ disk' = disk /\ Frame /\ Counts
      BY <1>18, <1>v, CountDoes, Zenon DEF SetupDirs, At, In
    <3>2. host' = RemoveDirs(host) => \/ host.pending = "none" /\ ~host.owner /\ ~host.vhdx /\ Dirs(0)
                                      \/ ~(host.pending = "none" /\ ~host.owner /\ ~host.vhdx) /\ Dirs(1)
      <4>1. CASE host.pending = "none" /\ ~host.owner /\ ~host.vhdx
        <5>1. RemoveDirs(host) = [host EXCEPT !.dirs = 0]
          BY <4>1 DEF RemoveDirs
        <5> QED
          BY <1>v, <4>1, <5>1, HostDoes, Zenon
      <4>2. CASE ~(host.pending = "none" /\ ~host.owner /\ ~host.vhdx)
        <5>1. RemoveDirs(host) = [host EXCEPT !.dirs = 1]
          BY <4>2 DEF RemoveDirs
        <5> QED
          BY <1>v, <4>2, <5>1, HostDoes, Zenon
      <4> QED
        BY <4>1, <4>2
    <3>3. CASE NoFault /\ host' = RemoveDirs(host) /\ Return(IF host'.dirs = 0 THEN "released" ELSE "uncertain")
      <4>1. CASE host.pending = "none" /\ ~host.owner /\ ~host.vhdx
        <5>1. Dirs(0) /\ host'.dirs = 0
          BY <3>2, <3>3, <4>1, Zenon DEF Dirs
        <5>2. Return("released")
          BY <3>3, <5>1, Zenon
        <5> QED
          BY <1>v, <3>1, <4>1, <5>1, <5>2, ReturnDoes, Zenon DEF Answers
      <4>2. CASE ~(host.pending = "none" /\ ~host.owner /\ ~host.vhdx)
        <5>1. Dirs(1) /\ host'.dirs = 1
          BY <3>2, <3>3, <4>2, Zenon DEF Dirs
        <5>2. Return("uncertain")
          BY <3>3, <5>1
        <5> QED
          BY <1>v, <3>1, <5>1, <5>2, ReturnDoes, Zenon DEF Answers
      <4> QED
        BY <4>1, <4>2
    <3>4. CASE Fault /\ host' \in {host, [host EXCEPT !.dirs = 1]} /\ Return("uncertain")
      BY <1>v, <3>1, <3>4, HostDoes, ReturnDoes, Zenon DEF Answers
    <3> QED
      BY <1>18, <3>3, <3>4 DEF SetupDirs
  <2> USE DEF Counts, In, Busy, Frame, Driver, Counted, SvcKeeps, Returns, Dirs, Types, Ats,
         SetupAts, CommandAts
  <2>1. Types'
    BY <1>t, <2>b, ZenonT(60) DEF CallInv, Attached, Unwinding, Waiting, Owning, Places, Outcomes
  <2>2. CallInv'
    BY <1>t, <2>b DEF CallInv, Caller, Attached, Unwinding, Waiting, Owning, Places
  <2>3. MountInv'
    BY <1>t, <2>b DEF Caller, CallInv, MountInv, CommandInv, SetupInv, Attached, Unwinding,
         Waiting, Owning, Places, Nothing, Owned, OneRecord, OnAts, SetupOnAts
  <2>4. VolumeInv'
    BY <1>t, <2>b, ItemsAre, WorkerItemsAre DEF VolumeInv, Loose, Attached, Unwinding, Waiting,
         Owning, Places
  <2>5. SetupInv'
    BY <1>t, <2>b DEF SetupInv, Attached, Unwinding, Waiting, Owning, Places, SetupOnAts
  <2>6. CommandInv'
    BY <1>t, <2>b DEF CommandInv, Nothing, Owned, OneRecord, Attached, Unwinding, Waiting, Owning,
         Places
  <2>7. ResultInv'
    BY <1>t, <2>b DEF Whole, Unwritten, ResultInv, Nothing, Owned, Attached, Unwinding, Waiting, Owning, Places
  <2>8. WholeInv'
    BY <1>t, <2>b DEF Bare, WholeInv, Half, Owned, Attached, Unwinding, Waiting, Owning, Places
  <2>9. DriverInv'
    BY <1>t, <2>b DEF Whole, CallInv, CommandInv, ResultInv, SetupInv, DriverInv, Removing, Caller,
         Attached, Unwinding, Waiting, Owning, Places, Nothing, Owned, OneRecord, SetupOnAts
  <2>10. OwnerIsProven'
    BY <1>t, <2>b DEF OwnerIsProven, Attached, Unwinding, Waiting, Owning, Places
  <2>11. ASSUME NEW w \in Workers PROVE LeaseInv(w)'
    BY <1>t, <2>b, ItemsAre, WorkerItemsAre DEF CallInv, MountInv, VolumeInv, DriverInv, LeaseInv,
         Caller, Attached, Unwinding, Waiting, Owning, Places, Loose, Fresh, Active, Used, OnAts,
         SetupOnAts
  <2>12. ASSUME NEW w \in Workers PROVE EmptyInv(w)'
    BY <1>t, <2>b, ItemsAre, WorkerItemsAre DEF EmptyInv, Abandoned, Still, Clear, Loose, Attached,
         Unwinding, Waiting, Owning, Places
  <2>13. LeftInv'
    BY <1>t, <2>b, <2>1, LeftAre, ItemsAre, WorkerItemsAre DEF LeftInv, Holds, CallInv, MountInv, VolumeInv, SetupInv,
         CommandInv, ResultInv, DriverInv, LeaseInv, Caller, Attached, Unwinding, Waiting, Owning, Places, Nothing, Owned,
         OneRecord, OnAts, SetupOnAts, Loose, Active, Fresh
  <2> QED
    BY <2>1, <2>2, <2>3, <2>4, <2>5, <2>6, <2>7, <2>8, <2>9, <2>10, <2>11, <2>12, <2>13
<1> QED
  BY <1>1, <1>2, <1>3, <1>4, <1>5, <1>6, <1>7, <1>8, <1>9, <1>10, <1>11, <1>12, <1>13, <1>14,
         <1>15, <1>16, <1>17, <1>18 DEF SetupStep

\* ... so does every step of a command on a pool that exists ...
LEMMA CommandStepKeepsInv == ASSUME PoolInv, CommandStep PROVE PoolInv'
<1> USE DEF PoolInv
<1>t. Types BY DEF PoolInv
<1>v. /\ svc \in Services /\ told \in BOOLEAN /\ host \in Hosts /\ disk \in [Items -> States]
      /\ faults \in 0 .. MaxFaults /\ drv \in Drivers /\ rec \in Receipts /\ diag \in 0 .. N
  BY <1>t DEF Types
<1>1. CASE CommandCheck
  <2>b. /\ On("check")
        /\ host' = host
        /\ mount' = mount
        /\ disk' = disk
        /\ Frame
        /\ Counts
        /\ \/ svc.op # "incomplete" /\ Owned /\ svc.op = "corrupt" /\ Goes("receipt")
           \/ svc.op # "incomplete" /\ Owned /\ svc.op # "corrupt" /\ Goes("mount")
           \/ svc.op = "incomplete" /\ OneRecord /\ Goes("mount")
           \/ Returns("bare")
    BY <1>1, <1>v, GotoDoes, ReturnDoes, RecordsAre, CountDoes, Zenon DEF CommandCheck, At, Ats,
         SetupAts, CommandAts, Answers, On, Attaching, Accepts
  <2> USE DEF Counts, In, On, Busy, Frame, Driver, Counted, Goes, Works, SvcKeeps, Returns, Types,
         Ats, SetupAts, CommandAts
  <2>1. Types'
    BY <1>t, <2>b DEF CallInv, Attached, Unwinding, Waiting, Owning, Places, Outcomes
  <2>2. CallInv'
    BY <1>t, <2>b DEF CallInv, Caller, Owned, OneRecord, Attached, Unwinding, Waiting, Owning,
         Places
  <2>3. MountInv'
    BY <1>t, <2>b DEF Caller, CallInv, MountInv, CommandInv, SetupInv, Attached, Unwinding,
         Waiting, Owning, Places, Nothing, Owned, OneRecord, OnAts, SetupOnAts
  <2>4. VolumeInv'
    BY <1>t, <2>b, ItemsAre, WorkerItemsAre DEF VolumeInv, Owned, OneRecord, Loose, Attached,
         Unwinding, Waiting, Owning, Places
  <2>5. SetupInv'
    BY <1>t, <2>b DEF SetupInv, Owned, OneRecord, Attached, Unwinding, Waiting, Owning, Places,
         SetupOnAts
  <2>6. CommandInv'
    BY <1>t, <2>b, ItemsAre, WorkerItemsAre DEF CallInv, CommandInv, OwnerIsProven, Attached,
         Unwinding, Waiting, Owning, Places, Nothing, Owned, OneRecord
  <2>7. ResultInv'
    BY <1>t, <2>b DEF Whole, Unwritten, ResultInv, Nothing, Owned, OneRecord, Attached, Unwinding, Waiting, Owning,
         Places
  <2>8. WholeInv'
    BY <1>t, <2>b DEF Bare, WholeInv, Half, Owned, OneRecord, Attached, Unwinding, Waiting, Owning, Places
  <2>9. DriverInv'
    BY <1>t, <2>b DEF Whole, CallInv, CommandInv, ResultInv, SetupInv, DriverInv, Removing, Caller,
         Attached, Unwinding, Waiting, Owning, Places, Nothing, Owned, OneRecord, SetupOnAts
  <2>10. OwnerIsProven'
    BY <1>t, <2>b DEF OwnerIsProven, Owned, OneRecord, Attached, Unwinding, Waiting, Owning, Places
  <2>11. ASSUME NEW w \in Workers PROVE LeaseInv(w)'
    BY <1>t, <2>b, ItemsAre, WorkerItemsAre DEF CallInv, MountInv, VolumeInv, DriverInv, LeaseInv,
         Caller, Attached, Unwinding, Waiting, Owning, Places, Loose, Fresh, Active, Used, OnAts,
         SetupOnAts
  <2>12. ASSUME NEW w \in Workers PROVE EmptyInv(w)'
    BY <1>t, <2>b, ItemsAre, WorkerItemsAre DEF EmptyInv, Owned, OneRecord, Abandoned, Still,
         Clear, Loose, Attached, Unwinding, Waiting, Owning, Places
  <2>13. LeftInv'
    BY <1>t, <2>b, <2>1, LeftAre, ItemsAre, WorkerItemsAre DEF LeftInv, Holds, CallInv, MountInv, VolumeInv, SetupInv,
         CommandInv, ResultInv, DriverInv, LeaseInv, Caller, Attached, Unwinding, Waiting, Owning, Places, Nothing, Owned,
         OneRecord, OnAts, SetupOnAts, Loose, Active, Fresh
  <2> QED
    BY <2>1, <2>2, <2>3, <2>4, <2>5, <2>6, <2>7, <2>8, <2>9, <2>10, <2>11, <2>12, <2>13
<1>2. CASE CommandMount
  <2>b. /\ On("mount")
        /\ host' = host
        /\ disk' = disk
        /\ Frame
        /\ Counts
        /\ \/ mount = "no" /\ mount' = "on" /\ Goes("read")
           \/ mount = "no" /\ mount' = "no" /\ Returns("preserved")
           \/ mount = "no" /\ mount' = "stuck" /\ (Returns("preserved") \/ Returns("uncertain"))
           \/ mount # "no" /\ mount' = mount /\ (Returns("preserved") \/ Returns("uncertain"))
    BY <1>2, <1>v, GotoDoes, ReturnDoes, CountDoes, Zenon DEF CommandMount, At, Ats, SetupAts,
         CommandAts, Answers, On, Attaching
  <2> USE DEF Counts, In, On, Busy, Frame, Driver, Counted, Goes, Works, SvcKeeps, Returns, Types,
         Ats, SetupAts, CommandAts
  <2>1. Types'
    BY <1>t, <2>b DEF CallInv, Attached, Unwinding, Waiting, Owning, Places, Outcomes
  <2>2. CallInv'
    BY <1>t, <2>b DEF CallInv, Caller, Attached, Unwinding, Waiting, Owning, Places
  <2>3. MountInv'
    BY <1>t, <2>b DEF Caller, CallInv, MountInv, CommandInv, SetupInv, Attached, Unwinding,
         Waiting, Owning, Places, Nothing, Owned, OneRecord, OnAts, SetupOnAts
  <2>4. VolumeInv'
    BY <1>t, <2>b, ItemsAre, WorkerItemsAre DEF VolumeInv, Loose, Attached, Unwinding, Waiting,
         Owning, Places
  <2>5. SetupInv'
    BY <1>t, <2>b DEF SetupInv, Attached, Unwinding, Waiting, Owning, Places, SetupOnAts
  <2>6. CommandInv'
    BY <1>t, <2>b, ItemsAre, WorkerItemsAre DEF CallInv, CommandInv, OwnerIsProven, Attached,
         Unwinding, Waiting, Owning, Places, Nothing, Owned, OneRecord
  <2>7. ResultInv'
    BY <1>t, <2>b DEF Whole, Unwritten, CallInv, CommandInv, ResultInv, SetupInv, Attached, Unwinding, Waiting,
         Owning, Places, Nothing, Owned, OneRecord, SetupOnAts
  <2>8. WholeInv'
    BY <1>t, <2>b DEF Bare, WholeInv, Half, Owned, Attached, Unwinding, Waiting, Owning, Places
  <2>9. DriverInv'
    BY <1>t, <2>b DEF Whole, CallInv, CommandInv, ResultInv, SetupInv, DriverInv, Removing, Caller,
         Attached, Unwinding, Waiting, Owning, Places, Nothing, Owned, OneRecord, SetupOnAts
  <2>10. OwnerIsProven'
    BY <1>t, <2>b DEF OwnerIsProven, Attached, Unwinding, Waiting, Owning, Places
  <2>11. ASSUME NEW w \in Workers PROVE LeaseInv(w)'
    BY <1>t, <2>b, ItemsAre, WorkerItemsAre DEF CallInv, MountInv, VolumeInv, DriverInv, LeaseInv,
         Caller, Attached, Unwinding, Waiting, Owning, Places, Loose, Fresh, Active, Used, OnAts,
         SetupOnAts
  <2>12. ASSUME NEW w \in Workers PROVE EmptyInv(w)'
    BY <1>t, <2>b, ItemsAre, WorkerItemsAre DEF CallInv, MountInv, VolumeInv, DriverInv, LeaseInv,
         EmptyInv, Caller, Attached, Unwinding, Waiting, Owning, Places, Loose, Fresh, Still,
         Clear, Abandoned, Active, Used, OnAts, SetupOnAts
  <2>13. LeftInv'
    BY <1>t, <2>b, <2>1, LeftAre, ItemsAre, WorkerItemsAre DEF LeftInv, Holds, CallInv, MountInv, VolumeInv, SetupInv,
         CommandInv, ResultInv, DriverInv, LeaseInv, Caller, Attached, Unwinding, Waiting, Owning, Places, Nothing, Owned,
         OneRecord, OnAts, SetupOnAts, Loose, Active, Fresh
  <2> QED
    BY <2>1, <2>2, <2>3, <2>4, <2>5, <2>6, <2>7, <2>8, <2>9, <2>10, <2>11, <2>12, <2>13
<1>3. CASE CommandRead
  <2>b. /\ On("read")
        /\ host' = host
        /\ mount' = mount
        /\ disk' = disk
        /\ Frame
        /\ Counts
        /\ \/ svc.op = "session" /\ Returns("nil")
           \/ svc.op = "incomplete" /\ disk[PoolFile] = "gone" /\ Goes("close")
           \/ svc.op = "probe" /\ Goes("clone")
           \/ svc.op \in {"marker", "corrupt"} /\ Goes("shape")
           \/ svc.op \in {"status", "remove", "diagnose"} /\ Goes("measure")
           \/ Errs("preserved")
    <3>1. svc.op = "incomplete" /\ Readable => disk[PoolFile] = "gone"
      BY <1>v, ItemsAre DEF Readable, Unfinished, Visible, VolumeInv, States
    <3> QED
      BY <1>3, <1>v, <3>1, GotoDoes, ReturnDoes, FailDoes, CountDoes, Zenon
      DEF CommandRead, At, On, Attaching, Ats, SetupAts, CommandAts, Answers
  <2> USE DEF Counts, In, On, Busy, Frame, Driver, Counted, Goes, Works, SvcKeeps, Returns, Errs,
         Types, Ats, SetupAts, CommandAts
  <2>1. Types'
    BY <1>t, <2>b DEF CallInv, Attached, Unwinding, Waiting, Owning, Places, Outcomes
  <2>2. CallInv'
    BY <1>t, <2>b DEF CallInv, Caller, Attached, Unwinding, Waiting, Owning, Places
  <2>3. MountInv'
    BY <1>t, <2>b DEF Caller, CallInv, MountInv, CommandInv, SetupInv, Attached, Unwinding,
         Waiting, Owning, Places, Nothing, Owned, OneRecord, OnAts, SetupOnAts
  <2>4. VolumeInv'
    BY <1>t, <2>b, ItemsAre, WorkerItemsAre DEF VolumeInv, Loose, Attached, Unwinding, Waiting,
         Owning, Places
  <2>5. SetupInv'
    BY <1>t, <2>b DEF SetupInv, Attached, Unwinding, Waiting, Owning, Places, SetupOnAts
  <2>6. CommandInv'
    BY <1>t, <2>b, ItemsAre, WorkerItemsAre DEF CallInv, CommandInv, OwnerIsProven, Attached,
         Unwinding, Waiting, Owning, Places, Nothing, Owned, OneRecord
  <2>7. ResultInv'
    BY <1>t, <2>b DEF Whole, Unwritten, ResultInv, Nothing, Owned, Attached, Unwinding, Waiting, Owning, Places
  <2>8. WholeInv'
    BY <1>t, <2>b DEF Bare, WholeInv, Half, Owned, Attached, Unwinding, Waiting, Owning, Places
  <2>9. DriverInv'
    BY <1>t, <2>b DEF Whole, CallInv, CommandInv, ResultInv, SetupInv, DriverInv, Removing, Caller,
         Attached, Unwinding, Waiting, Owning, Places, Nothing, Owned, OneRecord, SetupOnAts
  <2>10. OwnerIsProven'
    BY <1>t, <2>b DEF OwnerIsProven, Attached, Unwinding, Waiting, Owning, Places
  <2>11. ASSUME NEW w \in Workers PROVE LeaseInv(w)'
    BY <1>t, <2>b, ItemsAre, WorkerItemsAre DEF CallInv, MountInv, VolumeInv, DriverInv, LeaseInv,
         Caller, Attached, Unwinding, Waiting, Owning, Places, Loose, Fresh, Active, Used, OnAts,
         SetupOnAts
  <2>12. ASSUME NEW w \in Workers PROVE EmptyInv(w)'
    BY <1>t, <2>b, ItemsAre, WorkerItemsAre DEF EmptyInv, Abandoned, Still, Clear, Loose, Attached,
         Unwinding, Waiting, Owning, Places
  <2>13. LeftInv'
    BY <1>t, <2>b, <2>1, LeftAre, ItemsAre, WorkerItemsAre DEF LeftInv, Holds, CallInv, MountInv, VolumeInv, SetupInv,
         CommandInv, ResultInv, DriverInv, LeaseInv, Caller, Attached, Unwinding, Waiting, Owning, Places, Nothing, Owned,
         OneRecord, OnAts, SetupOnAts, Loose, Active, Fresh
  <2> QED
    BY <2>1, <2>2, <2>3, <2>4, <2>5, <2>6, <2>7, <2>8, <2>9, <2>10, <2>11, <2>12, <2>13
<1>4. CASE Unwind
  <2>b. /\ On("unwind")
        /\ host' = host
        /\ SettledTo
        /\ Frame
        /\ Counts
        /\ \/ mount' = "no" /\ Returns(svc.bad)
           \/ mount' \in {"no", "stuck"} /\ Returns("uncertain")
    <3>1. svc.bad \in Answers
      BY <1>4 DEF Unwind, At, Attaching, CommandInv, Busy, Answers
    <3> QED
      BY <1>4, <1>v, <3>1, ReturnDoes, SettledDoes, CountDoes, Zenon
      DEF Unwind, At, On, Attaching, CloseVolume, CloseFails, Answers
  <2> USE DEF Counts, In, On, Busy, Frame, Driver, Counted, SvcKeeps, Returns, Types, Ats,
         SetupAts, CommandAts
  <2>1. Types'
    BY <1>t, <2>b DEF CallInv, Attached, Unwinding, Waiting, Owning, Places, SettledTo, Outcomes
  <2>2. CallInv'
    BY <1>t, <2>b DEF CallInv, Caller, Loose, Attached, Unwinding, Waiting, Owning, Places
  <2>3. MountInv'
    BY <1>t, <2>b DEF Caller, CallInv, MountInv, CommandInv, SetupInv, Attached, Unwinding,
         Waiting, Owning, Places, Nothing, Owned, OneRecord, OnAts, SetupOnAts
  <2>4. VolumeInv'
    BY <1>t, <2>b, ItemsAre, WorkerItemsAre DEF VolumeInv, Loose, Attached, Unwinding, Waiting,
         Owning, Places, SettledTo
  <2>5. SetupInv'
    BY <1>t, <2>b, ItemsAre, WorkerItemsAre DEF SetupInv, Loose, Attached, Unwinding, Waiting,
         Owning, Places, SetupOnAts, SettledTo
  <2>6. CommandInv'
    BY <1>t, <2>b, ItemsAre, WorkerItemsAre DEF CallInv, CommandInv, OwnerIsProven, Attached,
         Unwinding, Waiting, Owning, Places, SettledTo, Loose, Nothing, Owned, OneRecord
  <2>7. ResultInv'
    BY <1>t, <2>b DEF Whole, Unwritten, CallInv, CommandInv, ResultInv, SetupInv, Attached, Unwinding, Waiting,
         Owning, Places, Nothing, Owned, OneRecord, SetupOnAts
  <2>8. WholeInv'
    BY <1>t, <2>b DEF Bare, WholeInv, Half, Owned, Loose, Attached, Unwinding, Waiting, Owning, Places
  <2>9. DriverInv'
    BY <1>t, <2>b DEF Whole, CallInv, CommandInv, ResultInv, SetupInv, DriverInv, Removing, Caller,
         Attached, Unwinding, Waiting, Owning, Places, Nothing, Owned, OneRecord, SetupOnAts
  <2>10. OwnerIsProven'
    BY <1>t, <2>b, ItemsAre, WorkerItemsAre DEF OwnerIsProven, Loose, Attached, Unwinding, Waiting,
         Owning, Places, SettledTo
  <2>11. ASSUME NEW w \in Workers PROVE LeaseInv(w)'
    BY <1>t, <2>b, ItemsAre, WorkerItemsAre DEF CallInv, MountInv, VolumeInv, DriverInv, LeaseInv,
         Caller, Attached, Unwinding, Waiting, Owning, Places, SettledTo, Loose, Fresh, Active,
         Used, OnAts, SetupOnAts
  <2>12. ASSUME NEW w \in Workers PROVE EmptyInv(w)'
    BY <1>t, <2>b, ItemsAre, WorkerItemsAre DEF EmptyInv, Abandoned, Still, Clear, Loose, Attached,
         Unwinding, Waiting, Owning, Places, SettledTo
  <2>13. LeftInv'
    BY <1>t, <2>b, <2>1, LeftAre, ItemsAre, WorkerItemsAre DEF LeftInv, Holds, CallInv, MountInv, VolumeInv, SetupInv,
         CommandInv, ResultInv, DriverInv, LeaseInv, Caller, Attached, Unwinding, Waiting, Owning, Places, Nothing, Owned,
         OneRecord, OnAts, SetupOnAts, Loose, Active, Fresh, SettledTo
  <2> QED
    BY <2>1, <2>2, <2>3, <2>4, <2>5, <2>6, <2>7, <2>8, <2>9, <2>10, <2>11, <2>12, <2>13
<1>5. CASE ProbeClone
  <2>b. /\ In("probe", {"clone"})
        /\ host' = host
        /\ mount' = mount
        /\ Frame
        /\ Counts
        /\ ProbedTo
        /\ Goes("measure") \/ Errs("preserved") \/ Errs("failed")
    <3>1. ProbedTo
      BY <1>5, <1>v, ProbeDoes DEF ProbeClone
    <3> QED
      BY <1>5, <1>v, <3>1, GotoDoes, FailDoes, CountDoes, Zenon DEF ProbeClone, At, Ats, SetupAts,
           CommandAts, Answers, In
  <2> USE DEF Counts, In, Busy, Frame, Driver, Counted, Goes, Works, SvcKeeps, Errs, Types, Ats,
         SetupAts, CommandAts
  <2>1. Types'
    BY <1>t, <2>b DEF Places, Outcomes, ProbedTo
  <2>2. CallInv'
    BY <1>t, <2>b DEF CallInv, Caller, Attached, Unwinding, Waiting, Owning, Places
  <2>3. MountInv'
    BY <1>t, <2>b DEF MountInv, Attached, Unwinding, Waiting, Owning, Places, OnAts, SetupOnAts
  <2>4. VolumeInv'
    BY <1>t, <2>b, ItemsAre, WorkerItemsAre DEF VolumeInv, MountInv, ProbedTo, Loose, OnAts, SetupOnAts
  <2>5. SetupInv'
    BY <1>t, <2>b, ItemsAre, WorkerItemsAre DEF SetupInv, Attached, Unwinding, Waiting, Owning,
         Places, SetupOnAts, ProbedTo
  <2>6. CommandInv'
    BY <1>t, <2>b, ItemsAre, WorkerItemsAre DEF CommandInv, Nothing, Owned, OneRecord, Attached,
         Unwinding, Waiting, Owning, Places, ProbedTo
  <2>7. ResultInv'
    BY <1>t, <2>b DEF Whole, Unwritten, ResultInv, Nothing, Owned, Attached, Unwinding, Waiting, Owning, Places
  <2>8. WholeInv'
    BY <1>t, <2>b DEF Bare, WholeInv, Half, Owned, Attached, Unwinding, Waiting, Owning, Places
  <2>9. DriverInv'
    BY <1>t, <2>b DEF Whole, DriverInv, Caller, Removing, Nothing, Owned, Attached, Unwinding, Waiting,
         Owning, Places
  <2>10. OwnerIsProven'
    BY <1>t, <2>b, ItemsAre, WorkerItemsAre DEF OwnerIsProven, Attached, Unwinding, Waiting,
         Owning, Places, ProbedTo
  <2>11. ASSUME NEW w \in Workers PROVE LeaseInv(w)'
    BY <1>t, <2>b, ItemsAre, WorkerItemsAre DEF LeaseInv, Caller, Active, Used, Fresh, Attached,
         Unwinding, Waiting, Owning, Places, ProbedTo
  <2>12. ASSUME NEW w \in Workers PROVE EmptyInv(w)'
    BY <1>t, <2>b, ItemsAre, WorkerItemsAre DEF EmptyInv, Abandoned, Still, Clear, Loose, Attached,
         Unwinding, Waiting, Owning, Places, ProbedTo
  <2>13. LeftInv'
    BY <1>t, <2>b, <2>1, LeftAre, ItemsAre, WorkerItemsAre DEF LeftInv, Holds, CallInv, MountInv, VolumeInv, SetupInv,
         CommandInv, ResultInv, DriverInv, LeaseInv, Caller, Attached, Unwinding, Waiting, Owning, Places, Nothing, Owned,
         OneRecord, OnAts, SetupOnAts, Loose, Active, Fresh, ProbedTo
  <2> QED
    BY <2>1, <2>2, <2>3, <2>4, <2>5, <2>6, <2>7, <2>8, <2>9, <2>10, <2>11, <2>12, <2>13
<1>6. CASE StatusMeasure
  <2>b. /\ On("measure") /\ svc.op \in {"status", "probe"}
        /\ host' = host
        /\ mount' = mount
        /\ disk' = disk
        /\ Frame
        /\ Counts
        /\ \/ svc.op = "probe" /\ Goes("flush")
           \/ svc.op = "status" /\ Goes("close")
           \/ Errs("preserved")
    <3>1. (Residual = {}) \in BOOLEAN
      OBVIOUS
    <3>2. CASE svc.op = "probe"
      BY <1>6, <1>v, <3>1, <3>2, MeasureDoes, FailDoes, CountDoes, Zenon
      DEF StatusMeasure, At, On, Ats, SetupAts, CommandAts, Answers
    <3>3. CASE svc.op = "status"
      BY <1>6, <1>v, <3>1, <3>3, MeasureDoes, FailDoes, CountDoes, Zenon
      DEF StatusMeasure, At, On, Ats, SetupAts, CommandAts, Answers
    <3> QED
      BY <1>6, <3>2, <3>3 DEF StatusMeasure, At
  <2> USE DEF Counts, In, On, Busy, Frame, Driver, Counted, Goes, Works, SvcKeeps, Errs, Types,
         Ats, SetupAts, CommandAts
  <2>1. Types'
    BY <1>t, <2>b DEF Places, Outcomes
  <2>2. CallInv'
    BY <1>t, <2>b DEF CallInv, Caller, Attached, Unwinding, Waiting, Owning, Places
  <2>3. MountInv'
    BY <1>t, <2>b DEF MountInv, Attached, Unwinding, Waiting, Owning, Places, OnAts, SetupOnAts
  <2>4. VolumeInv'
    BY <1>t, <2>b, ItemsAre, WorkerItemsAre DEF VolumeInv, Loose, Attached, Unwinding, Waiting,
         Owning, Places
  <2>5. SetupInv'
    BY <1>t, <2>b DEF SetupInv, Attached, Unwinding, Waiting, Owning, Places, SetupOnAts
  <2>6. CommandInv'
    BY <1>t, <2>b DEF CommandInv, Nothing, Owned, OneRecord, Attached, Unwinding, Waiting, Owning,
         Places
  <2>7. ResultInv'
    BY <1>t, <2>b DEF Whole, Unwritten, ResultInv, Nothing, Owned, Attached, Unwinding, Waiting, Owning, Places
  <2>8. WholeInv'
    BY <1>t, <2>b DEF Bare, WholeInv, Half, Owned, Attached, Unwinding, Waiting, Owning, Places
  <2>9. DriverInv'
    BY <1>t, <2>b DEF Whole, DriverInv, Caller, Removing, Nothing, Owned, Attached, Unwinding, Waiting,
         Owning, Places
  <2>10. OwnerIsProven'
    BY <1>t, <2>b DEF OwnerIsProven, Attached, Unwinding, Waiting, Owning, Places
  <2>11. ASSUME NEW w \in Workers PROVE LeaseInv(w)'
    BY <1>t, <2>b DEF LeaseInv, Caller, Active, Used, Fresh, Attached, Unwinding, Waiting, Owning,
         Places
  <2>12. ASSUME NEW w \in Workers PROVE EmptyInv(w)'
    BY <1>t, <2>b, ItemsAre, WorkerItemsAre DEF EmptyInv, Abandoned, Still, Clear, Loose, Attached,
         Unwinding, Waiting, Owning, Places
  <2>13. LeftInv'
    BY <1>t, <2>b, <2>1, LeftAre, ItemsAre, WorkerItemsAre DEF LeftInv, Holds, CallInv, MountInv, VolumeInv, SetupInv,
         CommandInv, ResultInv, DriverInv, LeaseInv, Caller, Attached, Unwinding, Waiting, Owning, Places, Nothing, Owned,
         OneRecord, OnAts, SetupOnAts, Loose, Active, Fresh
  <2> QED
    BY <2>1, <2>2, <2>3, <2>4, <2>5, <2>6, <2>7, <2>8, <2>9, <2>10, <2>11, <2>12, <2>13
<1>7. CASE RemoveMeasure
  <2>b. /\ In("remove", {"measure"})
        /\ host' = host
        /\ mount' = mount
        /\ disk' = disk
        /\ Frame
        /\ Counts
        /\ \/ Residual = {} /\ Goes("close")
           \/ Errs("preserved")
    BY <1>7, <1>v, GotoDoes, FailDoes, CountDoes, Zenon DEF RemoveMeasure, At, Ats, SetupAts,
         CommandAts, Answers, In
  <2> USE DEF Counts, In, Busy, Frame, Driver, Counted, Goes, Works, SvcKeeps, Errs, Types, Ats,
         SetupAts, CommandAts
  <2>1. Types'
    BY <1>t, <2>b DEF Places, Outcomes
  <2>2. CallInv'
    BY <1>t, <2>b DEF CallInv, Caller, Attached, Unwinding, Waiting, Owning, Places
  <2>3. MountInv'
    BY <1>t, <2>b DEF MountInv, Attached, Unwinding, Waiting, Owning, Places, OnAts, SetupOnAts
  <2>4. VolumeInv'
    BY <1>t, <2>b, ItemsAre, WorkerItemsAre DEF VolumeInv, Loose, Attached, Unwinding, Waiting,
         Owning, Places
  <2>5. SetupInv'
    BY <1>t, <2>b DEF SetupInv, Attached, Unwinding, Waiting, Owning, Places, SetupOnAts
  <2>6. CommandInv'
    BY <1>t, <2>b DEF CommandInv, Nothing, Owned, OneRecord, Attached, Unwinding, Waiting, Owning,
         Places
  <2>7. ResultInv'
    BY <1>t, <2>b DEF Whole, Unwritten, ResultInv, Nothing, Owned, Attached, Unwinding, Waiting, Owning, Places
  <2>8. WholeInv'
    BY <1>t, <2>b DEF Bare, WholeInv, Half, Owned, Attached, Unwinding, Waiting, Owning, Places
  <2>9. DriverInv'
    BY <1>t, <2>b DEF Whole, DriverInv, Caller, Removing, Nothing, Owned, Attached, Unwinding, Waiting,
         Owning, Places
  <2>10. OwnerIsProven'
    BY <1>t, <2>b DEF OwnerIsProven, Attached, Unwinding, Waiting, Owning, Places
  <2>11. ASSUME NEW w \in Workers PROVE LeaseInv(w)'
    BY <1>t, <2>b DEF LeaseInv, Caller, Active, Used, Fresh, Attached, Unwinding, Waiting, Owning,
         Places
  <2>12. ASSUME NEW w \in Workers PROVE EmptyInv(w)'
    <3>1. Residual = {} /\ Still(w) => Clear(w)
      BY <1>v, ItemsAre, WorkerItemsAre DEF Residual, Visible, Residue, Still, Clear, States, Loose
    <3>2. (Abandoned(w)' <=> Abandoned(w)) /\ (Still(w) => Still(w)') /\ (Clear(w) => Clear(w)')
      BY <2>b, ItemsAre, WorkerItemsAre DEF Frame, Driver, Abandoned, Still, Clear
    <3> QED
      BY <2>b, <3>1, <3>2 DEF EmptyInv, In, Goes, Errs, Works
  <2>13. LeftInv'
    BY <1>t, <2>b, <2>1, LeftAre, ItemsAre, WorkerItemsAre DEF LeftInv, Holds, CallInv, MountInv, VolumeInv, SetupInv,
         CommandInv, ResultInv, DriverInv, LeaseInv, Caller, Attached, Unwinding, Waiting, Owning, Places, Nothing, Owned,
         OneRecord, OnAts, SetupOnAts, Loose, Active, Fresh
  <2> QED
    BY <2>1, <2>2, <2>3, <2>4, <2>5, <2>6, <2>7, <2>8, <2>9, <2>10, <2>11, <2>12, <2>13
<1>8. CASE CommandFlush
  <2>b. /\ On("flush") /\ svc.op \in {"probe", "marker", "corrupt"}
        /\ host' = host
        /\ mount' = mount
        /\ Frame
        /\ Counts
        /\ \/ FlushedTo /\ svc.op = "corrupt" /\ Goes("note_flushed")
           \/ FlushedTo /\ svc.op # "corrupt" /\ Goes("close")
           \/ disk' = disk /\ (Errs("preserved") \/ Errs("failed"))
    BY <1>8, <1>v, GotoDoes, FailDoes, FlushedDoes, CountDoes, Zenon DEF CommandFlush, At, Ats,
         SetupAts, CommandAts, Answers, On
  <2> USE DEF Counts, In, On, Busy, Frame, Driver, Counted, Goes, Works, SvcKeeps, Errs, Types,
         Ats, SetupAts, CommandAts
  <2>1. Types'
    BY <1>t, <2>b DEF Loose, Places, Outcomes, FlushedTo
  <2>2. CallInv'
    BY <1>t, <2>b DEF CallInv, Caller, Loose, Attached, Unwinding, Waiting, Owning, Places
  <2>3. MountInv'
    BY <1>t, <2>b DEF MountInv, Loose, Attached, Unwinding, Waiting, Owning, Places, OnAts,
         SetupOnAts
  <2>4. VolumeInv'
    BY <1>t, <2>b, ItemsAre, WorkerItemsAre DEF VolumeInv, Loose, Attached, Unwinding, Waiting,
         Owning, Places, FlushedTo
  <2>5. SetupInv'
    BY <1>t, <2>b, ItemsAre, WorkerItemsAre DEF SetupInv, Loose, Attached, Unwinding, Waiting,
         Owning, Places, SetupOnAts, FlushedTo
  <2>6. CommandInv'
    BY <1>t, <2>b, ItemsAre, WorkerItemsAre DEF CommandInv, Nothing, Owned, OneRecord, Loose,
         Attached, Unwinding, Waiting, Owning, Places, FlushedTo
  <2>7. ResultInv'
    BY <1>t, <2>b DEF Whole, Unwritten, ResultInv, Nothing, Owned, Loose, Attached, Unwinding, Waiting, Owning, Places
  <2>8. WholeInv'
    BY <1>t, <2>b DEF Bare, WholeInv, Half, Owned, Loose, Attached, Unwinding, Waiting, Owning, Places
  <2>9. DriverInv'
    BY <1>t, <2>b DEF Whole, DriverInv, Caller, Removing, Nothing, Owned, Loose, Attached, Unwinding,
         Waiting, Owning, Places
  <2>10. OwnerIsProven'
    BY <1>t, <2>b, ItemsAre, WorkerItemsAre DEF OwnerIsProven, Loose, Attached, Unwinding, Waiting,
         Owning, Places, FlushedTo
  <2>11. ASSUME NEW w \in Workers PROVE LeaseInv(w)'
    BY <1>t, <2>b, ItemsAre, WorkerItemsAre DEF LeaseInv, Caller, Active, Used, Fresh, Loose,
         Attached, Unwinding, Waiting, Owning, Places, FlushedTo
  <2>12. ASSUME NEW w \in Workers PROVE EmptyInv(w)'
    BY <1>t, <2>b, ItemsAre, WorkerItemsAre DEF EmptyInv, Abandoned, Still, Clear, Loose, Attached,
         Unwinding, Waiting, Owning, Places, FlushedTo
  <2>13. LeftInv'
    BY <1>t, <2>b, <2>1, LeftAre, ItemsAre, WorkerItemsAre DEF LeftInv, Holds, CallInv, MountInv, VolumeInv, SetupInv,
         CommandInv, ResultInv, DriverInv, LeaseInv, Caller, Attached, Unwinding, Waiting, Owning, Places, Nothing, Owned,
         OneRecord, OnAts, SetupOnAts, Loose, Active, Fresh, FlushedTo
  <2> QED
    BY <2>1, <2>2, <2>3, <2>4, <2>5, <2>6, <2>7, <2>8, <2>9, <2>10, <2>11, <2>12, <2>13
<1>9. CASE CommandClose
  <2>b. /\ On("close") /\ svc.op \notin {"session", "diagnose"}
        /\ host' = host
        /\ SettledTo
        /\ Frame
        /\ Counts
        /\ \/ mount' = "no" /\ svc.op \in {"status", "probe"} /\ Goes("post")
           \/ mount' = "no" /\ svc.op \in {"remove", "incomplete"} /\ Goes("delete")
           \/ mount' = "no" /\ svc.op \in {"marker", "corrupt"} /\ Follows("status", svc.op)
           \/ mount' \in {"no", "stuck"} /\ Returns("uncertain")
    <3>1. svc.op \in {"marker", "corrupt"} => svc.tail = "none"
      BY <1>9 DEF CommandClose, At, CallInv, Busy
    <3>2. Follow("status") /\ svc.op \in {"marker", "corrupt"} => Starts("status", svc.back, svc.who, svc.op)
      BY <1>v, <3>1, FollowDoes, Zenon DEF Operations
    <3> QED
      BY <1>9, <1>v, <3>2, GotoDoes, ReturnDoes, SettledDoes, CountDoes, Zenon
      DEF CommandClose, At, On, Attaching, CloseVolume, CloseFails, Ats, SetupAts, CommandAts, Answers, Follows
  <2> USE DEF Counts, In, On, Busy, Frame, Driver, Counted, Goes, Works, SvcKeeps, Returns,
         Follows, Starts, Types, Ats, SetupAts, CommandAts
  <2>1. Types'
    BY <1>t, <2>b DEF CallInv, Attached, Unwinding, Waiting, Owning, Places, SettledTo, Outcomes
  <2>2. CallInv'
    BY <1>t, <2>b DEF CallInv, Caller, Loose, Attached, Unwinding, Waiting, Owning, Places
  <2>3. MountInv'
    BY <1>t, <2>b DEF Caller, CallInv, MountInv, CommandInv, SetupInv, Attached, Unwinding,
         Waiting, Owning, Places, Nothing, Owned, OneRecord, OnAts, SetupOnAts
  <2>4. VolumeInv'
    BY <1>t, <2>b, ItemsAre, WorkerItemsAre DEF VolumeInv, Loose, Attached, Unwinding, Waiting,
         Owning, Places, SettledTo
  <2>5. SetupInv'
    BY <1>t, <2>b, ItemsAre, WorkerItemsAre DEF SetupInv, Loose, Attached, Unwinding, Waiting,
         Owning, Places, SetupOnAts, SettledTo
  <2>6. CommandInv'
    BY <1>t, <2>b, ItemsAre, WorkerItemsAre DEF CallInv, CommandInv, OwnerIsProven, Attached,
         Unwinding, Waiting, Owning, Places, SettledTo, Loose, Nothing, Owned, OneRecord
  <2>7. ResultInv'
    BY <1>t, <2>b DEF Whole, Unwritten, ResultInv, Nothing, Owned, Loose, Attached, Unwinding, Waiting, Owning, Places
  <2>8. WholeInv'
    BY <1>t, <2>b DEF Bare, WholeInv, Half, Owned, Loose, Attached, Unwinding, Waiting, Owning, Places
  <2>9. DriverInv'
    BY <1>t, <2>b DEF Whole, CallInv, CommandInv, ResultInv, SetupInv, DriverInv, Removing, Caller,
         Attached, Unwinding, Waiting, Owning, Places, Nothing, Owned, OneRecord, SetupOnAts
  <2>10. OwnerIsProven'
    BY <1>t, <2>b, ItemsAre, WorkerItemsAre DEF OwnerIsProven, Loose, Attached, Unwinding, Waiting,
         Owning, Places, SettledTo
  <2>11. ASSUME NEW w \in Workers PROVE LeaseInv(w)'
    BY <1>t, <2>b, ItemsAre, WorkerItemsAre DEF CallInv, MountInv, VolumeInv, DriverInv, LeaseInv,
         Caller, Attached, Unwinding, Waiting, Owning, Places, SettledTo, Loose, Fresh, Active,
         Used, OnAts, SetupOnAts
  <2>12. ASSUME NEW w \in Workers PROVE EmptyInv(w)'
    BY <1>t, <2>b, ItemsAre, WorkerItemsAre DEF EmptyInv, Abandoned, Still, Clear, Loose, Attached,
         Unwinding, Waiting, Owning, Places, SettledTo
  <2>13. LeftInv'
    BY <1>t, <2>b, <2>1, LeftAre, ItemsAre, WorkerItemsAre DEF LeftInv, Holds, CallInv, MountInv, VolumeInv, SetupInv,
         CommandInv, ResultInv, DriverInv, LeaseInv, Caller, Attached, Unwinding, Waiting, Owning, Places, Nothing, Owned,
         OneRecord, OnAts, SetupOnAts, Loose, Active, Fresh, SettledTo
  <2> QED
    BY <2>1, <2>2, <2>3, <2>4, <2>5, <2>6, <2>7, <2>8, <2>9, <2>10, <2>11, <2>12, <2>13
<1>10. CASE CommandPost
  <2>b. /\ On("post") /\ svc.op \in {"status", "probe", "remove"}
        /\ host' = host
        /\ mount' = mount
        /\ disk' = disk
        /\ Frame
        /\ Counts
        /\ \/ Returns("nil")
           \/ svc.op = "remove" /\ Returns("uncertain")
           \/ svc.op # "remove" /\ Returns("preserved")
    BY <1>10, <1>v, ReturnDoes, CountDoes, Zenon DEF CommandPost, At, Ats, SetupAts, CommandAts,
         Answers, On
  <2> USE DEF Counts, In, On, Busy, Frame, Driver, Counted, SvcKeeps, Returns, Types, Ats,
         SetupAts, CommandAts
  <2>1. Types'
    BY <1>t, <2>b DEF CallInv, Attached, Unwinding, Waiting, Owning, Places, Outcomes
  <2>2. CallInv'
    BY <1>t, <2>b DEF CallInv, Caller, Attached, Unwinding, Waiting, Owning, Places
  <2>3. MountInv'
    BY <1>t, <2>b DEF Caller, CallInv, MountInv, CommandInv, SetupInv, Attached, Unwinding,
         Waiting, Owning, Places, Nothing, Owned, OneRecord, OnAts, SetupOnAts
  <2>4. VolumeInv'
    BY <1>t, <2>b, ItemsAre, WorkerItemsAre DEF VolumeInv, Loose, Attached, Unwinding, Waiting,
         Owning, Places
  <2>5. SetupInv'
    BY <1>t, <2>b DEF SetupInv, Attached, Unwinding, Waiting, Owning, Places, SetupOnAts
  <2>6. CommandInv'
    BY <1>t, <2>b, ItemsAre, WorkerItemsAre DEF CallInv, CommandInv, OwnerIsProven, Attached,
         Unwinding, Waiting, Owning, Places, Nothing, Owned, OneRecord
  <2>7. ResultInv'
    BY <1>t, <2>b DEF Whole, Unwritten, CallInv, CommandInv, ResultInv, SetupInv, Attached, Unwinding, Waiting,
         Owning, Places, Nothing, Owned, OneRecord, SetupOnAts
  <2>8. WholeInv'
    BY <1>t, <2>b DEF Bare, WholeInv, Half, Owned, Attached, Unwinding, Waiting, Owning, Places
  <2>9. DriverInv'
    BY <1>t, <2>b DEF Whole, CallInv, CommandInv, ResultInv, SetupInv, DriverInv, Removing, Caller,
         Attached, Unwinding, Waiting, Owning, Places, Nothing, Owned, OneRecord, SetupOnAts
  <2>10. OwnerIsProven'
    BY <1>t, <2>b DEF OwnerIsProven, Attached, Unwinding, Waiting, Owning, Places
  <2>11. ASSUME NEW w \in Workers PROVE LeaseInv(w)'
    BY <1>t, <2>b, ItemsAre, WorkerItemsAre DEF CallInv, MountInv, VolumeInv, DriverInv, LeaseInv,
         Caller, Attached, Unwinding, Waiting, Owning, Places, Loose, Fresh, Active, Used, OnAts,
         SetupOnAts
  <2>12. ASSUME NEW w \in Workers PROVE EmptyInv(w)'
    BY <1>t, <2>b, ItemsAre, WorkerItemsAre DEF EmptyInv, Abandoned, Still, Clear, Loose, Attached,
         Unwinding, Waiting, Owning, Places
  <2>13. LeftInv'
    BY <1>t, <2>b, <2>1, LeftAre, ItemsAre, WorkerItemsAre DEF LeftInv, Holds, CallInv, MountInv, VolumeInv, SetupInv,
         CommandInv, ResultInv, DriverInv, LeaseInv, Caller, Attached, Unwinding, Waiting, Owning, Places, Nothing, Owned,
         OneRecord, OnAts, SetupOnAts, Loose, Active, Fresh
  <2> QED
    BY <2>1, <2>2, <2>3, <2>4, <2>5, <2>6, <2>7, <2>8, <2>9, <2>10, <2>11, <2>12, <2>13
<1>11. CASE DeleteVHDX
  <2>b. /\ On("delete") /\ svc.op \in {"remove", "incomplete"}
        /\ mount' = mount
        /\ UNCHANGED <<rec, Driver, Counted>> /\ diag' \in 0 .. N
        /\ Counts
        /\ \/ Unmade /\ EmptiedTo /\ Goes("record")
           \/ host' = host /\ disk' = disk /\ (Returns("preserved") \/ Returns("failed"))
    BY <1>11, <1>v, WorkersAre, GotoDoes, ReturnDoes, HostDoes, EmptyDoes, CountDoes, Zenon DEF DeleteVHDX, At,
         Ats, SetupAts, CommandAts, Answers, On
  <2> USE DEF Counts, In, On, Busy, Frame, Driver, Counted, Goes, Works, SvcKeeps, Returns, Unmade,
         Types, Ats, SetupAts, CommandAts
  <2>1. Types'
    BY <1>t, <2>b, ZenonT(60) DEF CallInv, Attached, Unwinding, Waiting, Owning, Places, EmptiedTo, Outcomes
  <2>2. CallInv'
    BY <1>t, <2>b DEF CallInv, Caller, Attached, Unwinding, Waiting, Owning, Places
  <2>3. MountInv'
    BY <1>t, <2>b DEF Caller, CallInv, MountInv, CommandInv, SetupInv, Attached, Unwinding,
         Waiting, Owning, Places, Nothing, Owned, OneRecord, OnAts, SetupOnAts
  <2>4. VolumeInv'
    BY <1>t, <2>b, ItemsAre, WorkerItemsAre DEF VolumeInv, Loose, Attached, Unwinding, Waiting,
         Owning, Places, EmptiedTo
  <2>5. SetupInv'
    BY <1>t, <2>b, ItemsAre, WorkerItemsAre DEF SetupInv, Attached, Unwinding, Waiting, Owning,
         Places, SetupOnAts, EmptiedTo
  <2>6. CommandInv'
    BY <1>t, <2>b, ItemsAre, WorkerItemsAre DEF CallInv, CommandInv, OwnerIsProven, Attached,
         Unwinding, Waiting, Owning, Places, EmptiedTo, Nothing, Owned, OneRecord
  <2>7. ResultInv'
    BY <1>t, <2>b DEF Whole, Unwritten, CallInv, CommandInv, ResultInv, SetupInv, Attached, Unwinding, Waiting,
         Owning, Places, Nothing, Owned, OneRecord, SetupOnAts
  <2>8. WholeInv'
    BY <1>t, <2>b DEF Bare, WholeInv, Half, Owned, Attached, Unwinding, Waiting, Owning, Places
  <2>9. DriverInv'
    BY <1>t, <2>b DEF Whole, CallInv, CommandInv, ResultInv, SetupInv, DriverInv, Removing, Caller,
         Attached, Unwinding, Waiting, Owning, Places, Nothing, Owned, OneRecord, SetupOnAts
  <2>10. OwnerIsProven'
    BY <1>t, <2>b, ItemsAre, WorkerItemsAre DEF OwnerIsProven, Attached, Unwinding, Waiting,
         Owning, Places, EmptiedTo
  <2>11. ASSUME NEW w \in Workers PROVE LeaseInv(w)'
    BY <1>t, <2>b, ItemsAre, WorkerItemsAre DEF CallInv, MountInv, VolumeInv, DriverInv, LeaseInv,
         Caller, Attached, Unwinding, Waiting, Owning, Places, EmptiedTo, Loose, Fresh, Still,
         Clear, Abandoned, Active, Used, OnAts, SetupOnAts, EmptyInv, CommandInv, Owned,
         OwnerIsProven, OneRecord
  <2>12. ASSUME NEW w \in Workers PROVE EmptyInv(w)'
    BY <1>t, <2>b, ItemsAre, WorkerItemsAre DEF EmptyInv, Abandoned, Still, Clear, Loose, Attached,
         Unwinding, Waiting, Owning, Places, EmptiedTo
  <2>13. LeftInv'
    BY <1>t, <2>b, <2>1, LeftAre, ItemsAre, WorkerItemsAre DEF LeftInv, Holds, CallInv, MountInv, VolumeInv, SetupInv,
         CommandInv, ResultInv, DriverInv, LeaseInv, Caller, Attached, Unwinding, Waiting, Owning, Places, Nothing, Owned,
         OneRecord, OnAts, SetupOnAts, Loose, Active, Fresh, EmptiedTo
  <2> QED
    BY <2>1, <2>2, <2>3, <2>4, <2>5, <2>6, <2>7, <2>8, <2>9, <2>10, <2>11, <2>12, <2>13
<1>12. CASE DeleteRecord
  <2>b. /\ On("record") /\ svc.op \in {"remove", "incomplete"}
        /\ mount' = mount
        /\ disk' = disk
        /\ Frame
        /\ Counts
        /\ \/ Forgotten /\ Goes("dirs")
           \/ host' = host /\ (Returns("uncertain") \/ Returns("failed"))
    BY <1>12, <1>v, GotoDoes, ReturnDoes, HostDoes, CountDoes, Zenon DEF DeleteRecord, At, Ats,
         SetupAts, CommandAts, Answers, On, Interrupted
  <2> USE DEF Counts, In, On, Busy, Frame, Driver, Counted, Goes, Works, SvcKeeps, Returns,
         Forgotten, Types, Ats, SetupAts, CommandAts
  <2>1. Types'
    BY <1>t, <2>b, ZenonT(60) DEF CallInv, Attached, Unwinding, Waiting, Owning, Places, Outcomes
  <2>2. CallInv'
    BY <1>t, <2>b DEF CallInv, Caller, Attached, Unwinding, Waiting, Owning, Places
  <2>3. MountInv'
    BY <1>t, <2>b DEF Caller, CallInv, MountInv, CommandInv, SetupInv, Attached, Unwinding,
         Waiting, Owning, Places, Nothing, Owned, OneRecord, OnAts, SetupOnAts
  <2>4. VolumeInv'
    BY <1>t, <2>b, ItemsAre, WorkerItemsAre DEF VolumeInv, Loose, Attached, Unwinding, Waiting,
         Owning, Places
  <2>5. SetupInv'
    BY <1>t, <2>b DEF SetupInv, Attached, Unwinding, Waiting, Owning, Places, SetupOnAts
  <2>6. CommandInv'
    BY <1>t, <2>b, ItemsAre, WorkerItemsAre DEF CallInv, CommandInv, OwnerIsProven, Attached,
         Unwinding, Waiting, Owning, Places, Nothing, Owned, OneRecord
  <2>7. ResultInv'
    BY <1>t, <2>b DEF Whole, Unwritten, ResultInv, Nothing, Owned, Attached, Unwinding, Waiting, Owning, Places
  <2>8. WholeInv'
    BY <1>t, <2>b DEF Bare, WholeInv, Half, Owned, Attached, Unwinding, Waiting, Owning, Places
  <2>9. DriverInv'
    BY <1>t, <2>b DEF Whole, CallInv, CommandInv, ResultInv, SetupInv, DriverInv, Removing, Caller,
         Attached, Unwinding, Waiting, Owning, Places, Nothing, Owned, OneRecord, SetupOnAts
  <2>10. OwnerIsProven'
    BY <1>t, <2>b DEF OwnerIsProven, Attached, Unwinding, Waiting, Owning, Places
  <2>11. ASSUME NEW w \in Workers PROVE LeaseInv(w)'
    BY <1>t, <2>b, ItemsAre, WorkerItemsAre DEF CallInv, MountInv, VolumeInv, DriverInv, LeaseInv,
         Caller, Attached, Unwinding, Waiting, Owning, Places, Loose, Fresh, Active, Used, OnAts,
         SetupOnAts
  <2>12. ASSUME NEW w \in Workers PROVE EmptyInv(w)'
    BY <1>t, <2>b, ItemsAre, WorkerItemsAre DEF EmptyInv, Abandoned, Still, Clear, Loose, Attached,
         Unwinding, Waiting, Owning, Places
  <2>13. LeftInv'
    BY <1>t, <2>b, <2>1, LeftAre, ItemsAre, WorkerItemsAre DEF LeftInv, Holds, CallInv, MountInv, VolumeInv, SetupInv,
         CommandInv, ResultInv, DriverInv, LeaseInv, Caller, Attached, Unwinding, Waiting, Owning, Places, Nothing, Owned,
         OneRecord, OnAts, SetupOnAts, Loose, Active, Fresh
  <2> QED
    BY <2>1, <2>2, <2>3, <2>4, <2>5, <2>6, <2>7, <2>8, <2>9, <2>10, <2>11, <2>12, <2>13
<1>13. CASE DeleteDirs
  <2>b. /\ On("dirs") /\ svc.op \in {"remove", "incomplete"}
        /\ mount' = mount
        /\ disk' = disk
        /\ Frame
        /\ Counts
        /\ \/ Dirs(0) /\ svc.op = "remove" /\ Goes("post")
           \/ Dirs(0) /\ svc.op # "remove" /\ Returns("nil")
           \/ (host' = host \/ Dirs(1)) /\ (Returns("uncertain") \/ Returns("failed"))
    <3>1. /\ On("dirs") /\ svc.op \in {"remove", "incomplete"} /\ mount' = mount /\ disk' = disk
          /\ Frame /\ Counts
      BY <1>13, <1>v, CountDoes, Zenon DEF DeleteDirs, At, On
    <3>2. host.pending = "none" /\ ~host.owner /\ ~host.vhdx
      BY <3>1 DEF CommandInv, On, Busy
    <3>3. CASE /\ NoFault /\ host' = RemoveDirs(host)
               /\ (IF svc.op = "remove" THEN Goto("post") ELSE Return("nil"))
      <4>1. Dirs(0)
        BY <1>v, <3>2, <3>3, HostDoes, Zenon DEF RemoveDirs
      <4> QED
        BY <1>v, <3>1, <3>3, <4>1, GotoDoes, ReturnDoes, Zenon DEF Ats, CommandAts, Answers
    <3>4. CASE Fault /\ host' \in {host, [host EXCEPT !.dirs = 1]} /\ Return(Interrupted)
      <4>1. host' = host \/ Dirs(1)
        BY <1>v, <3>4, HostDoes, Zenon
      <4>2. Interrupted \in {"uncertain", "failed"}
        BY DEF Interrupted
      <4> QED
        BY <1>v, <3>1, <3>4, <4>1, <4>2, ReturnDoes, Zenon DEF Answers
    <3> QED
      BY <1>13, <3>3, <3>4, Zenon DEF DeleteDirs
  <2> USE DEF Counts, In, On, Busy, Frame, Driver, Counted, Goes, Works, SvcKeeps, Returns, Dirs,
         Types, Ats, SetupAts, CommandAts
  <2>1. Types'
    BY <1>t, <2>b DEF CallInv, Attached, Unwinding, Waiting, Owning, Places, Outcomes
  <2>2. CallInv'
    BY <1>t, <2>b DEF CallInv, Caller, Attached, Unwinding, Waiting, Owning, Places
  <2>3. MountInv'
    BY <1>t, <2>b DEF Caller, CallInv, MountInv, CommandInv, SetupInv, Attached, Unwinding,
         Waiting, Owning, Places, Nothing, Owned, OneRecord, OnAts, SetupOnAts
  <2>4. VolumeInv'
    BY <1>t, <2>b, ItemsAre, WorkerItemsAre DEF VolumeInv, Loose, Attached, Unwinding, Waiting,
         Owning, Places
  <2>5. SetupInv'
    BY <1>t, <2>b DEF SetupInv, Attached, Unwinding, Waiting, Owning, Places, SetupOnAts
  <2>6. CommandInv'
    BY <1>t, <2>b, ItemsAre, WorkerItemsAre DEF CallInv, CommandInv, OwnerIsProven, Attached,
         Unwinding, Waiting, Owning, Places, Nothing, Owned, OneRecord
  <2>7. ResultInv'
    BY <1>t, <2>b DEF Whole, Unwritten, CallInv, CommandInv, ResultInv, SetupInv, Attached, Unwinding, Waiting,
         Owning, Places, Nothing, Owned, OneRecord, SetupOnAts
  <2>8. WholeInv'
    BY <1>t, <2>b DEF Bare, CallInv, CommandInv, SetupInv, WholeInv, Half, Attached, Unwinding, Waiting,
         Owning, Places, Nothing, Owned, OneRecord, SetupOnAts
  <2>9. DriverInv'
    BY <1>t, <2>b DEF Whole, CallInv, CommandInv, ResultInv, SetupInv, DriverInv, Removing, Caller,
         Attached, Unwinding, Waiting, Owning, Places, Nothing, Owned, OneRecord, SetupOnAts
  <2>10. OwnerIsProven'
    BY <1>t, <2>b DEF OwnerIsProven, Attached, Unwinding, Waiting, Owning, Places
  <2>11. ASSUME NEW w \in Workers PROVE LeaseInv(w)'
    BY <1>t, <2>b, ItemsAre, WorkerItemsAre DEF CallInv, MountInv, VolumeInv, DriverInv, LeaseInv,
         Caller, Attached, Unwinding, Waiting, Owning, Places, Loose, Fresh, Active, Used, OnAts,
         SetupOnAts
  <2>12. ASSUME NEW w \in Workers PROVE EmptyInv(w)'
    BY <1>t, <2>b, ItemsAre, WorkerItemsAre DEF EmptyInv, Abandoned, Still, Clear, Loose, Attached,
         Unwinding, Waiting, Owning, Places
  <2>13. LeftInv'
    BY <1>t, <2>b, <2>1, LeftAre, ItemsAre, WorkerItemsAre DEF LeftInv, Holds, CallInv, MountInv, VolumeInv, SetupInv,
         CommandInv, ResultInv, DriverInv, LeaseInv, Caller, Attached, Unwinding, Waiting, Owning, Places, Nothing, Owned,
         OneRecord, OnAts, SetupOnAts, Loose, Active, Fresh
  <2> QED
    BY <2>1, <2>2, <2>3, <2>4, <2>5, <2>6, <2>7, <2>8, <2>9, <2>10, <2>11, <2>12, <2>13
<1>14. CASE MarkerShape
  <2>b. /\ In("marker", {"shape"})
        /\ host' = host
        /\ mount' = mount
        /\ Frame
        /\ Counts
        /\ \/ disk' = disk /\ (Errs("preserved") \/ Errs("failed"))
           \/ DeletedTo({Marker(svc.who)}) /\ Goes("flush")
    BY <1>14, <1>v, GotoDoes, FailDoes, DeleteDoes, CountDoes, Zenon DEF MarkerShape, At, Ats,
         SetupAts, CommandAts, Answers, In
  <2> USE DEF Counts, In, Busy, Frame, Driver, Counted, Goes, Works, SvcKeeps, Errs, Types, Ats,
         SetupAts, CommandAts
  <2>1. Types'
    BY <1>t, <2>b DEF Places, Outcomes, DeletedTo
  <2>2. CallInv'
    BY <1>t, <2>b DEF CallInv, Caller, Attached, Unwinding, Waiting, Owning, Places
  <2>3. MountInv'
    BY <1>t, <2>b DEF MountInv, Attached, Unwinding, Waiting, Owning, Places, OnAts, SetupOnAts
  <2>4. VolumeInv'
    BY <1>t, <2>b, ItemsAre, WorkerItemsAre DEF VolumeInv, MountInv, DeletedTo, Loose, OnAts,
         SetupOnAts, CallInv, Residual
  <2>5. SetupInv'
    BY <1>t, <2>b, ItemsAre, WorkerItemsAre DEF SetupInv, Attached, Unwinding, Waiting, Owning,
         Places, SetupOnAts, DeletedTo
  <2>6. CommandInv'
    BY <1>t, <2>b, ItemsAre, WorkerItemsAre DEF CommandInv, Nothing, Owned, OneRecord, Attached,
         Unwinding, Waiting, Owning, Places, DeletedTo
  <2>7. ResultInv'
    BY <1>t, <2>b DEF Whole, Unwritten, ResultInv, Nothing, Owned, Attached, Unwinding, Waiting, Owning, Places
  <2>8. WholeInv'
    BY <1>t, <2>b DEF Bare, WholeInv, Half, Owned, Attached, Unwinding, Waiting, Owning, Places
  <2>9. DriverInv'
    BY <1>t, <2>b DEF Whole, DriverInv, Caller, Removing, Nothing, Owned, Attached, Unwinding, Waiting,
         Owning, Places
  <2>10. OwnerIsProven'
    BY <1>t, <2>b, ItemsAre, WorkerItemsAre DEF CallInv, SetupInv, VolumeInv, OwnerIsProven,
         DeletedTo, Loose, SetupOnAts
  <2>11. ASSUME NEW w \in Workers PROVE LeaseInv(w)'
    <3>1. svc.who \in Workers /\ Marker(svc.who) # Journal(w) /\ Marker(svc.who) # PoolFile
      BY <2>b DEF CallInv, Marker, Journal, PoolFile
    <3>2. disk'[Journal(w)] = disk[Journal(w)] /\ disk'[PoolFile] = disk[PoolFile]
      BY <2>b, <3>1, ItemsAre, WorkerItemsAre DEF DeletedTo
    <3> QED
      BY <1>t, <2>b, <3>2 DEF CallInv, LeaseInv, Caller, Attached, Unwinding, Waiting, Owning,
         Fresh, Active, Used
  <2>12. ASSUME NEW w \in Workers PROVE EmptyInv(w)'
    BY <1>t, <2>b, ItemsAre, WorkerItemsAre DEF EmptyInv, Abandoned, Still, Clear, Loose, Attached,
         Unwinding, Waiting, Owning, Places, DeletedTo
  <2>13. LeftInv'
    BY <1>t, <2>b, <2>1, LeftAre, ItemsAre, WorkerItemsAre DEF LeftInv, Holds, CallInv, MountInv, VolumeInv, SetupInv,
         CommandInv, ResultInv, DriverInv, LeaseInv, Caller, Attached, Unwinding, Waiting, Owning, Places, Nothing, Owned,
         OneRecord, OnAts, SetupOnAts, Loose, Active, Fresh, DeletedTo
  <2> QED
    BY <2>1, <2>2, <2>3, <2>4, <2>5, <2>6, <2>7, <2>8, <2>9, <2>10, <2>11, <2>12, <2>13
<1>15. CASE DiagnoseMeasure
  <2>b. /\ In("diagnose", {"measure"})
        /\ host' = host
        /\ mount' = mount
        /\ disk' = disk
        /\ Frame
        /\ Counts
        /\ Goes("close")
    <3>1. CorruptShape(svc.who) \in BOOLEAN
      BY DEF CorruptShape
    <3> QED
      BY <1>15, <1>v, <3>1, MeasureDoes, CountDoes, Zenon
      DEF DiagnoseMeasure, At, In, Ats, SetupAts, CommandAts
  <2> USE DEF Counts, In, Busy, Frame, Driver, Counted, Goes, Works, SvcKeeps, Types, Ats,
         SetupAts, CommandAts
  <2>1. Types'
    BY <1>t, <2>b DEF Places, Outcomes
  <2>2. CallInv'
    BY <1>t, <2>b DEF CallInv, Caller, Attached, Unwinding, Waiting, Owning, Places
  <2>3. MountInv'
    BY <1>t, <2>b DEF MountInv, Attached, Unwinding, Waiting, Owning, Places, OnAts, SetupOnAts
  <2>4. VolumeInv'
    BY <1>t, <2>b, ItemsAre, WorkerItemsAre DEF VolumeInv, Loose, Attached, Unwinding, Waiting,
         Owning, Places
  <2>5. SetupInv'
    BY <1>t, <2>b DEF SetupInv, Attached, Unwinding, Waiting, Owning, Places, SetupOnAts
  <2>6. CommandInv'
    BY <1>t, <2>b DEF CommandInv, Nothing, Owned, OneRecord, Attached, Unwinding, Waiting, Owning,
         Places
  <2>7. ResultInv'
    BY <1>t, <2>b DEF Whole, Unwritten, ResultInv, Nothing, Owned, Attached, Unwinding, Waiting, Owning, Places
  <2>8. WholeInv'
    BY <1>t, <2>b DEF Bare, WholeInv, Half, Owned, Attached, Unwinding, Waiting, Owning, Places
  <2>9. DriverInv'
    BY <1>t, <2>b DEF Whole, DriverInv, Caller, Removing, Nothing, Owned, Attached, Unwinding, Waiting,
         Owning, Places
  <2>10. OwnerIsProven'
    BY <1>t, <2>b DEF OwnerIsProven, Attached, Unwinding, Waiting, Owning, Places
  <2>11. ASSUME NEW w \in Workers PROVE LeaseInv(w)'
    BY <1>t, <2>b DEF LeaseInv, Caller, Active, Used, Fresh, Attached, Unwinding, Waiting, Owning,
         Places
  <2>12. ASSUME NEW w \in Workers PROVE EmptyInv(w)'
    BY <1>t, <2>b, ItemsAre, WorkerItemsAre DEF EmptyInv, Abandoned, Still, Clear, Loose, Attached,
         Unwinding, Waiting, Owning, Places
  <2>13. LeftInv'
    BY <1>t, <2>b, <2>1, LeftAre, ItemsAre, WorkerItemsAre DEF LeftInv, Holds, CallInv, MountInv, VolumeInv, SetupInv,
         CommandInv, ResultInv, DriverInv, LeaseInv, Caller, Attached, Unwinding, Waiting, Owning, Places, Nothing, Owned,
         OneRecord, OnAts, SetupOnAts, Loose, Active, Fresh
  <2> QED
    BY <2>1, <2>2, <2>3, <2>4, <2>5, <2>6, <2>7, <2>8, <2>9, <2>10, <2>11, <2>12, <2>13
<1>16. CASE DiagnoseClose
  <2>b. /\ In("diagnose", {"close"})
        /\ host' = host
        /\ SettledTo
        /\ UNCHANGED <<Driver, Counted, rec>> /\ diag' \in 0 .. N
        /\ Counts
        /\ \/ mount' = "no" /\ Returns("nil")
           \/ mount' \in {"no", "stuck"} /\ Returns("uncertain")
    <3>1. UNCHANGED <<Driver, Counted, rec>> /\ diag' \in 0 .. N
      BY <1>16, <1>v DEF DiagnoseClose, Services
    <3> QED
      BY <1>16, <1>v, <3>1, ReturnDoes, SettledDoes, CountDoes, Zenon
      DEF DiagnoseClose, At, In, CloseVolume, CloseFails, Answers
  <2> USE DEF Counts, In, Busy, Driver, Counted, SvcKeeps, Returns, Types, Ats, SetupAts, CommandAts
  <2>1. Types'
    BY <1>t, <2>b DEF CallInv, Attached, Unwinding, Waiting, Owning, Places, SettledTo, Outcomes
  <2>2. CallInv'
    BY <1>t, <2>b DEF CallInv, Caller, Loose, Attached, Unwinding, Waiting, Owning, Places
  <2>3. MountInv'
    BY <1>t, <2>b DEF Caller, CallInv, MountInv, CommandInv, SetupInv, Attached, Unwinding,
         Waiting, Owning, Places, Nothing, Owned, OneRecord, OnAts, SetupOnAts
  <2>4. VolumeInv'
    BY <1>t, <2>b, ItemsAre, WorkerItemsAre DEF VolumeInv, Loose, Attached, Unwinding, Waiting,
         Owning, Places, SettledTo
  <2>5. SetupInv'
    BY <1>t, <2>b, ItemsAre, WorkerItemsAre DEF SetupInv, Loose, Attached, Unwinding, Waiting,
         Owning, Places, SetupOnAts, SettledTo
  <2>6. CommandInv'
    BY <1>t, <2>b, ItemsAre, WorkerItemsAre DEF CommandInv, Nothing, Owned, OneRecord, Loose,
         Attached, Unwinding, Waiting, Owning, Places, SettledTo
  <2>7. ResultInv'
    BY <1>t, <2>b DEF Whole, Unwritten, ResultInv, Nothing, Owned, Loose, Attached, Unwinding, Waiting, Owning, Places
  <2>8. WholeInv'
    BY <1>t, <2>b DEF Bare, WholeInv, Half, Owned, Loose, Attached, Unwinding, Waiting, Owning, Places
  <2>9. DriverInv'
    BY <1>t, <2>b DEF Whole, CallInv, CommandInv, ResultInv, SetupInv, DriverInv, Removing, Caller,
         Attached, Unwinding, Waiting, Owning, Places, Nothing, Owned, OneRecord, SetupOnAts
  <2>10. OwnerIsProven'
    BY <1>t, <2>b, ItemsAre, WorkerItemsAre DEF OwnerIsProven, Loose, Attached, Unwinding, Waiting,
         Owning, Places, SettledTo
  <2>11. ASSUME NEW w \in Workers PROVE LeaseInv(w)'
    BY <1>t, <2>b, ItemsAre, WorkerItemsAre DEF CallInv, MountInv, VolumeInv, DriverInv, LeaseInv,
         Caller, Attached, Unwinding, Waiting, Owning, Places, SettledTo, Loose, Fresh, Active,
         Used, OnAts, SetupOnAts
  <2>12. ASSUME NEW w \in Workers PROVE EmptyInv(w)'
    BY <1>t, <2>b, ItemsAre, WorkerItemsAre DEF EmptyInv, Abandoned, Still, Clear, Loose, Attached,
         Unwinding, Waiting, Owning, Places, SettledTo
  <2>13. LeftInv'
    BY <1>t, <2>b, <2>1, LeftAre, ItemsAre, WorkerItemsAre DEF LeftInv, Holds, CallInv, MountInv, VolumeInv, SetupInv,
         CommandInv, ResultInv, DriverInv, LeaseInv, Caller, Attached, Unwinding, Waiting, Owning, Places, Nothing, Owned,
         OneRecord, OnAts, SetupOnAts, Loose, Active, Fresh, SettledTo
  <2> QED
    BY <2>1, <2>2, <2>3, <2>4, <2>5, <2>6, <2>7, <2>8, <2>9, <2>10, <2>11, <2>12, <2>13
<1>17. CASE CorruptReceipt
  <2>b. /\ In("corrupt", {"receipt"})
        /\ host' = host
        /\ mount' = mount
        /\ disk' = disk
        /\ UNCHANGED <<Driver, Counted, diag>> /\ rec' \in Receipts
        /\ Counts
        /\ \/ Goes("mount")
           \/ Returns("bare")
    <3>1. UNCHANGED <<Driver, Counted, diag>> /\ rec' \in Receipts
      BY <1>17, <1>v DEF CorruptReceipt, Receipts
    <3> QED
      BY <1>17, <1>v, <3>1, GotoDoes, ReturnDoes, CountDoes, Zenon
      DEF CorruptReceipt, At, In, Ats, SetupAts, CommandAts, Answers
  <2> USE DEF Counts, In, Busy, Driver, Counted, Goes, Works, SvcKeeps, Returns, Types, Ats,
         SetupAts, CommandAts
  <2>1. Types'
    BY <1>t, <2>b DEF CallInv, Attached, Unwinding, Waiting, Owning, Places, Outcomes
  <2>2. CallInv'
    BY <1>t, <2>b DEF CallInv, Caller, Attached, Unwinding, Waiting, Owning, Places
  <2>3. MountInv'
    BY <1>t, <2>b DEF Caller, CallInv, MountInv, CommandInv, SetupInv, Attached, Unwinding,
         Waiting, Owning, Places, Nothing, Owned, OneRecord, OnAts, SetupOnAts
  <2>4. VolumeInv'
    BY <1>t, <2>b, ItemsAre, WorkerItemsAre DEF VolumeInv, Loose, Attached, Unwinding, Waiting,
         Owning, Places
  <2>5. SetupInv'
    BY <1>t, <2>b DEF SetupInv, Attached, Unwinding, Waiting, Owning, Places, SetupOnAts
  <2>6. CommandInv'
    BY <1>t, <2>b DEF CommandInv, Nothing, Owned, OneRecord, Attached, Unwinding, Waiting, Owning,
         Places
  <2>7. ResultInv'
    BY <1>t, <2>b DEF Whole, Unwritten, ResultInv, Nothing, Owned, Attached, Unwinding, Waiting, Owning, Places
  <2>8. WholeInv'
    BY <1>t, <2>b DEF Bare, WholeInv, Half, Owned, Attached, Unwinding, Waiting, Owning, Places
  <2>9. DriverInv'
    BY <1>t, <2>b DEF Whole, CallInv, CommandInv, ResultInv, SetupInv, DriverInv, Removing, Caller,
         Attached, Unwinding, Waiting, Owning, Places, Nothing, Owned, OneRecord, SetupOnAts
  <2>10. OwnerIsProven'
    BY <1>t, <2>b DEF OwnerIsProven, Attached, Unwinding, Waiting, Owning, Places
  <2>11. ASSUME NEW w \in Workers PROVE LeaseInv(w)'
    BY <1>t, <2>b, ItemsAre, WorkerItemsAre DEF CallInv, MountInv, VolumeInv, DriverInv, LeaseInv,
         Caller, Attached, Unwinding, Waiting, Owning, Places, Loose, Fresh, Active, Used, OnAts,
         SetupOnAts
  <2>12. ASSUME NEW w \in Workers PROVE EmptyInv(w)'
    BY <1>t, <2>b, ItemsAre, WorkerItemsAre DEF EmptyInv, Abandoned, Still, Clear, Loose, Attached,
         Unwinding, Waiting, Owning, Places
  <2>13. LeftInv'
    BY <1>t, <2>b, <2>1, LeftAre, ItemsAre, WorkerItemsAre DEF LeftInv, Holds, CallInv, MountInv, VolumeInv, SetupInv,
         CommandInv, ResultInv, DriverInv, LeaseInv, Caller, Attached, Unwinding, Waiting, Owning, Places, Nothing, Owned,
         OneRecord, OnAts, SetupOnAts, Loose, Active, Fresh
  <2> QED
    BY <2>1, <2>2, <2>3, <2>4, <2>5, <2>6, <2>7, <2>8, <2>9, <2>10, <2>11, <2>12, <2>13
<1>18. CASE CorruptCompare
  <2>b. /\ In("corrupt", {"shape"})
        /\ host' = host
        /\ mount' = mount
        /\ disk' = disk
        /\ Frame
        /\ Counts
        /\ \/ Errs("preserved")
           \/ Goes("note_captured")
           \/ Goes("journal")
           \/ Goes("marker")
           \/ Goes("flush")
    BY <1>18, <1>v, GotoDoes, FailDoes, CountDoes, Zenon DEF CorruptCompare, At, Ats, SetupAts,
         CommandAts, Answers, In
  <2> USE DEF Counts, In, Busy, Frame, Driver, Counted, Goes, Works, SvcKeeps, Errs, Types, Ats,
         SetupAts, CommandAts
  <2>1. Types'
    BY <1>t, <2>b DEF Places, Outcomes
  <2>2. CallInv'
    BY <1>t, <2>b DEF CallInv, Caller, Attached, Unwinding, Waiting, Owning, Places
  <2>3. MountInv'
    BY <1>t, <2>b DEF MountInv, Attached, Unwinding, Waiting, Owning, Places, OnAts, SetupOnAts
  <2>4. VolumeInv'
    BY <1>t, <2>b, ItemsAre, WorkerItemsAre DEF VolumeInv, Loose, Attached, Unwinding, Waiting,
         Owning, Places
  <2>5. SetupInv'
    BY <1>t, <2>b DEF SetupInv, Attached, Unwinding, Waiting, Owning, Places, SetupOnAts
  <2>6. CommandInv'
    BY <1>t, <2>b DEF CommandInv, Nothing, Owned, OneRecord, Attached, Unwinding, Waiting, Owning,
         Places
  <2>7. ResultInv'
    BY <1>t, <2>b DEF Whole, Unwritten, ResultInv, Nothing, Owned, Attached, Unwinding, Waiting, Owning, Places
  <2>8. WholeInv'
    BY <1>t, <2>b DEF Bare, WholeInv, Half, Owned, Attached, Unwinding, Waiting, Owning, Places
  <2>9. DriverInv'
    BY <1>t, <2>b DEF Whole, DriverInv, Caller, Removing, Nothing, Owned, Attached, Unwinding, Waiting,
         Owning, Places
  <2>10. OwnerIsProven'
    BY <1>t, <2>b DEF OwnerIsProven, Attached, Unwinding, Waiting, Owning, Places
  <2>11. ASSUME NEW w \in Workers PROVE LeaseInv(w)'
    BY <1>t, <2>b DEF LeaseInv, Caller, Active, Used, Fresh, Attached, Unwinding, Waiting, Owning,
         Places
  <2>12. ASSUME NEW w \in Workers PROVE EmptyInv(w)'
    BY <1>t, <2>b, ItemsAre, WorkerItemsAre DEF EmptyInv, Abandoned, Still, Clear, Loose, Attached,
         Unwinding, Waiting, Owning, Places
  <2>13. LeftInv'
    BY <1>t, <2>b, <2>1, LeftAre, ItemsAre, WorkerItemsAre DEF LeftInv, Holds, CallInv, MountInv, VolumeInv, SetupInv,
         CommandInv, ResultInv, DriverInv, LeaseInv, Caller, Attached, Unwinding, Waiting, Owning, Places, Nothing, Owned,
         OneRecord, OnAts, SetupOnAts, Loose, Active, Fresh
  <2> QED
    BY <2>1, <2>2, <2>3, <2>4, <2>5, <2>6, <2>7, <2>8, <2>9, <2>10, <2>11, <2>12, <2>13
<1>19. CASE CorruptDelete
  <2>b. /\ In("corrupt", {"journal", "marker"})
        /\ host' = host
        /\ mount' = mount
        /\ Frame
        /\ Counts
        /\ \/ DeletedTo({Journal(svc.who)}) /\ Goes("note_journal")
           \/ DeletedTo({Marker(svc.who)}) /\ Goes("note_marker")
           \/ disk' = disk /\ Errs("failed")
    BY <1>19, <1>v, GotoDoes, FailDoes, DeleteDoes, CountDoes, Zenon DEF CorruptDelete, At, Ats,
         SetupAts, CommandAts, Answers, In
  <2> USE DEF Counts, In, Busy, Frame, Driver, Counted, Goes, Works, SvcKeeps, Errs, Types, Ats,
         SetupAts, CommandAts
  <2>1. Types'
    BY <1>t, <2>b DEF Places, Outcomes, DeletedTo
  <2>2. CallInv'
    BY <1>t, <2>b DEF CallInv, Caller, Attached, Unwinding, Waiting, Owning, Places
  <2>3. MountInv'
    BY <1>t, <2>b DEF MountInv, Attached, Unwinding, Waiting, Owning, Places, OnAts, SetupOnAts
  <2>4. VolumeInv'
    BY <1>t, <2>b, ItemsAre, WorkerItemsAre DEF VolumeInv, MountInv, DeletedTo, Loose, OnAts,
         SetupOnAts, CallInv
  <2>5. SetupInv'
    BY <1>t, <2>b, ItemsAre, WorkerItemsAre DEF SetupInv, Attached, Unwinding, Waiting, Owning,
         Places, SetupOnAts, DeletedTo
  <2>6. CommandInv'
    BY <1>t, <2>b, ItemsAre, WorkerItemsAre DEF CommandInv, Nothing, Owned, OneRecord, Attached,
         Unwinding, Waiting, Owning, Places, DeletedTo
  <2>7. ResultInv'
    BY <1>t, <2>b DEF Whole, Unwritten, ResultInv, Nothing, Owned, Attached, Unwinding, Waiting, Owning, Places
  <2>8. WholeInv'
    BY <1>t, <2>b DEF Bare, WholeInv, Half, Owned, Attached, Unwinding, Waiting, Owning, Places
  <2>9. DriverInv'
    BY <1>t, <2>b DEF Whole, DriverInv, Caller, Removing, Nothing, Owned, Attached, Unwinding, Waiting,
         Owning, Places
  <2>10. OwnerIsProven'
    BY <1>t, <2>b, ItemsAre, WorkerItemsAre DEF CallInv, SetupInv, VolumeInv, OwnerIsProven,
         DeletedTo, Loose, SetupOnAts
  <2>11. ASSUME NEW w \in Workers PROVE LeaseInv(w)'
    <3>1. svc.who \in Workers /\ lease[svc.who] = "released" /\ Marker(svc.who) # PoolFile
      BY <2>b DEF CallInv, Marker, PoolFile
    <3>2. Marker(svc.who) # Journal(w) /\ Journal(svc.who) # PoolFile /\ (Journal(svc.who) = Journal(w) => svc.who = w)
      BY DEF Marker, Journal, PoolFile
    <3>3. disk'[PoolFile] = disk[PoolFile] /\ (lease[w] = "held" => disk'[Journal(w)] = disk[Journal(w)])
      BY <2>b, <3>1, <3>2, ItemsAre, WorkerItemsAre DEF DeletedTo
    <3> QED
      BY <1>t, <2>b, <3>3 DEF CallInv, LeaseInv, Caller, Attached, Unwinding, Waiting, Owning,
         Fresh, Active, Used
  <2>12. ASSUME NEW w \in Workers PROVE EmptyInv(w)'
    BY <1>t, <2>b, ItemsAre, WorkerItemsAre DEF EmptyInv, Abandoned, Still, Clear, Loose, Attached,
         Unwinding, Waiting, Owning, Places, DeletedTo
  <2>13. LeftInv'
    BY <1>t, <2>b, <2>1, LeftAre, ItemsAre, WorkerItemsAre DEF LeftInv, Holds, CallInv, MountInv, VolumeInv, SetupInv,
         CommandInv, ResultInv, DriverInv, LeaseInv, Caller, Attached, Unwinding, Waiting, Owning, Places, Nothing, Owned,
         OneRecord, OnAts, SetupOnAts, Loose, Active, Fresh, DeletedTo
  <2> QED
    BY <2>1, <2>2, <2>3, <2>4, <2>5, <2>6, <2>7, <2>8, <2>9, <2>10, <2>11, <2>12, <2>13
<1>20. CASE CorruptNote
  <2>b. /\ In("corrupt", {"note_captured", "note_journal", "note_marker", "note_flushed"})
        /\ host' = host
        /\ mount' = mount
        /\ disk' = disk
        /\ UNCHANGED <<Driver, Counted, diag>> /\ rec' \in Receipts
        /\ Counts
        /\ \/ Goes("journal")
           \/ Goes("marker")
           \/ Goes("flush")
           \/ Goes("close")
           \/ Errs("failed")
           \/ Errs("preserved")
    <3>1. PICK note \in Notes : CorruptNote!1!(note)
      BY <1>20 DEF CorruptNote
    <3>2. /\ note.at \in {"note_captured", "note_journal", "note_marker", "note_flushed"}
          /\ note.next \in {"journal", "marker", "flush", "close"}
          /\ note.rec \in Receipts
      BY DEF Notes, Receipts
    <3>3. UNCHANGED <<Driver, Counted, diag>> /\ rec' \in Receipts
      BY <1>20, <1>v, <3>1, <3>2 DEF CorruptNote
    <3>4. Goto(note.next) => Goes(note.next)
      BY <1>v, <3>2, GotoDoes DEF Ats, SetupAts, CommandAts
    <3>5. Fail(IF note.rec = "captured" THEN "failed" ELSE "preserved") => Errs("failed") \/ Errs("preserved")
      <4>1. CASE note.rec = "captured"
        BY <1>v, <4>1, FailDoes DEF Answers
      <4>2. CASE note.rec # "captured"
        BY <1>v, <4>2, FailDoes DEF Answers
      <4> QED
        BY <4>1, <4>2
    <3>6. Goes("journal") \/ Goes("marker") \/ Goes("flush") \/ Goes("close") \/ Errs("failed") \/ Errs("preserved")
      BY <3>1, <3>2, <3>4, <3>5
    <3>7. In("corrupt", {"note_captured", "note_journal", "note_marker", "note_flushed"}) /\ Counts
      BY <1>v, <3>1, <3>2, CountDoes DEF At, In
    <3> QED
      BY <1>20, <3>3, <3>6, <3>7 DEF CorruptNote
  <2> USE DEF Counts, In, Busy, Driver, Counted, Goes, Works, SvcKeeps, Errs, Types, Ats, SetupAts,
         CommandAts
  <2>1. Types'
    BY <1>t, <2>b DEF Places, Outcomes
  <2>2. CallInv'
    BY <1>t, <2>b DEF CallInv, Caller, Attached, Unwinding, Waiting, Owning, Places
  <2>3. MountInv'
    BY <1>t, <2>b DEF MountInv, Attached, Unwinding, Waiting, Owning, Places, OnAts, SetupOnAts
  <2>4. VolumeInv'
    BY <1>t, <2>b, ItemsAre, WorkerItemsAre DEF VolumeInv, Loose, Attached, Unwinding, Waiting,
         Owning, Places
  <2>5. SetupInv'
    BY <1>t, <2>b DEF SetupInv, Attached, Unwinding, Waiting, Owning, Places, SetupOnAts
  <2>6. CommandInv'
    BY <1>t, <2>b DEF CommandInv, Nothing, Owned, OneRecord, Attached, Unwinding, Waiting, Owning,
         Places
  <2>7. ResultInv'
    BY <1>t, <2>b DEF Whole, Unwritten, ResultInv, Nothing, Owned, Attached, Unwinding, Waiting, Owning, Places
  <2>8. WholeInv'
    BY <1>t, <2>b DEF Bare, WholeInv, Half, Owned, Attached, Unwinding, Waiting, Owning, Places
  <2>9. DriverInv'
    BY <1>t, <2>b DEF Whole, DriverInv, Caller, Removing, Nothing, Owned, Attached, Unwinding, Waiting,
         Owning, Places
  <2>10. OwnerIsProven'
    BY <1>t, <2>b DEF OwnerIsProven, Attached, Unwinding, Waiting, Owning, Places
  <2>11. ASSUME NEW w \in Workers PROVE LeaseInv(w)'
    BY <1>t, <2>b DEF LeaseInv, Caller, Active, Used, Fresh, Attached, Unwinding, Waiting, Owning,
         Places
  <2>12. ASSUME NEW w \in Workers PROVE EmptyInv(w)'
    BY <1>t, <2>b, ItemsAre, WorkerItemsAre DEF EmptyInv, Abandoned, Still, Clear, Loose, Attached,
         Unwinding, Waiting, Owning, Places
  <2>13. LeftInv'
    BY <1>t, <2>b, <2>1, LeftAre, ItemsAre, WorkerItemsAre DEF LeftInv, Holds, CallInv, MountInv, VolumeInv, SetupInv,
         CommandInv, ResultInv, DriverInv, LeaseInv, Caller, Attached, Unwinding, Waiting, Owning, Places, Nothing, Owned,
         OneRecord, OnAts, SetupOnAts, Loose, Active, Fresh
  <2> QED
    BY <2>1, <2>2, <2>3, <2>4, <2>5, <2>6, <2>7, <2>8, <2>9, <2>10, <2>11, <2>12, <2>13
<1>21. CASE Resume
  <2>b. /\ Busy /\ svc.at = "resume" /\ svc.tail \in {"marker", "corrupt"}
        /\ host' = host
        /\ mount' = mount
        /\ disk' = disk
        /\ told' = told
        /\ UNCHANGED <<Driver, Counted, diag>> /\ rec' \in Receipts
        /\ Counts
        /\ \/ Owned /\ Follows("remove", svc.tail) /\ (svc.tail = "corrupt" => rec' = "verified")
           \/ \E r \in Answers : Ups(r) /\ Answered(r)
    <3>1. svc.tail # "none" /\ svc.op \in {"status", "remove"} /\ svc.tail \in {"marker", "corrupt"}
      BY <1>21, <1>v DEF Resume, CallInv, Busy, Services
    <3>2. Kept(svc.result) \in Answers /\ svc.result \in Answers /\ Kept("bare") = "preserved"
      BY <1>v DEF Kept, Services, Answers
    <3>3. \A result \in Answers : Up(result) => Ups(result)
      BY <1>v, <3>1, UpDoes
    <3>4. Follow("remove") => Starts("remove", svc.back, svc.who, svc.tail)
      BY <1>v, <3>1, FollowDoes, Zenon DEF Operations
    <3>5. UNCHANGED <<Driver, Counted, diag>> /\ rec' \in Receipts
      BY <1>21, <1>v DEF Resume, Receipts
    <3>6. /\ svc.op = "status" => Owned
          /\ svc.op = "remove" => rec = "verified" \/ svc.tail # "corrupt"
          /\ svc.op = "remove" /\ svc.result = "nil" => Nothing
          /\ svc.op = "remove" /\ svc.result # "nil" => Owned \/ svc.result \in {"uncertain", "failed"}
          /\ svc.result # "released"
      BY <1>21, <3>1 DEF Resume, CommandInv, Busy
    <3>7. /\ svc.op = "status" => \A r \in Answers \ {"nil", "released"} : Answered(r)
          /\ svc.op = "remove" /\ svc.result # "nil" => Answered(Kept(svc.result))
          /\ svc.op = "remove" /\ svc.result = "nil" => Answered("nil")
          /\ svc.op = "remove" /\ svc.result = "nil" /\ svc.tail = "corrupt" /\ rec' = rec => Answered("preserved")
      BY <3>6 DEF Answered, Kept
    <3>8. /\ Busy /\ svc.at = "resume" /\ svc.tail \in {"marker", "corrupt"} /\ host' = host /\ mount' = mount /\ disk' = disk /\ Counts
          /\ told' = told \/ Follow("remove")
      BY <1>21, <1>v, <3>1, CountDoes DEF Resume, Busy
    <3>9. \/ Owned /\ Follow("remove") /\ UNCHANGED <<pc, told>> /\ (svc.tail = "corrupt" => rec' = "verified")
          \/ \E r \in Answers : Up(r) /\ Answered(r) /\ told' = told
      <4>1. CASE svc.op = "status"
        <5>1. CASE svc.result # "nil" \/ ~svc.zero
          <6>1. (IF svc.result = "nil" THEN "preserved" ELSE Kept(svc.result)) \in Answers \ {"nil", "released"}
            BY <3>2, <3>6 DEF Answers, Kept
          <6> QED
            BY <1>21, <3>7, <4>1, <5>1, <6>1 DEF Resume
        <5>2. CASE svc.result = "nil" /\ svc.zero
          BY <1>21, <3>6, <3>7, <4>1, <5>2 DEF Resume, Answers
        <5> QED
          BY <5>1, <5>2
      <4>2. CASE svc.op = "remove"
        BY <1>21, <3>2, <3>7, <4>2 DEF Resume, Answers
      <4> QED
        BY <3>1, <4>1, <4>2
    <3> QED
      BY <3>3, <3>4, <3>5, <3>8, <3>9, Zenon DEF Follows
  <2> USE DEF Counts, In, Busy, Driver, Counted, Follows, Ups, Answered, Starts, Types, Ats, SetupAts,
         CommandAts
  <2>1. Types'
    BY <1>t, <2>b DEF CallInv, Attached, Unwinding, Waiting, Owning, Places, Outcomes
  <2>2. CallInv'
    BY <1>t, <2>b DEF CallInv, Caller, Owned, Attached, Unwinding, Waiting, Owning, Places
  <2>3. MountInv'
    BY <1>t, <2>b DEF Caller, CallInv, MountInv, CommandInv, SetupInv, Attached, Unwinding,
         Waiting, Owning, Places, Nothing, Owned, OneRecord, OnAts, SetupOnAts
  <2>4. VolumeInv'
    BY <1>t, <2>b, ItemsAre, WorkerItemsAre DEF VolumeInv, Owned, Loose, Attached, Unwinding,
         Waiting, Owning, Places
  <2>5. SetupInv'
    BY <1>t, <2>b DEF SetupInv, Owned, Attached, Unwinding, Waiting, Owning, Places, SetupOnAts
  <2>6. CommandInv'
    BY <1>t, <2>b, ItemsAre, WorkerItemsAre DEF CallInv, CommandInv, OwnerIsProven, Attached,
         Unwinding, Waiting, Owning, Places, Nothing, Owned, OneRecord
  <2>7. ResultInv'
    BY <1>t, <2>b DEF Whole, Unwritten, ResultInv, Nothing, Owned, Attached, Unwinding, Waiting, Owning, Places
  <2>8. WholeInv'
    BY <1>t, <2>b DEF Bare, CallInv, CommandInv, SetupInv, WholeInv, Half, Attached, Unwinding, Waiting,
         Owning, Places, Nothing, Owned, OneRecord, SetupOnAts
  <2>9. DriverInv'
    BY <1>t, <2>b DEF Whole, CallInv, CommandInv, ResultInv, SetupInv, DriverInv, Removing, Caller,
         Attached, Unwinding, Waiting, Owning, Places, Nothing, Owned, OneRecord, SetupOnAts
  <2>10. OwnerIsProven'
    BY <1>t, <2>b DEF OwnerIsProven, Owned, Attached, Unwinding, Waiting, Owning, Places
  <2>11. ASSUME NEW w \in Workers PROVE LeaseInv(w)'
    BY <1>t, <2>b, ItemsAre, WorkerItemsAre DEF CallInv, MountInv, VolumeInv, DriverInv, LeaseInv,
         Caller, Attached, Unwinding, Waiting, Owning, Places, Loose, Fresh, Active, Used, OnAts,
         SetupOnAts
  <2>12. ASSUME NEW w \in Workers PROVE EmptyInv(w)'
    BY <1>t, <2>b, ItemsAre, WorkerItemsAre DEF EmptyInv, Owned, Abandoned, Still, Clear, Loose,
         Attached, Unwinding, Waiting, Owning, Places
  <2>13. LeftInv'
    BY <1>t, <2>b, <2>1, LeftAre, ItemsAre, WorkerItemsAre DEF LeftInv, Holds, CallInv, MountInv, VolumeInv, SetupInv,
         CommandInv, ResultInv, DriverInv, LeaseInv, Caller, Attached, Unwinding, Waiting, Owning, Places, Nothing, Owned,
         OneRecord, OnAts, SetupOnAts, Loose, Active, Fresh
  <2> QED
    BY <2>1, <2>2, <2>3, <2>4, <2>5, <2>6, <2>7, <2>8, <2>9, <2>10, <2>11, <2>12, <2>13
<1> QED
  BY <1>1, <1>2, <1>3, <1>4, <1>5, <1>6, <1>7, <1>8, <1>9, <1>10, <1>11, <1>12, <1>13, <1>14,
         <1>15, <1>16, <1>17, <1>18, <1>19, <1>20, <1>21 DEF CommandStep

\* ... of a driver ...
LEMMA DriverStepKeepsInv == ASSUME PoolInv, DriverStep PROVE PoolInv'
<1> USE DEF PoolInv
<1>t. Types BY DEF PoolInv
<1>v. /\ svc \in Services /\ told \in BOOLEAN /\ host \in Hosts /\ disk \in [Items -> States]
      /\ faults \in 0 .. MaxFaults /\ drv \in Drivers /\ rec \in Receipts /\ diag \in 0 .. N
  BY <1>t DEF Types
<1>1. CASE DriverStart
  <2>b. /\ pc = "start"
        /\ UNCHANGED <<host, mount, disk, Driver, rec, diag, Counted, told>>
        /\ Counts
        /\ Begins("setup", "d_setup")
    BY <1>1, <1>v, BeginDoes, CountDoes, Zenon DEF DriverStart, Here, CallFrom
  <2> USE DEF Counts, In, Busy, Driver, Counted, Begins, Starts, Types, Ats, SetupAts, CommandAts
  <2>1. Types'
    BY <1>t, <2>b DEF Places, Outcomes
  <2>2. CallInv'
    BY <1>t, <2>b DEF CallInv, Caller, Attached, Unwinding, Waiting, Owning, Places
  <2>3. MountInv'
    BY <1>t, <2>b DEF MountInv, Attached, Unwinding, Waiting, Owning, Places, OnAts, SetupOnAts
  <2>4. VolumeInv'
    BY <1>t, <2>b, ItemsAre, WorkerItemsAre DEF VolumeInv, Loose, Attached, Unwinding, Waiting,
         Owning, Places
  <2>5. SetupInv'
    BY <1>t, <2>b DEF SetupInv, Attached, Unwinding, Waiting, Owning, Places, SetupOnAts
  <2>6. CommandInv'
    BY <1>t, <2>b DEF CommandInv, Nothing, Owned, OneRecord, Attached, Unwinding, Waiting, Owning,
         Places
  <2>7. ResultInv'
    BY <1>t, <2>b DEF Whole, Unwritten, ResultInv, Nothing, Owned, Attached, Unwinding, Waiting, Owning, Places
  <2>8. WholeInv'
    BY <1>t, <2>b DEF Bare, WholeInv, Half, Owned, Attached, Unwinding, Waiting, Owning, Places
  <2>9. DriverInv'
    BY <1>t, <2>b DEF Whole, DriverInv, Caller, Removing, Nothing, Owned, Attached, Unwinding, Waiting,
         Owning, Places
  <2>10. OwnerIsProven'
    BY <1>t, <2>b DEF OwnerIsProven, Attached, Unwinding, Waiting, Owning, Places
  <2>11. ASSUME NEW w \in Workers PROVE LeaseInv(w)'
    BY <1>t, <2>b DEF LeaseInv, Caller, Active, Used, Fresh, Attached, Unwinding, Waiting, Owning,
         Places
  <2>12. ASSUME NEW w \in Workers PROVE EmptyInv(w)'
    BY <1>t, <2>b, ItemsAre, WorkerItemsAre DEF EmptyInv, Abandoned, Still, Clear, Loose, Attached,
         Unwinding, Waiting, Owning, Places
  <2>13. LeftInv'
    BY <1>t, <2>b, <2>1, LeftAre, ItemsAre, WorkerItemsAre DEF LeftInv, Holds, CallInv, MountInv, VolumeInv, SetupInv,
         CommandInv, ResultInv, DriverInv, LeaseInv, Caller, Attached, Unwinding, Waiting, Owning, Places, Nothing, Owned,
         OneRecord, OnAts, SetupOnAts, Loose, Active, Fresh
  <2> QED
    BY <2>1, <2>2, <2>3, <2>4, <2>5, <2>6, <2>7, <2>8, <2>9, <2>10, <2>11, <2>12, <2>13
<1>2. CASE DriverSetup
  <2>b. /\ pc = "d_setup"
        /\ UNCHANGED <<mount, disk, host, acq, lease, rec, diag, crashes, commands, told>>
        /\ Counts
        /\ \/ svc.result = "nil" /\ Begins("session", "d_mount") /\ Owns
           \/ svc.result # "nil" /\ pc' = "ended" /\ svc' = svc /\ Ends
              /\ (drv'.cleanup = "released" => Nothing \/ Whole)
    <3>1. svc.result # "nil" => SetupFailed \subseteq {"none", "not-started", "released", "preserved", "uncertain"}
      BY <1>2 DEF DriverSetup, Here, SetupFailed, ResultInv, CallInv, Caller, Busy
    <3>2. svc.result # "nil" /\ "released" \in SetupFailed => Nothing \/ Whole
      BY <1>2 DEF DriverSetup, Here, SetupFailed, ResultInv, LeftInv, Busy
    <3>3. \A state \in SetupFailed : svc.result # "nil" /\ drv' = [drv EXCEPT !.cleanup = state] =>
                                       Ends /\ drv'.cleanup = state
      BY <1>v, <3>1, DriverDoes, Zenon
    <3>4. \A state \in SetupFailed : svc.result # "nil" /\ drv' = [drv EXCEPT !.cleanup = state] =>
                                       Ends /\ (drv'.cleanup = "released" => Nothing \/ Whole)
      BY <3>2, <3>3, Zenon
    <3> QED
      BY <1>2, <1>v, <3>4, BeginDoes, DriverDoes, CountDoes, Zenon DEF DriverSetup, Here, ToPc, Counted
  <2> USE DEF Counts, In, Busy, Begins, Starts, Owns, Ends, DrvKeeps, Types, Ats, SetupAts,
         CommandAts
  <2>1. Types'
    BY <1>t, <2>b DEF Places, Outcomes
  <2>2. CallInv'
    BY <1>t, <2>b DEF CallInv, Caller, Attached, Unwinding, Waiting, Owning, Places
  <2>3. MountInv'
    BY <1>t, <2>b DEF MountInv, Attached, Unwinding, Waiting, Owning, Places, OnAts, SetupOnAts
  <2>4. VolumeInv'
    BY <1>t, <2>b, ItemsAre, WorkerItemsAre DEF VolumeInv, Loose, Attached, Unwinding, Waiting,
         Owning, Places
  <2>5. SetupInv'
    BY <1>t, <2>b DEF SetupInv, Attached, Unwinding, Waiting, Owning, Places, SetupOnAts
  <2>6. CommandInv'
    BY <1>t, <2>b DEF CommandInv, Nothing, Owned, OneRecord, Attached, Unwinding, Waiting, Owning,
         Places
  <2>7. ResultInv'
    BY <1>t, <2>b DEF Whole, Unwritten, ResultInv, Nothing, Owned, Attached, Unwinding, Waiting, Owning, Places
  <2>8. WholeInv'
    BY <1>t, <2>b DEF Bare, WholeInv, Half, Owned, Attached, Unwinding, Waiting, Owning, Places
  <2>9. DriverInv'
    BY <1>t, <2>b DEF Whole, CallInv, CommandInv, ResultInv, SetupInv, DriverInv, Removing, Caller,
         Attached, Unwinding, Waiting, Owning, Places, Nothing, Owned, OneRecord, SetupOnAts
  <2>10. OwnerIsProven'
    BY <1>t, <2>b DEF OwnerIsProven, Attached, Unwinding, Waiting, Owning, Places
  <2>11. ASSUME NEW w \in Workers PROVE LeaseInv(w)'
    BY <1>t, <2>b DEF LeaseInv, Caller, Active, Used, Fresh, Attached, Unwinding, Waiting, Owning,
         Places
  <2>12. ASSUME NEW w \in Workers PROVE EmptyInv(w)'
    BY <1>t, <2>b, ItemsAre, WorkerItemsAre DEF EmptyInv, Abandoned, Still, Clear, Loose, Attached,
         Unwinding, Waiting, Owning, Places
  <2>13. LeftInv'
    BY <1>t, <2>b, <2>1, LeftAre, ItemsAre, WorkerItemsAre DEF LeftInv, Holds, CallInv, MountInv, VolumeInv, SetupInv,
         CommandInv, ResultInv, DriverInv, LeaseInv, Caller, Attached, Unwinding, Waiting, Owning, Places, Nothing, Owned,
         OneRecord, OnAts, SetupOnAts, Loose, Active, Fresh
  <2> QED
    BY <2>1, <2>2, <2>3, <2>4, <2>5, <2>6, <2>7, <2>8, <2>9, <2>10, <2>11, <2>12, <2>13
<1>3. CASE DriverMount
  <2>b. /\ pc = "d_mount"
        /\ Quiet
        /\ UNCHANGED <<mount, disk, acq, lease>>
        /\ Counts
        /\ \/ svc.result = "nil" /\ pc' = "d_baseline" /\ Mounts
           \/ svc.result # "nil" /\ pc' = "u_release" /\ drv' = drv
    BY <1>3, <1>v, DriverDoes, CountDoes, Zenon DEF DriverMount, Here, ToPc
  <2> USE DEF Counts, In, Busy, Quiet, Mounts, DrvKeeps, Types, SetupAts, CommandAts
  <2>1. Types'
    BY <1>t, <2>b DEF CallInv, Attached, Unwinding, Waiting, Owning, Places, Outcomes
  <2>2. CallInv'
    BY <1>t, <2>b DEF CallInv, Caller, Attached, Unwinding, Waiting, Owning
  <2>3. MountInv'
    BY <1>t, <2>b DEF MountInv, Attached, Unwinding, Waiting, Owning, Places, OnAts, SetupOnAts
  <2>4. VolumeInv'
    BY <1>t, <2>b, ItemsAre, WorkerItemsAre DEF VolumeInv, Loose
  <2>5. SetupInv'
    BY <1>t, <2>b DEF SetupInv, SetupOnAts
  <2>6. CommandInv'
    BY <1>t, <2>b DEF CommandInv, Nothing, Owned, OneRecord
  <2>7. ResultInv'
    BY <1>t, <2>b DEF Whole, Unwritten, ResultInv, Nothing, Owned
  <2>8. WholeInv'
    BY <1>t, <2>b DEF Bare, WholeInv, Half, Owned
  <2>9. DriverInv'
    BY <1>t, <2>b DEF Whole, DriverInv, Caller, Removing, Nothing, Owned, Attached, Unwinding, Waiting,
         Owning
  <2>10. OwnerIsProven'
    BY <1>t, <2>b DEF OwnerIsProven
  <2>11. ASSUME NEW w \in Workers PROVE LeaseInv(w)'
    BY <1>t, <2>b DEF LeaseInv, Caller, Active, Used, Fresh
  <2>12. ASSUME NEW w \in Workers PROVE EmptyInv(w)'
    BY <1>t, <2>b, ItemsAre, WorkerItemsAre DEF EmptyInv, Abandoned, Still, Clear, Loose
  <2>13. LeftInv'
    BY <1>t, <2>b, <2>1, LeftAre, ItemsAre, WorkerItemsAre DEF LeftInv, Holds, CallInv, MountInv, VolumeInv, SetupInv,
         CommandInv, ResultInv, DriverInv, LeaseInv, Caller, Attached, Unwinding, Waiting, Owning, Places, Nothing, Owned,
         OneRecord, OnAts, SetupOnAts, Loose, Active, Fresh
  <2> QED
    BY <2>1, <2>2, <2>3, <2>4, <2>5, <2>6, <2>7, <2>8, <2>9, <2>10, <2>11, <2>12, <2>13
<1>4. CASE Baseline
  <2>b. /\ pc = "d_baseline"
        /\ Quiet
        /\ UNCHANGED <<mount, drv, lease>>
        /\ Counts
        /\ \/ pc' = "d_acquire" /\ disk' = disk /\ AcqTo /\ \A w \in Workers : acq'[w] = IF w \in Used THEN "ready" ELSE "none"
           \/ pc' \in {"s_flush", "u_release"} /\ acq' = acq /\ (disk' = disk \/ (pc' = "u_release" /\ PutTo({Rest})))
    <3>1. acq' = [w \in Workers |-> IF w \in Used THEN "ready" ELSE "none"]
             => AcqTo /\ \A w \in Workers : acq'[w] = IF w \in Used THEN "ready" ELSE "none"
      BY DEF AcqTo, Outcomes
    <3>2. ToPc(IF drv.kind = "parallel" THEN "s_flush" ELSE "u_release") => pc' \in {"s_flush", "u_release"}
      BY DEF ToPc
    <3>3. disk' \in {disk, Put(disk, {Rest})} => disk' = disk \/ PutTo({Rest})
      BY <1>v, PutDoes
    <3> QED
      BY <1>4, <1>v, <3>1, <3>2, <3>3, CountDoes, Zenon DEF Baseline, Here, ToPc
  <2> USE DEF Counts, In, Busy, Quiet, Types, SetupAts, CommandAts
  <2>1. Types'
    BY <1>t, <2>b DEF CallInv, Attached, Unwinding, Waiting, Owning, Places, AcqTo, PutTo, Outcomes
  <2>2. CallInv'
    BY <1>t, <2>b DEF CallInv, Caller, Used, Attached, Unwinding, Waiting, Owning, Outcomes
  <2>3. MountInv'
    BY <1>t, <2>b DEF MountInv, Used, Attached, Unwinding, Waiting, Owning, Places, Outcomes,
         OnAts, SetupOnAts
  <2>4. VolumeInv'
    BY <1>t, <2>b, ItemsAre, WorkerItemsAre DEF VolumeInv, MountInv, PutTo, Loose, OnAts,
         SetupOnAts, Attached
  <2>5. SetupInv'
    BY <1>t, <2>b, ItemsAre, WorkerItemsAre DEF SetupInv, Used, Outcomes, SetupOnAts, PutTo
  <2>6. CommandInv'
    BY <1>t, <2>b, ItemsAre, WorkerItemsAre DEF CommandInv, Nothing, Owned, OneRecord, Used,
         Outcomes, PutTo
  <2>7. ResultInv'
    BY <1>t, <2>b DEF Whole, Unwritten, ResultInv, Nothing, Owned, Used, Outcomes
  <2>8. WholeInv'
    BY <1>t, <2>b DEF Bare, WholeInv, Half, Owned, Used, Outcomes
  <2>9. DriverInv'
    BY <1>t, <2>b DEF Whole, DriverInv, Caller, Removing, Nothing, Owned, Used, Attached, Unwinding,
         Waiting, Owning, Outcomes
  <2>10. OwnerIsProven'
    BY <1>t, <2>b, ItemsAre, WorkerItemsAre DEF OwnerIsProven, Used, Outcomes, PutTo
  <2>11. ASSUME NEW w \in Workers PROVE LeaseInv(w)'
    BY <1>t, <2>b, ItemsAre, WorkerItemsAre DEF LeaseInv, Caller, Active, Used, Fresh, Outcomes,
         PutTo, AcqTo
  <2>12. ASSUME NEW w \in Workers PROVE EmptyInv(w)'
    BY <1>t, <2>b, ItemsAre, WorkerItemsAre DEF EmptyInv, Abandoned, Used, Still, Clear, Loose,
         Outcomes, PutTo, AcqTo
  <2>13. LeftInv'
    BY <1>t, <2>b, <2>1, LeftAre, ItemsAre, WorkerItemsAre DEF LeftInv, Holds, CallInv, MountInv, VolumeInv, SetupInv,
         CommandInv, ResultInv, DriverInv, LeaseInv, Caller, Attached, Unwinding, Waiting, Owning, Places, Nothing, Owned,
         OneRecord, OnAts, SetupOnAts, Loose, Active, Fresh, PutTo, AcqTo
  <2> QED
    BY <2>1, <2>2, <2>3, <2>4, <2>5, <2>6, <2>7, <2>8, <2>9, <2>10, <2>11, <2>12, <2>13
<1>5. CASE Checks
  <2>b. /\ pc = "d_check"
        /\ Quiet
        /\ UNCHANGED <<mount, disk, drv, acq, lease>>
        /\ Counts
        /\ pc' \in {"d_edit", "u_release"}
    BY <1>5, <1>v, CountDoes, Zenon DEF Checks, Here, ToPc
  <2> USE DEF Counts, In, Busy, Quiet, Types, SetupAts, CommandAts
  <2>1. Types'
    BY <1>t, <2>b DEF CallInv, Attached, Unwinding, Waiting, Owning, Places, Outcomes
  <2>2. CallInv'
    BY <1>t, <2>b DEF CallInv, Caller, Attached, Unwinding, Waiting, Owning
  <2>3. MountInv'
    BY <1>t, <2>b DEF MountInv, Attached, Unwinding, Waiting, Owning, Places, OnAts, SetupOnAts
  <2>4. VolumeInv'
    BY <1>t, <2>b, ItemsAre, WorkerItemsAre DEF VolumeInv, Loose
  <2>5. SetupInv'
    BY <1>t, <2>b DEF SetupInv, SetupOnAts
  <2>6. CommandInv'
    BY <1>t, <2>b DEF CommandInv, Nothing, Owned, OneRecord
  <2>7. ResultInv'
    BY <1>t, <2>b DEF Whole, Unwritten, ResultInv, Nothing, Owned
  <2>8. WholeInv'
    BY <1>t, <2>b DEF Bare, WholeInv, Half, Owned
  <2>9. DriverInv'
    BY <1>t, <2>b DEF Whole, DriverInv, Caller, Removing, Nothing, Owned, Attached, Unwinding, Waiting,
         Owning
  <2>10. OwnerIsProven'
    BY <1>t, <2>b DEF OwnerIsProven
  <2>11. ASSUME NEW w \in Workers PROVE LeaseInv(w)'
    BY <1>t, <2>b, ItemsAre, WorkerItemsAre DEF CallInv, MountInv, VolumeInv, DriverInv, LeaseInv,
         Caller, Attached, Unwinding, Waiting, Owning, Places, Loose, Fresh, Active, Used, OnAts,
         SetupOnAts
  <2>12. ASSUME NEW w \in Workers PROVE EmptyInv(w)'
    BY <1>t, <2>b, ItemsAre, WorkerItemsAre DEF EmptyInv, Abandoned, Still, Clear, Loose
  <2>13. LeftInv'
    BY <1>t, <2>b, <2>1, LeftAre, ItemsAre, WorkerItemsAre DEF LeftInv, Holds, CallInv, MountInv, VolumeInv, SetupInv,
         CommandInv, ResultInv, DriverInv, LeaseInv, Caller, Attached, Unwinding, Waiting, Owning, Places, Nothing, Owned,
         OneRecord, OnAts, SetupOnAts, Loose, Active, Fresh
  <2> QED
    BY <2>1, <2>2, <2>3, <2>4, <2>5, <2>6, <2>7, <2>8, <2>9, <2>10, <2>11, <2>12, <2>13
<1>6. CASE EditRound
  <2>b. /\ pc = "d_edit"
        /\ Quiet
        /\ UNCHANGED <<mount, disk, drv, acq, lease>>
        /\ Counts
        /\ pc' \in {"d_play", "u_release"}
    BY <1>6, <1>v, CountDoes, Zenon DEF EditRound, RunRound, Here, ToPc
  <2> USE DEF Counts, In, Busy, Quiet, Types, SetupAts, CommandAts
  <2>1. Types'
    BY <1>t, <2>b DEF CallInv, Attached, Unwinding, Waiting, Owning, Places, Outcomes
  <2>2. CallInv'
    BY <1>t, <2>b DEF CallInv, Caller, Attached, Unwinding, Waiting, Owning
  <2>3. MountInv'
    BY <1>t, <2>b DEF MountInv, Attached, Unwinding, Waiting, Owning, Places, OnAts, SetupOnAts
  <2>4. VolumeInv'
    BY <1>t, <2>b, ItemsAre, WorkerItemsAre DEF VolumeInv, Loose
  <2>5. SetupInv'
    BY <1>t, <2>b DEF SetupInv, SetupOnAts
  <2>6. CommandInv'
    BY <1>t, <2>b DEF CommandInv, Nothing, Owned, OneRecord
  <2>7. ResultInv'
    BY <1>t, <2>b DEF Whole, Unwritten, ResultInv, Nothing, Owned
  <2>8. WholeInv'
    BY <1>t, <2>b DEF Bare, WholeInv, Half, Owned
  <2>9. DriverInv'
    BY <1>t, <2>b DEF Whole, DriverInv, Caller, Removing, Nothing, Owned, Attached, Unwinding, Waiting,
         Owning
  <2>10. OwnerIsProven'
    BY <1>t, <2>b DEF OwnerIsProven
  <2>11. ASSUME NEW w \in Workers PROVE LeaseInv(w)'
    BY <1>t, <2>b, ItemsAre, WorkerItemsAre DEF CallInv, MountInv, VolumeInv, DriverInv, LeaseInv,
         Caller, Attached, Unwinding, Waiting, Owning, Places, Loose, Fresh, Active, Used, OnAts,
         SetupOnAts
  <2>12. ASSUME NEW w \in Workers PROVE EmptyInv(w)'
    BY <1>t, <2>b, ItemsAre, WorkerItemsAre DEF EmptyInv, Abandoned, Still, Clear, Loose
  <2>13. LeftInv'
    BY <1>t, <2>b, <2>1, LeftAre, ItemsAre, WorkerItemsAre DEF LeftInv, Holds, CallInv, MountInv, VolumeInv, SetupInv,
         CommandInv, ResultInv, DriverInv, LeaseInv, Caller, Attached, Unwinding, Waiting, Owning, Places, Nothing, Owned,
         OneRecord, OnAts, SetupOnAts, Loose, Active, Fresh
  <2> QED
    BY <2>1, <2>2, <2>3, <2>4, <2>5, <2>6, <2>7, <2>8, <2>9, <2>10, <2>11, <2>12, <2>13
<1>7. CASE PlayRound
  <2>b. /\ pc = "d_play"
        /\ Quiet
        /\ UNCHANGED <<mount, disk, drv, acq, lease>>
        /\ Counts
        /\ pc' \in {"l_release", "d_release", "u_release"}
    <3>1. RunRound("d_play", IF Last = 1 THEN "l_release" ELSE "d_release")
             => pc' \in {"l_release", "d_release", "u_release"} /\ (NoFault \/ Fault)
      BY DEF RunRound, ToPc
    <3>2. RunRound("d_play", IF Last = 1 THEN "l_release" ELSE "d_release")
             => pc = "d_play" /\ Quiet /\ UNCHANGED <<mount, disk, drv, acq, lease>>
      BY Zenon DEF RunRound, Here
    <3> QED
      BY <1>7, <1>v, <3>1, <3>2, CountDoes, Zenon DEF PlayRound
  <2> USE DEF Counts, In, Busy, Quiet, Types, SetupAts, CommandAts
  <2>1. Types'
    BY <1>t, <2>b DEF CallInv, Attached, Unwinding, Waiting, Owning, Places, Outcomes
  <2>2. CallInv'
    BY <1>t, <2>b DEF CallInv, Caller, Attached, Unwinding, Waiting, Owning
  <2>3. MountInv'
    BY <1>t, <2>b DEF MountInv, Attached, Unwinding, Waiting, Owning, Places, OnAts, SetupOnAts
  <2>4. VolumeInv'
    BY <1>t, <2>b, ItemsAre, WorkerItemsAre DEF VolumeInv, Loose
  <2>5. SetupInv'
    BY <1>t, <2>b DEF SetupInv, SetupOnAts
  <2>6. CommandInv'
    BY <1>t, <2>b DEF CommandInv, Nothing, Owned, OneRecord
  <2>7. ResultInv'
    BY <1>t, <2>b DEF Whole, Unwritten, ResultInv, Nothing, Owned
  <2>8. WholeInv'
    BY <1>t, <2>b DEF Bare, WholeInv, Half, Owned
  <2>9. DriverInv'
    BY <1>t, <2>b DEF Whole, DriverInv, Caller, Removing, Nothing, Owned, Attached, Unwinding, Waiting,
         Owning
  <2>10. OwnerIsProven'
    BY <1>t, <2>b DEF OwnerIsProven
  <2>11. ASSUME NEW w \in Workers PROVE LeaseInv(w)'
    BY <1>t, <2>b, ItemsAre, WorkerItemsAre DEF CallInv, MountInv, VolumeInv, DriverInv, LeaseInv,
         Caller, Attached, Unwinding, Waiting, Owning, Places, Loose, Fresh, Active, Used, OnAts,
         SetupOnAts
  <2>12. ASSUME NEW w \in Workers PROVE EmptyInv(w)'
    BY <1>t, <2>b, ItemsAre, WorkerItemsAre DEF EmptyInv, Abandoned, Still, Clear, Loose
  <2>13. LeftInv'
    BY <1>t, <2>b, <2>1, LeftAre, ItemsAre, WorkerItemsAre DEF LeftInv, Holds, CallInv, MountInv, VolumeInv, SetupInv,
         CommandInv, ResultInv, DriverInv, LeaseInv, Caller, Attached, Unwinding, Waiting, Owning, Places, Nothing, Owned,
         OneRecord, OnAts, SetupOnAts, Loose, Active, Fresh
  <2> QED
    BY <2>1, <2>2, <2>3, <2>4, <2>5, <2>6, <2>7, <2>8, <2>9, <2>10, <2>11, <2>12, <2>13
<1>8. CASE ReleaseNext
  <2>b. /\ pc = "d_release"
        /\ Quiet
        /\ UNCHANGED <<mount, drv, acq>>
        /\ Counts
        /\ pc' \in {"d_flush", "u_release"} /\ \E w \in Workers : (DeletedTo(ItemsOf(w)) /\ Releases(w)) \/ (DeletedPartly(w) /\ lease' = lease)
    <3>1. PICK w \in HeldBy :
              \/ NoFault /\ ReleaseOk(w) /\ lease' = [lease EXCEPT ![w] = "released"] /\ ToPc("d_flush")
              \/ Fault /\ ReleaseFails(w) /\ UNCHANGED lease /\ ToPc("u_release")
      BY <1>8, Zenon DEF ReleaseNext
    <3>2. w \in Workers
      BY HeldAre
    <3>3. \/ NoFault /\ DeletedTo(ItemsOf(w)) /\ Releases(w) /\ pc' = "d_flush"
          \/ Fault /\ DeletedPartly(w) /\ lease' = lease /\ pc' = "u_release"
      BY <1>t, <3>1, <3>2, ReleaseDoes, Zenon DEF ToPc
    <3>4. pc = "d_release" /\ Quiet /\ UNCHANGED <<mount, drv, acq>>
      BY <1>8, Zenon DEF ReleaseNext, Here
    <3> QED
      BY <1>v, <3>2, <3>3, <3>4, CountDoes, Zenon
  <2> USE DEF Counts, In, Busy, Quiet, Types, SetupAts, CommandAts
  <2>1. Types'
    BY <1>t, <2>b DEF CallInv, Attached, Unwinding, Waiting, Owning, Places, Releases, LeasesTo,
         DeletedTo, DeletedPartly, Outcomes
  <2>2. CallInv'
    BY <1>t, <2>b DEF CallInv, Caller, Attached, Unwinding, Waiting, Owning
  <2>3. MountInv'
    BY <1>t, <2>b DEF MountInv, Attached, Unwinding, Waiting, Owning, Places, OnAts, SetupOnAts
  <2>4. VolumeInv'
    BY <1>t, <2>b, ItemsAre, WorkerItemsAre DEF VolumeInv, MountInv, DeletedTo, DeletedPartly,
         Loose, OnAts, SetupOnAts, Attached
  <2>5. SetupInv'
    BY <1>t, <2>b, ItemsAre, WorkerItemsAre DEF SetupInv, SetupOnAts, DeletedTo, DeletedPartly
  <2>6. CommandInv'
    BY <1>t, <2>b, ItemsAre, WorkerItemsAre DEF CommandInv, Nothing, Owned, OneRecord, DeletedTo,
         DeletedPartly
  <2>7. ResultInv'
    BY <1>t, <2>b DEF Whole, Unwritten, ResultInv, Nothing, Owned
  <2>8. WholeInv'
    BY <1>t, <2>b DEF Bare, WholeInv, Half, Owned
  <2>9. DriverInv'
    BY <1>t, <2>b DEF Whole, DriverInv, Caller, Removing, Nothing, Owned, Attached, Unwinding, Waiting,
         Owning
  <2>10. OwnerIsProven'
    BY <1>t, <2>b, ItemsAre, WorkerItemsAre DEF OwnerIsProven, DeletedTo, DeletedPartly
  <2>11. ASSUME NEW w \in Workers PROVE LeaseInv(w)'
    BY <1>t, <2>b, ItemsAre, WorkerItemsAre DEF CallInv, MountInv, VolumeInv, DriverInv, LeaseInv,
         Caller, Attached, Unwinding, Waiting, Owning, Places, DeletedTo, DeletedPartly, Loose,
         Releases, LeasesTo, Fresh, Active, Used, OnAts, SetupOnAts
  <2>12. ASSUME NEW w \in Workers PROVE EmptyInv(w)'
    BY <1>t, <2>b, ItemsAre, WorkerItemsAre DEF EmptyInv, Abandoned, Still, Clear, Loose,
         DeletedTo, DeletedPartly, Releases, LeasesTo
  <2>13. LeftInv'
    BY <1>t, <2>b, <2>1, LeftAre, ItemsAre, WorkerItemsAre DEF LeftInv, Holds, CallInv, MountInv, VolumeInv, SetupInv,
         CommandInv, ResultInv, DriverInv, LeaseInv, Caller, Attached, Unwinding, Waiting, Owning, Places, Nothing, Owned,
         OneRecord, OnAts, SetupOnAts, Loose, Active, Fresh, DeletedTo, DeletedPartly, Releases
  <2> QED
    BY <2>1, <2>2, <2>3, <2>4, <2>5, <2>6, <2>7, <2>8, <2>9, <2>10, <2>11, <2>12, <2>13
<1>9. CASE FlushNext
  <2>b. /\ pc = "d_flush"
        /\ Quiet
        /\ UNCHANGED <<mount, drv, acq, lease>>
        /\ Counts
        /\ \/ FlushedTo /\ pc' \in {"l_release", "d_release"}
           \/ disk' = disk /\ pc' = "u_release"
    BY <1>9, <1>v, FlushedDoes, CountDoes, Zenon DEF FlushNext, Here, ToPc
  <2> USE DEF Counts, In, Busy, Quiet, Types, SetupAts, CommandAts
  <2>1. Types'
    BY <1>t, <2>b DEF CallInv, Attached, Unwinding, Waiting, Owning, Places, FlushedTo, Outcomes
  <2>2. CallInv'
    BY <1>t, <2>b DEF CallInv, Caller, Loose, Attached, Unwinding, Waiting, Owning
  <2>3. MountInv'
    BY <1>t, <2>b DEF MountInv, Loose, Attached, Unwinding, Waiting, Owning, Places, OnAts,
         SetupOnAts
  <2>4. VolumeInv'
    BY <1>t, <2>b, ItemsAre, WorkerItemsAre DEF VolumeInv, Loose, FlushedTo
  <2>5. SetupInv'
    BY <1>t, <2>b, ItemsAre, WorkerItemsAre DEF SetupInv, Loose, SetupOnAts, FlushedTo
  <2>6. CommandInv'
    BY <1>t, <2>b, ItemsAre, WorkerItemsAre DEF CommandInv, Nothing, Owned, OneRecord, Loose,
         FlushedTo
  <2>7. ResultInv'
    BY <1>t, <2>b DEF Whole, Unwritten, ResultInv, Nothing, Owned, Loose
  <2>8. WholeInv'
    BY <1>t, <2>b DEF Bare, WholeInv, Half, Owned, Loose
  <2>9. DriverInv'
    BY <1>t, <2>b DEF Whole, DriverInv, Caller, Removing, Nothing, Owned, Loose, Attached, Unwinding,
         Waiting, Owning
  <2>10. OwnerIsProven'
    BY <1>t, <2>b, ItemsAre, WorkerItemsAre DEF OwnerIsProven, Loose, FlushedTo
  <2>11. ASSUME NEW w \in Workers PROVE LeaseInv(w)'
    BY <1>t, <2>b, ItemsAre, WorkerItemsAre DEF CallInv, MountInv, VolumeInv, DriverInv, LeaseInv,
         Caller, Attached, Unwinding, Waiting, Owning, Places, FlushedTo, Loose, Fresh, Active,
         Used, OnAts, SetupOnAts
  <2>12. ASSUME NEW w \in Workers PROVE EmptyInv(w)'
    BY <1>t, <2>b, ItemsAre, WorkerItemsAre DEF EmptyInv, Abandoned, Still, Clear, Loose, FlushedTo
  <2>13. LeftInv'
    BY <1>t, <2>b, <2>1, LeftAre, ItemsAre, WorkerItemsAre DEF LeftInv, Holds, CallInv, MountInv, VolumeInv, SetupInv,
         CommandInv, ResultInv, DriverInv, LeaseInv, Caller, Attached, Unwinding, Waiting, Owning, Places, Nothing, Owned,
         OneRecord, OnAts, SetupOnAts, Loose, Active, Fresh, FlushedTo
  <2> QED
    BY <2>1, <2>2, <2>3, <2>4, <2>5, <2>6, <2>7, <2>8, <2>9, <2>10, <2>11, <2>12, <2>13
<1>10. ASSUME NEW v \in Workers, AcquireStart(v) PROVE PoolInv'
  <2>b. /\ acq[v] = "ready"
        /\ Quiet
        /\ UNCHANGED <<mount, pc, drv, lease>>
        /\ Counts
        /\ \/ mount = "on" /\ PutTo({Journal(v), Marker(v)}) /\ Becomes(v, "working")
           \/ disk' = disk /\ Becomes(v, "error")
    <3>1. {"working", "error"} \subseteq Outcomes
      BY DEF Outcomes
    <3> QED
      BY <1>10, <1>t, <1>v, <3>1, BecomeDoes, PutDoes, CountDoes, Zenon DEF AcquireStart, Types
  <2> USE DEF Counts, In, Busy, Quiet, Types, SetupAts, CommandAts
  <2>1. Types'
    BY <1>t, <2>b DEF Places, Outcomes, PutTo, Becomes, AcqTo
  <2>2. CallInv'
    BY <1>t, <2>b DEF CallInv, Caller, Attached, Unwinding, Waiting, Owning, Outcomes
  <2>3. MountInv'
    BY <1>t, <2>b DEF MountInv, Attached, Unwinding, Waiting, Owning, Places, Outcomes, OnAts,
         SetupOnAts
  <2>4. VolumeInv'
    BY <1>t, <2>b, ItemsAre, WorkerItemsAre DEF VolumeInv, MountInv, PutTo, Loose, OnAts,
         SetupOnAts, Attached
  <2>5. SetupInv'
    BY <1>t, <2>b, ItemsAre, WorkerItemsAre DEF SetupInv, Outcomes, SetupOnAts, PutTo
  <2>6. CommandInv'
    BY <1>t, <2>b, ItemsAre, WorkerItemsAre DEF CommandInv, Nothing, Owned, OneRecord, Outcomes,
         PutTo
  <2>7. ResultInv'
    BY <1>t, <2>b DEF Whole, Unwritten, ResultInv, Nothing, Owned, Outcomes
  <2>8. WholeInv'
    BY <1>t, <2>b DEF Bare, WholeInv, Half, Owned, Outcomes
  <2>9. DriverInv'
    BY <1>t, <2>b DEF Whole, DriverInv, Caller, Removing, Nothing, Owned, Attached, Unwinding, Waiting,
         Owning, Outcomes
  <2>10. OwnerIsProven'
    BY <1>t, <2>b, ItemsAre, WorkerItemsAre DEF OwnerIsProven, Outcomes, PutTo
  <2>11. ASSUME NEW w \in Workers PROVE LeaseInv(w)'
    BY <1>t, <2>b, ItemsAre, WorkerItemsAre DEF LeaseInv, Caller, Active, Used, Fresh, Outcomes,
         PutTo, Becomes, AcqTo
  <2>12. ASSUME NEW w \in Workers PROVE EmptyInv(w)'
    BY <1>t, <2>b, ItemsAre, WorkerItemsAre DEF CallInv, MountInv, VolumeInv, DriverInv, LeaseInv,
         EmptyInv, Caller, Attached, Unwinding, Waiting, Owning, Places, PutTo, Loose, Becomes,
         AcqTo, Fresh, Still, Clear, Abandoned, Active, Used, OnAts, SetupOnAts
  <2>13. LeftInv'
    BY <1>t, <2>b, <2>1, LeftAre, ItemsAre, WorkerItemsAre DEF LeftInv, Holds, CallInv, MountInv, VolumeInv, SetupInv,
         CommandInv, ResultInv, DriverInv, LeaseInv, Caller, Attached, Unwinding, Waiting, Owning, Places, Nothing, Owned,
         OneRecord, OnAts, SetupOnAts, Loose, Active, Fresh, PutTo, Becomes, AcqTo
  <2> QED
    BY <2>1, <2>2, <2>3, <2>4, <2>5, <2>6, <2>7, <2>8, <2>9, <2>10, <2>11, <2>12, <2>13
<1>11. ASSUME NEW v \in Workers, AcquireEnd(v) PROVE PoolInv'
  <2>b. /\ acq[v] = "working"
        /\ Quiet
        /\ UNCHANGED <<mount, pc, drv, lease>>
        /\ Counts
        /\ \/ mount = "on" /\ PutTo({Worker(v)}) /\ Becomes(v, "ok")
           \/ disk' = disk /\ Becomes(v, "error")
           \/ mount = "on" /\ DeletedTo(ItemsOf(v)) /\ Becomes(v, "error")
    <3>1. {"ok", "error"} \subseteq Outcomes
      BY DEF Outcomes
    <3>2. acq \in [Workers -> Outcomes]
      BY <1>t DEF Types
    <3> QED
      BY <1>11, <1>t, <1>v, <3>1, <3>2, BecomeDoes, PutDoes, ReleaseDoes, CountDoes, Zenon DEF AcquireEnd
  <2> USE DEF Counts, In, Busy, Quiet, Types, SetupAts, CommandAts
  <2>1. Types'
    BY <1>t, <2>b DEF Places, Outcomes, PutTo, DeletedTo, Becomes, AcqTo
  <2>2. CallInv'
    BY <1>t, <2>b DEF CallInv, Caller, Attached, Unwinding, Waiting, Owning, Outcomes
  <2>3. MountInv'
    BY <1>t, <2>b DEF MountInv, Attached, Unwinding, Waiting, Owning, Places, Outcomes, OnAts,
         SetupOnAts
  <2>4. VolumeInv'
    BY <1>t, <2>b, ItemsAre, WorkerItemsAre DEF VolumeInv, MountInv, PutTo, DeletedTo, Loose,
         OnAts, SetupOnAts, Attached
  <2>5. SetupInv'
    BY <1>t, <2>b, ItemsAre, WorkerItemsAre DEF SetupInv, Outcomes, SetupOnAts, PutTo, DeletedTo
  <2>6. CommandInv'
    BY <1>t, <2>b, ItemsAre, WorkerItemsAre DEF CommandInv, Nothing, Owned, OneRecord, Outcomes,
         PutTo, DeletedTo
  <2>7. ResultInv'
    BY <1>t, <2>b DEF Whole, Unwritten, ResultInv, Nothing, Owned, Outcomes
  <2>8. WholeInv'
    BY <1>t, <2>b DEF Bare, WholeInv, Half, Owned, Outcomes
  <2>9. DriverInv'
    BY <1>t, <2>b DEF Whole, DriverInv, Caller, Removing, Nothing, Owned, Attached, Unwinding, Waiting,
         Owning, Outcomes
  <2>10. OwnerIsProven'
    BY <1>t, <2>b, ItemsAre, WorkerItemsAre DEF OwnerIsProven, Outcomes, PutTo, DeletedTo
  <2>11. ASSUME NEW w \in Workers PROVE LeaseInv(w)'
    BY <1>t, <2>b, ItemsAre, WorkerItemsAre DEF LeaseInv, Caller, Active, Used, Fresh, Outcomes,
         PutTo, DeletedTo, Becomes, AcqTo
  <2>12. ASSUME NEW w \in Workers PROVE EmptyInv(w)'
    BY <1>t, <2>b, ItemsAre, WorkerItemsAre DEF CallInv, MountInv, VolumeInv, DriverInv, LeaseInv,
         EmptyInv, Caller, Attached, Unwinding, Waiting, Owning, Places, PutTo, DeletedTo, Loose,
         Becomes, AcqTo, Fresh, Still, Clear, Abandoned, Active, Used, OnAts, SetupOnAts
  <2>13. LeftInv'
    BY <1>t, <2>b, <2>1, LeftAre, ItemsAre, WorkerItemsAre DEF LeftInv, Holds, CallInv, MountInv, VolumeInv, SetupInv,
         CommandInv, ResultInv, DriverInv, LeaseInv, Caller, Attached, Unwinding, Waiting, Owning, Places, Nothing, Owned,
         OneRecord, OnAts, SetupOnAts, Loose, Active, Fresh, PutTo, DeletedTo, Becomes, AcqTo
  <2> QED
    BY <2>1, <2>2, <2>3, <2>4, <2>5, <2>6, <2>7, <2>8, <2>9, <2>10, <2>11, <2>12, <2>13
<1>12. ASSUME NEW v \in Workers, Collect(v) PROVE PoolInv'
  <2>b. /\ pc = "d_acquire" /\ acq[v] \in {"ok", "error"}
        /\ Quiet
        /\ UNCHANGED <<mount, disk, drv>>
        /\ pc' \in {"u_release", "d_check", "d_acquire"}
        /\ pc' # "d_acquire" => drv.kind = "gnf" \/ \A w \in Workers : acq'[w] \notin Active
        /\ Counts
        /\ \/ acq[v] = "ok" /\ Becomes(v, "taken") /\ Leased(v)
           \/ acq[v] = "error" /\ Becomes(v, "failed") /\ lease' = lease
    <3>1. acq \in [Workers -> Outcomes] /\ lease \in [Workers -> {"none", "held", "released"}] /\ {"taken", "failed"} \subseteq Outcomes
      BY <1>t DEF Types, Outcomes
    <3>2. \/ acq[v] = "ok" /\ Becomes(v, "taken") /\ Leased(v)
          \/ acq[v] = "error" /\ Becomes(v, "failed") /\ lease' = lease
      <4>1. CASE acq[v] = "ok"
        <5>1. acq' = [acq EXCEPT ![v] = "taken"] /\ lease' = [lease EXCEPT ![v] = "held"]
          BY <1>12, <4>1 DEF Collect
        <5> QED
          BY <1>t, <3>1, <4>1, <5>1, BecomeDoes, ReleaseDoes, Zenon
      <4>2. CASE acq[v] = "error"
        <5>1. acq' = [acq EXCEPT ![v] = "failed"] /\ lease' = [lease EXCEPT ![v] = lease[v]]
          BY <1>12, <4>2 DEF Collect
        <5>2. lease' = lease
          BY <3>1, <5>1
        <5> QED
          BY <3>1, <4>2, <5>1, <5>2, BecomeDoes, Zenon
      <4> QED
        BY <1>12, <4>1, <4>2 DEF Collect
    <3>3. pc = "d_acquire" /\ drv.kind \in {"phase2", "parallel", "gnf"}
      BY <1>12, <1>v, RefsPoolAssumption DEF Collect, Here, DriverInv, Caller, Owning, Attached, Drivers
    <3>4. \A w \in Workers : acq'[w] \in Active => w \in Used
      BY <1>12, <3>2, <3>3 DEF LeaseInv, Becomes, Active
    <3>5. /\ pc' \in {"u_release", "d_check", "d_acquire"}
          /\ pc' # "d_acquire" =>
                 \/ \A w \in Used : acq'[w] \notin Active
                 \/ drv.kind # "parallel" /\ \E w \in Used : acq'[w] = "failed"
      BY <1>12 DEF Collect, ToPc, Active
    <3>6. pc' # "d_acquire" => drv.kind = "gnf" \/ \A w \in Workers : acq'[w] \notin Active
      BY <3>3, <3>4, <3>5 DEF Used, Active
    <3> QED
      BY <1>12, <1>v, <3>2, <3>3, <3>5, <3>6, CountDoes, Zenon DEF Collect
  <2> USE DEF Counts, In, Busy, Quiet, Types, SetupAts, CommandAts
  <2>1. Types'
    BY <1>t, <2>b DEF CallInv, Attached, Unwinding, Waiting, Owning, Places, Becomes, AcqTo,
         LeasesTo, Leased, Outcomes
  <2>2. CallInv'
    BY <1>t, <2>b DEF CallInv, Caller, Active, Attached, Unwinding, Waiting, Owning, Outcomes
  <2>3. MountInv'
    BY <1>t, <2>b DEF MountInv, Active, Attached, Unwinding, Waiting, Owning, Places, Outcomes,
         OnAts, SetupOnAts
  <2>4. VolumeInv'
    BY <1>t, <2>b, ItemsAre, WorkerItemsAre DEF VolumeInv, Active, Loose, Outcomes
  <2>5. SetupInv'
    BY <1>t, <2>b DEF SetupInv, Active, Outcomes, SetupOnAts
  <2>6. CommandInv'
    BY <1>t, <2>b DEF CommandInv, Nothing, Owned, OneRecord, Active, Outcomes
  <2>7. ResultInv'
    BY <1>t, <2>b DEF Whole, Unwritten, ResultInv, Nothing, Owned, Active, Outcomes
  <2>8. WholeInv'
    BY <1>t, <2>b DEF Bare, WholeInv, Half, Owned, Active, Outcomes
  <2>9. DriverInv'
    BY <1>t, <2>b DEF Whole, DriverInv, Caller, Removing, Nothing, Owned, Active, Attached, Unwinding,
         Waiting, Owning, Outcomes
  <2>10. OwnerIsProven'
    BY <1>t, <2>b DEF OwnerIsProven, Active, Outcomes
  <2>11. ASSUME NEW w \in Workers PROVE LeaseInv(w)'
    BY <1>t, <2>b, ItemsAre, WorkerItemsAre DEF CallInv, MountInv, VolumeInv, DriverInv, LeaseInv,
         Caller, Attached, Unwinding, Waiting, Owning, Places, Loose, Becomes, AcqTo, LeasesTo,
         Leased, Fresh, Active, Used, OnAts, SetupOnAts, OwnerIsProven, Owned
  <2>12. ASSUME NEW w \in Workers PROVE EmptyInv(w)'
    BY <1>t, <2>b, ItemsAre, WorkerItemsAre DEF EmptyInv, Abandoned, Active, Still, Clear, Loose,
         Outcomes, Becomes, AcqTo, LeasesTo, Leased
  <2>13. LeftInv'
    BY <1>t, <2>b, <2>1, LeftAre, ItemsAre, WorkerItemsAre DEF LeftInv, Holds, CallInv, MountInv, VolumeInv, SetupInv,
         CommandInv, ResultInv, DriverInv, LeaseInv, Caller, Attached, Unwinding, Waiting, Owning, Places, Nothing, Owned,
         OneRecord, OnAts, SetupOnAts, Loose, Active, Fresh, Becomes, Leased, AcqTo
  <2> QED
    BY <2>1, <2>2, <2>3, <2>4, <2>5, <2>6, <2>7, <2>8, <2>9, <2>10, <2>11, <2>12, <2>13
<1>13. CASE LastRelease
  <2>b. /\ pc = "l_release"
        /\ Quiet
        /\ UNCHANGED <<mount, acq>>
        /\ pc' = "l_flush"
        /\ Counts
        /\ \/ DeletedTo(ItemsOf(Last)) /\ Releases(Last) /\ drv' = drv
           \/ DeletedPartly(Last) /\ lease' = lease /\ Remarks
    BY <1>13, <1>t, <1>v, HeldAre, ReleaseDoes, DriverDoes, CountDoes, Zenon DEF LastRelease, Here, ToPc
  <2> USE DEF Counts, In, Busy, Quiet, Remarks, DrvKeeps, Types, SetupAts, CommandAts
  <2>1. Types'
    BY <1>t, <2>b DEF CallInv, Attached, Unwinding, Waiting, Owning, Places, Releases, LeasesTo,
         DeletedTo, DeletedPartly, Outcomes
  <2>2. CallInv'
    BY <1>t, <2>b DEF CallInv, Caller, Attached, Unwinding, Waiting, Owning
  <2>3. MountInv'
    BY <1>t, <2>b DEF MountInv, Attached, Unwinding, Waiting, Owning, Places, OnAts, SetupOnAts
  <2>4. VolumeInv'
    BY <1>t, <2>b, ItemsAre, WorkerItemsAre, HeldAre DEF VolumeInv, MountInv, DeletedTo,
         DeletedPartly, Loose, OnAts, SetupOnAts, Attached
  <2>5. SetupInv'
    BY <1>t, <2>b, ItemsAre, WorkerItemsAre DEF SetupInv, SetupOnAts, DeletedTo, DeletedPartly
  <2>6. CommandInv'
    BY <1>t, <2>b, ItemsAre, WorkerItemsAre DEF CommandInv, Nothing, Owned, OneRecord, DeletedTo,
         DeletedPartly
  <2>7. ResultInv'
    BY <1>t, <2>b DEF Whole, Unwritten, ResultInv, Nothing, Owned
  <2>8. WholeInv'
    BY <1>t, <2>b DEF Bare, WholeInv, Half, Owned
  <2>9. DriverInv'
    BY <1>t, <2>b DEF Whole, DriverInv, Caller, Removing, Nothing, Owned, Attached, Unwinding, Waiting,
         Owning
  <2>10. OwnerIsProven'
    BY <1>t, <2>b, ItemsAre, WorkerItemsAre, HeldAre DEF OwnerIsProven, DeletedTo, DeletedPartly
  <2>11. ASSUME NEW w \in Workers PROVE LeaseInv(w)'
    BY <1>t, <2>b, ItemsAre, WorkerItemsAre, HeldAre DEF LeaseInv, Caller, Active, Used, Fresh,
         DeletedTo, DeletedPartly, Releases, LeasesTo
  <2>12. ASSUME NEW w \in Workers PROVE EmptyInv(w)'
    BY <1>t, <2>b, ItemsAre, WorkerItemsAre DEF EmptyInv, Abandoned, Still, Clear, Loose,
         DeletedTo, DeletedPartly, Releases, LeasesTo
  <2>13. LeftInv'
    BY <1>t, <2>b, <2>1, LeftAre, ItemsAre, WorkerItemsAre DEF LeftInv, Holds, CallInv, MountInv, VolumeInv, SetupInv,
         CommandInv, ResultInv, DriverInv, LeaseInv, Caller, Attached, Unwinding, Waiting, Owning, Places, Nothing, Owned,
         OneRecord, OnAts, SetupOnAts, Loose, Active, Fresh, DeletedTo, DeletedPartly, Releases
  <2> QED
    BY <2>1, <2>2, <2>3, <2>4, <2>5, <2>6, <2>7, <2>8, <2>9, <2>10, <2>11, <2>12, <2>13
<1>14. CASE LastFlush
  <2>b. /\ pc = "l_flush"
        /\ Quiet
        /\ UNCHANGED <<mount, acq, lease>>
        /\ (disk' = disk \/ FlushedTo)
        /\ Counts
        /\ \/ Residual = {} /\ pc' = "l_detach" /\ drv' = drv
           \/ pc' = "u_release" /\ Remarks
    BY <1>14, <1>v, DriverDoes, FlushedDoes, CountDoes, Zenon DEF LastFlush, Here, ToPc, Preserve
  <2> USE DEF Counts, In, Busy, Quiet, Remarks, DrvKeeps, Types, SetupAts, CommandAts
  <2>1. Types'
    BY <1>t, <2>b DEF CallInv, Attached, Unwinding, Waiting, Owning, Places, FlushedTo, Outcomes
  <2>2. CallInv'
    BY <1>t, <2>b DEF CallInv, Caller, Loose, Attached, Unwinding, Waiting, Owning
  <2>3. MountInv'
    BY <1>t, <2>b DEF MountInv, Loose, Attached, Unwinding, Waiting, Owning, Places, OnAts,
         SetupOnAts
  <2>4. VolumeInv'
    BY <1>t, <2>b, ItemsAre, WorkerItemsAre DEF VolumeInv, Loose, FlushedTo
  <2>5. SetupInv'
    BY <1>t, <2>b, ItemsAre, WorkerItemsAre DEF SetupInv, Loose, SetupOnAts, FlushedTo
  <2>6. CommandInv'
    BY <1>t, <2>b, ItemsAre, WorkerItemsAre DEF CommandInv, Nothing, Owned, OneRecord, Loose,
         FlushedTo
  <2>7. ResultInv'
    BY <1>t, <2>b DEF Whole, Unwritten, ResultInv, Nothing, Owned, Loose
  <2>8. WholeInv'
    BY <1>t, <2>b DEF Bare, WholeInv, Half, Owned, Loose
  <2>9. DriverInv'
    BY <1>t, <2>b DEF Whole, DriverInv, Caller, Removing, Nothing, Owned, Loose, Attached, Unwinding,
         Waiting, Owning
  <2>10. OwnerIsProven'
    BY <1>t, <2>b, ItemsAre, WorkerItemsAre DEF OwnerIsProven, Loose, FlushedTo
  <2>11. ASSUME NEW w \in Workers PROVE LeaseInv(w)'
    BY <1>t, <2>b, ItemsAre, WorkerItemsAre DEF CallInv, MountInv, VolumeInv, DriverInv, LeaseInv,
         Caller, Attached, Unwinding, Waiting, Owning, Places, FlushedTo, Loose, Fresh, Active,
         Used, OnAts, SetupOnAts, Residual, Residue, Visible, States
  <2>12. ASSUME NEW w \in Workers PROVE EmptyInv(w)'
    BY <1>t, <2>b, ItemsAre, WorkerItemsAre DEF EmptyInv, Abandoned, Still, Clear, Loose, FlushedTo
  <2>13. LeftInv'
    BY <1>t, <2>b, <2>1, LeftAre, ItemsAre, WorkerItemsAre DEF LeftInv, Holds, CallInv, MountInv, VolumeInv, SetupInv,
         CommandInv, ResultInv, DriverInv, LeaseInv, Caller, Attached, Unwinding, Waiting, Owning, Places, Nothing, Owned,
         OneRecord, OnAts, SetupOnAts, Loose, Active, Fresh, FlushedTo
  <2> QED
    BY <2>1, <2>2, <2>3, <2>4, <2>5, <2>6, <2>7, <2>8, <2>9, <2>10, <2>11, <2>12, <2>13
<1>15. CASE LastDetach
  <2>b. /\ pc = "l_detach"
        /\ UNCHANGED <<host, acq, lease, rec, diag, crashes, commands, told>>
        /\ SettledTo
        /\ Counts
        /\ \/ mount' = "no" /\ Unmounts /\ Begins("status", "l_status")
           \/ mount' \in {"no", "stuck"} /\ pc' = "u_release" /\ Remarks /\ svc' = svc
    BY <1>15, <1>v, BeginDoes, DriverDoes, SettledDoes, CountDoes, Zenon DEF LastDetach, Here,
         ToPc, Preserve, CloseVolume, CloseFails, Counted, Joined
  <2> USE DEF Counts, In, Busy, Begins, Starts, Unmounts, Remarks, DrvKeeps, Types, Ats, SetupAts,
         CommandAts
  <2>1. Types'
    BY <1>t, <2>b DEF CallInv, Attached, Unwinding, Waiting, Owning, Places, SettledTo, Outcomes
  <2>2. CallInv'
    BY <1>t, <2>b DEF CallInv, Caller, Loose, Attached, Unwinding, Waiting, Owning, Places
  <2>3. MountInv'
    BY <1>t, <2>b DEF MountInv, Loose, Attached, Unwinding, Waiting, Owning, Places, OnAts,
         SetupOnAts
  <2>4. VolumeInv'
    BY <1>t, <2>b, ItemsAre, WorkerItemsAre DEF VolumeInv, Loose, Attached, Unwinding, Waiting,
         Owning, Places, SettledTo
  <2>5. SetupInv'
    BY <1>t, <2>b, ItemsAre, WorkerItemsAre DEF SetupInv, Loose, Attached, Unwinding, Waiting,
         Owning, Places, SetupOnAts, SettledTo
  <2>6. CommandInv'
    BY <1>t, <2>b, ItemsAre, WorkerItemsAre DEF CommandInv, Nothing, Owned, OneRecord, Loose,
         Attached, Unwinding, Waiting, Owning, Places, SettledTo
  <2>7. ResultInv'
    BY <1>t, <2>b DEF Whole, Unwritten, ResultInv, Nothing, Owned, Loose, Attached, Unwinding, Waiting, Owning, Places
  <2>8. WholeInv'
    BY <1>t, <2>b DEF Bare, WholeInv, Half, Owned, Loose, Attached, Unwinding, Waiting, Owning, Places
  <2>9. DriverInv'
    BY <1>t, <2>b DEF Whole, DriverInv, Caller, Removing, Nothing, Owned, Loose, Attached, Unwinding,
         Waiting, Owning, Places
  <2>10. OwnerIsProven'
    BY <1>t, <2>b, ItemsAre, WorkerItemsAre DEF OwnerIsProven, Loose, Attached, Unwinding, Waiting,
         Owning, Places, SettledTo
  <2>11. ASSUME NEW w \in Workers PROVE LeaseInv(w)'
    BY <1>t, <2>b, ItemsAre, WorkerItemsAre DEF LeaseInv, Caller, Active, Used, Fresh, Loose,
         Attached, Unwinding, Waiting, Owning, Places, SettledTo
  <2>12. ASSUME NEW w \in Workers PROVE EmptyInv(w)'
    BY <1>t, <2>b, ItemsAre, WorkerItemsAre DEF EmptyInv, Abandoned, Still, Clear, Loose, Attached,
         Unwinding, Waiting, Owning, Places, SettledTo
  <2>13. LeftInv'
    BY <1>t, <2>b, <2>1, LeftAre, ItemsAre, WorkerItemsAre DEF LeftInv, Holds, CallInv, MountInv, VolumeInv, SetupInv,
         CommandInv, ResultInv, DriverInv, LeaseInv, Caller, Attached, Unwinding, Waiting, Owning, Places, Nothing, Owned,
         OneRecord, OnAts, SetupOnAts, Loose, Active, Fresh, SettledTo
  <2> QED
    BY <2>1, <2>2, <2>3, <2>4, <2>5, <2>6, <2>7, <2>8, <2>9, <2>10, <2>11, <2>12, <2>13
<1>16. CASE LastStatus
  <2>b. /\ pc = "l_status"
        /\ UNCHANGED <<mount, disk, host, acq, lease, rec, diag, crashes, commands, told>>
        /\ Counts
        /\ \/ Begins("remove", "l_remove") /\ drv' = drv
           \/ pc' = "u_release" /\ Remarks /\ svc' = svc
    BY <1>16, <1>v, BeginDoes, DriverDoes, CountDoes, Zenon DEF LastStatus, Here, ToPc, Preserve,
         Counted, Joined
  <2> USE DEF Counts, In, Busy, Begins, Starts, Remarks, DrvKeeps, Types, Ats, SetupAts, CommandAts
  <2>1. Types'
    BY <1>t, <2>b DEF CallInv, Attached, Unwinding, Waiting, Owning, Places, Outcomes
  <2>2. CallInv'
    BY <1>t, <2>b DEF CallInv, Caller, Attached, Unwinding, Waiting, Owning, Places
  <2>3. MountInv'
    BY <1>t, <2>b DEF MountInv, Attached, Unwinding, Waiting, Owning, Places, OnAts, SetupOnAts
  <2>4. VolumeInv'
    BY <1>t, <2>b, ItemsAre, WorkerItemsAre DEF VolumeInv, Loose, Attached, Unwinding, Waiting,
         Owning, Places
  <2>5. SetupInv'
    BY <1>t, <2>b DEF SetupInv, Attached, Unwinding, Waiting, Owning, Places, SetupOnAts
  <2>6. CommandInv'
    BY <1>t, <2>b DEF CommandInv, Nothing, Owned, OneRecord, Attached, Unwinding, Waiting, Owning,
         Places
  <2>7. ResultInv'
    BY <1>t, <2>b DEF Whole, Unwritten, ResultInv, Nothing, Owned, Attached, Unwinding, Waiting, Owning, Places
  <2>8. WholeInv'
    BY <1>t, <2>b DEF Bare, WholeInv, Half, Owned, Attached, Unwinding, Waiting, Owning, Places
  <2>9. DriverInv'
    BY <1>t, <2>b DEF Whole, DriverInv, Caller, Removing, Nothing, Owned, Attached, Unwinding, Waiting,
         Owning, Places
  <2>10. OwnerIsProven'
    BY <1>t, <2>b DEF OwnerIsProven, Attached, Unwinding, Waiting, Owning, Places
  <2>11. ASSUME NEW w \in Workers PROVE LeaseInv(w)'
    BY <1>t, <2>b DEF LeaseInv, Caller, Active, Used, Fresh, Attached, Unwinding, Waiting, Owning,
         Places
  <2>12. ASSUME NEW w \in Workers PROVE EmptyInv(w)'
    BY <1>t, <2>b, ItemsAre, WorkerItemsAre DEF EmptyInv, Abandoned, Still, Clear, Loose, Attached,
         Unwinding, Waiting, Owning, Places
  <2>13. LeftInv'
    BY <1>t, <2>b, <2>1, LeftAre, ItemsAre, WorkerItemsAre DEF LeftInv, Holds, CallInv, MountInv, VolumeInv, SetupInv,
         CommandInv, ResultInv, DriverInv, LeaseInv, Caller, Attached, Unwinding, Waiting, Owning, Places, Nothing, Owned,
         OneRecord, OnAts, SetupOnAts, Loose, Active, Fresh
  <2> QED
    BY <2>1, <2>2, <2>3, <2>4, <2>5, <2>6, <2>7, <2>8, <2>9, <2>10, <2>11, <2>12, <2>13
<1>17. CASE LastRemove
  <2>b. /\ pc = "l_remove"
        /\ Quiet
        /\ UNCHANGED <<mount, disk, acq, lease>>
        /\ pc' = "u_release"
        /\ Counts
        /\ \/ svc.result = "nil" /\ Disowns
           \/ svc.result # "nil" /\ Remarks
    BY <1>17, <1>v, DriverDoes, CountDoes, Zenon DEF LastRemove, Here, ToPc, Preserve
  <2> USE DEF Counts, In, Busy, Quiet, Disowns, Remarks, DrvKeeps, Types, SetupAts, CommandAts
  <2>1. Types'
    BY <1>t, <2>b DEF CallInv, Attached, Unwinding, Waiting, Owning, Places, Outcomes
  <2>2. CallInv'
    BY <1>t, <2>b DEF CallInv, Caller, Attached, Unwinding, Waiting, Owning
  <2>3. MountInv'
    BY <1>t, <2>b DEF MountInv, Attached, Unwinding, Waiting, Owning, Places, OnAts, SetupOnAts
  <2>4. VolumeInv'
    BY <1>t, <2>b, ItemsAre, WorkerItemsAre DEF VolumeInv, Loose
  <2>5. SetupInv'
    BY <1>t, <2>b DEF SetupInv, SetupOnAts
  <2>6. CommandInv'
    BY <1>t, <2>b DEF CommandInv, Nothing, Owned, OneRecord
  <2>7. ResultInv'
    BY <1>t, <2>b DEF Whole, Unwritten, ResultInv, Nothing, Owned
  <2>8. WholeInv'
    BY <1>t, <2>b DEF Bare, WholeInv, Half, Owned
  <2>9. DriverInv'
    BY <1>t, <2>b DEF Whole, CallInv, CommandInv, ResultInv, SetupInv, DriverInv, Removing, Caller,
         Attached, Unwinding, Waiting, Owning, Nothing, Owned, OneRecord, SetupOnAts
  <2>10. OwnerIsProven'
    BY <1>t, <2>b DEF OwnerIsProven
  <2>11. ASSUME NEW w \in Workers PROVE LeaseInv(w)'
    BY <1>t, <2>b DEF LeaseInv, Caller, Active, Used, Fresh
  <2>12. ASSUME NEW w \in Workers PROVE EmptyInv(w)'
    BY <1>t, <2>b, ItemsAre, WorkerItemsAre DEF EmptyInv, Abandoned, Still, Clear, Loose
  <2>13. LeftInv'
    BY <1>t, <2>b, <2>1, LeftAre, ItemsAre, WorkerItemsAre DEF LeftInv, Holds, CallInv, MountInv, VolumeInv, SetupInv,
         CommandInv, ResultInv, DriverInv, LeaseInv, Caller, Attached, Unwinding, Waiting, Owning, Places, Nothing, Owned,
         OneRecord, OnAts, SetupOnAts, Loose, Active, Fresh
  <2> QED
    BY <2>1, <2>2, <2>3, <2>4, <2>5, <2>6, <2>7, <2>8, <2>9, <2>10, <2>11, <2>12, <2>13
<1>18. CASE SizingFlush
  <2>b. /\ pc = "s_flush"
        /\ Quiet
        /\ UNCHANGED <<mount, drv, acq, lease>>
        /\ Counts
        /\ \/ FlushedTo /\ pc' = "s_close"
           \/ disk' = disk /\ pc' = "u_release"
    BY <1>18, <1>v, FlushedDoes, CountDoes, Zenon DEF SizingFlush, Here, ToPc
  <2> USE DEF Counts, In, Busy, Quiet, Types, SetupAts, CommandAts
  <2>1. Types'
    BY <1>t, <2>b DEF CallInv, Attached, Unwinding, Waiting, Owning, Places, FlushedTo, Outcomes
  <2>2. CallInv'
    BY <1>t, <2>b DEF CallInv, Caller, Loose, Attached, Unwinding, Waiting, Owning
  <2>3. MountInv'
    BY <1>t, <2>b DEF MountInv, Loose, Attached, Unwinding, Waiting, Owning, Places, OnAts,
         SetupOnAts
  <2>4. VolumeInv'
    BY <1>t, <2>b, ItemsAre, WorkerItemsAre DEF VolumeInv, Loose, FlushedTo
  <2>5. SetupInv'
    BY <1>t, <2>b, ItemsAre, WorkerItemsAre DEF SetupInv, Loose, SetupOnAts, FlushedTo
  <2>6. CommandInv'
    BY <1>t, <2>b, ItemsAre, WorkerItemsAre DEF CommandInv, Nothing, Owned, OneRecord, Loose,
         FlushedTo
  <2>7. ResultInv'
    BY <1>t, <2>b DEF Whole, Unwritten, ResultInv, Nothing, Owned, Loose
  <2>8. WholeInv'
    BY <1>t, <2>b DEF Bare, WholeInv, Half, Owned, Loose
  <2>9. DriverInv'
    BY <1>t, <2>b DEF Whole, DriverInv, Caller, Removing, Nothing, Owned, Loose, Attached, Unwinding,
         Waiting, Owning
  <2>10. OwnerIsProven'
    BY <1>t, <2>b, ItemsAre, WorkerItemsAre DEF OwnerIsProven, Loose, FlushedTo
  <2>11. ASSUME NEW w \in Workers PROVE LeaseInv(w)'
    BY <1>t, <2>b, ItemsAre, WorkerItemsAre DEF LeaseInv, Caller, Active, Used, Fresh, Loose,
         FlushedTo
  <2>12. ASSUME NEW w \in Workers PROVE EmptyInv(w)'
    BY <1>t, <2>b, ItemsAre, WorkerItemsAre DEF EmptyInv, Abandoned, Still, Clear, Loose, FlushedTo
  <2>13. LeftInv'
    BY <1>t, <2>b, <2>1, LeftAre, ItemsAre, WorkerItemsAre DEF LeftInv, Holds, CallInv, MountInv, VolumeInv, SetupInv,
         CommandInv, ResultInv, DriverInv, LeaseInv, Caller, Attached, Unwinding, Waiting, Owning, Places, Nothing, Owned,
         OneRecord, OnAts, SetupOnAts, Loose, Active, Fresh, FlushedTo
  <2> QED
    BY <2>1, <2>2, <2>3, <2>4, <2>5, <2>6, <2>7, <2>8, <2>9, <2>10, <2>11, <2>12, <2>13
<1>19. CASE SizingClose
  <2>b. /\ pc = "s_close"
        /\ UNCHANGED <<host, acq, lease, rec, diag, crashes, commands, told>>
        /\ SettledTo
        /\ Counts
        /\ \/ mount' = "no" /\ Unmounts /\ Begins("remove", "s_remove")
           \/ mount' \in {"no", "stuck"} /\ pc' = "u_release" /\ drv' = drv /\ svc' = svc
    BY <1>19, <1>v, BeginDoes, DriverDoes, SettledDoes, CountDoes, Zenon DEF SizingClose, Here,
         ToPc, CloseVolume, CloseFails, Counted, Joined
  <2> USE DEF Counts, In, Busy, Begins, Starts, Unmounts, DrvKeeps, Types, Ats, SetupAts, CommandAts
  <2>1. Types'
    BY <1>t, <2>b DEF CallInv, Attached, Unwinding, Waiting, Owning, Places, SettledTo, Outcomes
  <2>2. CallInv'
    BY <1>t, <2>b DEF CallInv, Caller, Loose, Attached, Unwinding, Waiting, Owning, Places
  <2>3. MountInv'
    BY <1>t, <2>b DEF MountInv, Loose, Attached, Unwinding, Waiting, Owning, Places, OnAts,
         SetupOnAts
  <2>4. VolumeInv'
    BY <1>t, <2>b, ItemsAre, WorkerItemsAre DEF VolumeInv, Loose, Attached, Unwinding, Waiting,
         Owning, Places, SettledTo
  <2>5. SetupInv'
    BY <1>t, <2>b, ItemsAre, WorkerItemsAre DEF SetupInv, Loose, Attached, Unwinding, Waiting,
         Owning, Places, SetupOnAts, SettledTo
  <2>6. CommandInv'
    BY <1>t, <2>b, ItemsAre, WorkerItemsAre DEF CommandInv, Nothing, Owned, OneRecord, Loose,
         Attached, Unwinding, Waiting, Owning, Places, SettledTo
  <2>7. ResultInv'
    BY <1>t, <2>b DEF Whole, Unwritten, ResultInv, Nothing, Owned, Loose, Attached, Unwinding, Waiting, Owning, Places
  <2>8. WholeInv'
    BY <1>t, <2>b DEF Bare, WholeInv, Half, Owned, Loose, Attached, Unwinding, Waiting, Owning, Places
  <2>9. DriverInv'
    BY <1>t, <2>b DEF Whole, DriverInv, Caller, Removing, Nothing, Owned, Loose, Attached, Unwinding,
         Waiting, Owning, Places
  <2>10. OwnerIsProven'
    BY <1>t, <2>b, ItemsAre, WorkerItemsAre DEF OwnerIsProven, Loose, Attached, Unwinding, Waiting,
         Owning, Places, SettledTo
  <2>11. ASSUME NEW w \in Workers PROVE LeaseInv(w)'
    BY <1>t, <2>b, ItemsAre, WorkerItemsAre DEF LeaseInv, Caller, Active, Used, Fresh, Loose,
         Attached, Unwinding, Waiting, Owning, Places, SettledTo
  <2>12. ASSUME NEW w \in Workers PROVE EmptyInv(w)'
    BY <1>t, <2>b, ItemsAre, WorkerItemsAre DEF EmptyInv, Abandoned, Still, Clear, Loose, Attached,
         Unwinding, Waiting, Owning, Places, SettledTo
  <2>13. LeftInv'
    BY <1>t, <2>b, <2>1, LeftAre, ItemsAre, WorkerItemsAre DEF LeftInv, Holds, CallInv, MountInv, VolumeInv, SetupInv,
         CommandInv, ResultInv, DriverInv, LeaseInv, Caller, Attached, Unwinding, Waiting, Owning, Places, Nothing, Owned,
         OneRecord, OnAts, SetupOnAts, Loose, Active, Fresh, SettledTo
  <2> QED
    BY <2>1, <2>2, <2>3, <2>4, <2>5, <2>6, <2>7, <2>8, <2>9, <2>10, <2>11, <2>12, <2>13
<1>20. CASE SizingRemove
  <2>b. /\ pc = "s_remove"
        /\ Quiet
        /\ UNCHANGED <<mount, disk, acq, lease>>
        /\ pc' = "u_release"
        /\ Counts
        /\ \/ svc.result = "nil" /\ Disowns
           \/ svc.result # "nil" /\ Owns
    BY <1>20, <1>v, DriverDoes, CountDoes, Zenon DEF SizingRemove, Here, ToPc
  <2> USE DEF Counts, In, Busy, Quiet, Owns, Disowns, DrvKeeps, Types, SetupAts, CommandAts
  <2>1. Types'
    BY <1>t, <2>b DEF CallInv, Attached, Unwinding, Waiting, Owning, Places, Outcomes
  <2>2. CallInv'
    BY <1>t, <2>b DEF CallInv, Caller, Attached, Unwinding, Waiting, Owning
  <2>3. MountInv'
    BY <1>t, <2>b DEF MountInv, Attached, Unwinding, Waiting, Owning, Places, OnAts, SetupOnAts
  <2>4. VolumeInv'
    BY <1>t, <2>b, ItemsAre, WorkerItemsAre DEF VolumeInv, Loose
  <2>5. SetupInv'
    BY <1>t, <2>b DEF SetupInv, SetupOnAts
  <2>6. CommandInv'
    BY <1>t, <2>b DEF CommandInv, Nothing, Owned, OneRecord
  <2>7. ResultInv'
    BY <1>t, <2>b DEF Whole, Unwritten, ResultInv, Nothing, Owned
  <2>8. WholeInv'
    BY <1>t, <2>b DEF Bare, WholeInv, Half, Owned
  <2>9. DriverInv'
    BY <1>t, <2>b DEF Whole, CallInv, CommandInv, ResultInv, SetupInv, DriverInv, Removing, Caller,
         Attached, Unwinding, Waiting, Owning, Nothing, Owned, OneRecord, SetupOnAts
  <2>10. OwnerIsProven'
    BY <1>t, <2>b DEF OwnerIsProven
  <2>11. ASSUME NEW w \in Workers PROVE LeaseInv(w)'
    BY <1>t, <2>b DEF LeaseInv, Caller, Active, Used, Fresh
  <2>12. ASSUME NEW w \in Workers PROVE EmptyInv(w)'
    BY <1>t, <2>b, ItemsAre, WorkerItemsAre DEF EmptyInv, Abandoned, Still, Clear, Loose
  <2>13. LeftInv'
    BY <1>t, <2>b, <2>1, LeftAre, ItemsAre, WorkerItemsAre DEF LeftInv, Holds, CallInv, MountInv, VolumeInv, SetupInv,
         CommandInv, ResultInv, DriverInv, LeaseInv, Caller, Attached, Unwinding, Waiting, Owning, Places, Nothing, Owned,
         OneRecord, OnAts, SetupOnAts, Loose, Active, Fresh
  <2> QED
    BY <2>1, <2>2, <2>3, <2>4, <2>5, <2>6, <2>7, <2>8, <2>9, <2>10, <2>11, <2>12, <2>13
<1>21. CASE UnwindRelease
  <2>b. /\ pc = "u_release"
        /\ Quiet
        /\ UNCHANGED <<mount, acq>>
        /\ Counts
        /\ \/ pc' = "u_flush" /\ UNCHANGED <<disk, drv, lease>>
           \/ pc' = pc /\ Remarks /\ \E w \in Workers : lease[w] = "held" /\ ((DeletedTo(ItemsOf(w)) /\ Releases(w)) \/ (DeletedPartly(w) /\ lease' = lease))
    <3>1. /\ pc = "u_release" /\ Quiet /\ UNCHANGED <<mount, acq>>
          /\ \/ NoFault /\ pc' = "u_flush" /\ UNCHANGED <<disk, drv, lease>>
             \/ \E w \in HeldBy \ drv.tried :
                   /\ pc' = pc
                   /\ \/ /\ NoFault /\ ReleaseOk(w) /\ lease' = [lease EXCEPT ![w] = "released"]
                         /\ drv' = [drv EXCEPT !.tried = @ \cup {w}, !.fresh = TRUE]
                      \/ /\ Fault /\ ReleaseFails(w) /\ UNCHANGED lease
                         /\ drv' = [drv EXCEPT !.tried = @ \cup {w}, !.cerr = Join(@, "bare")]
      BY <1>21, Zenon DEF UnwindRelease, Here, ToPc
    <3>2. ASSUME NEW w \in HeldBy \ drv.tried, pc' = pc,
                 \/ /\ NoFault /\ ReleaseOk(w) /\ lease' = [lease EXCEPT ![w] = "released"]
                    /\ drv' = [drv EXCEPT !.tried = @ \cup {w}, !.fresh = TRUE]
                 \/ /\ Fault /\ ReleaseFails(w) /\ UNCHANGED lease
                    /\ drv' = [drv EXCEPT !.tried = @ \cup {w}, !.cerr = Join(@, "bare")]
          PROVE  /\ w \in Workers /\ lease[w] = "held" /\ Remarks /\ Counts
                 /\ \/ DeletedTo(ItemsOf(w)) /\ Releases(w)
                    \/ DeletedPartly(w) /\ lease' = lease
      <4>1. w \in Workers /\ lease[w] = "held"
        BY HeldAre
      <4> QED
        BY <1>t, <1>v, <3>2, <4>1, ReleaseDoes, DriverDoes, CountDoes, Zenon
    <3> QED
      BY <1>v, <3>1, <3>2, CountDoes, Zenon
  <2> USE DEF Counts, In, Busy, Quiet, Remarks, DrvKeeps, Types, SetupAts, CommandAts
  <2>1. Types'
    BY <1>t, <2>b DEF CallInv, Attached, Unwinding, Waiting, Owning, Places, Releases, LeasesTo,
         DeletedTo, DeletedPartly, Outcomes
  <2>2. CallInv'
    BY <1>t, <2>b DEF CallInv, Caller, Attached, Unwinding, Waiting, Owning
  <2>3. MountInv'
    BY <1>t, <2>b DEF MountInv, Attached, Unwinding, Waiting, Owning, Places, OnAts, SetupOnAts
  <2>4. VolumeInv'
    BY <1>t, <2>b, ItemsAre, WorkerItemsAre DEF VolumeInv, MountInv, DeletedTo, DeletedPartly,
         Loose, OnAts, SetupOnAts, LeaseInv
  <2>5. SetupInv'
    BY <1>t, <2>b, ItemsAre, WorkerItemsAre DEF SetupInv, SetupOnAts, DeletedTo, DeletedPartly
  <2>6. CommandInv'
    BY <1>t, <2>b, ItemsAre, WorkerItemsAre DEF CommandInv, Nothing, Owned, OneRecord, DeletedTo,
         DeletedPartly
  <2>7. ResultInv'
    BY <1>t, <2>b DEF Whole, Unwritten, ResultInv, Nothing, Owned
  <2>8. WholeInv'
    BY <1>t, <2>b DEF Bare, WholeInv, Half, Owned
  <2>9. DriverInv'
    BY <1>t, <2>b DEF Whole, DriverInv, Caller, Removing, Nothing, Owned, Attached, Unwinding, Waiting,
         Owning
  <2>10. OwnerIsProven'
    BY <1>t, <2>b, ItemsAre, WorkerItemsAre DEF OwnerIsProven, DeletedTo, DeletedPartly
  <2>11. ASSUME NEW w \in Workers PROVE LeaseInv(w)'
    BY <1>t, <2>b, ItemsAre, WorkerItemsAre DEF LeaseInv, Caller, Active, Used, Fresh, DeletedTo,
         DeletedPartly, Releases, LeasesTo
  <2>12. ASSUME NEW w \in Workers PROVE EmptyInv(w)'
    BY <1>t, <2>b, ItemsAre, WorkerItemsAre DEF EmptyInv, Abandoned, Still, Clear, Loose,
         DeletedTo, DeletedPartly, Releases, LeasesTo
  <2>13. LeftInv'
    BY <1>t, <2>b, <2>1, LeftAre, ItemsAre, WorkerItemsAre DEF LeftInv, Holds, CallInv, MountInv, VolumeInv, SetupInv,
         CommandInv, ResultInv, DriverInv, LeaseInv, Caller, Attached, Unwinding, Waiting, Owning, Places, Nothing, Owned,
         OneRecord, OnAts, SetupOnAts, Loose, Active, Fresh, DeletedTo, DeletedPartly, Releases
  <2> QED
    BY <2>1, <2>2, <2>3, <2>4, <2>5, <2>6, <2>7, <2>8, <2>9, <2>10, <2>11, <2>12, <2>13
<1>22. CASE UnwindFlush
  <2>b. /\ pc = "u_flush"
        /\ Quiet
        /\ UNCHANGED <<mount, acq, lease>>
        /\ pc' = "u_close"
        /\ Counts
        /\ \/ disk' = disk /\ (drv' = drv \/ Remarks)
           \/ FlushedTo /\ drv' = drv
    BY <1>22, <1>v, DriverDoes, FlushedDoes, CountDoes, Zenon DEF UnwindFlush, Here, ToPc
  <2> USE DEF Counts, In, Busy, Quiet, Remarks, DrvKeeps, Types, SetupAts, CommandAts
  <2>1. Types'
    BY <1>t, <2>b DEF CallInv, Attached, Unwinding, Waiting, Owning, Places, FlushedTo, Outcomes
  <2>2. CallInv'
    BY <1>t, <2>b DEF CallInv, Caller, Loose, Attached, Unwinding, Waiting, Owning
  <2>3. MountInv'
    BY <1>t, <2>b DEF MountInv, Loose, Attached, Unwinding, Waiting, Owning, Places, OnAts,
         SetupOnAts
  <2>4. VolumeInv'
    BY <1>t, <2>b, ItemsAre, WorkerItemsAre DEF VolumeInv, Loose, FlushedTo
  <2>5. SetupInv'
    BY <1>t, <2>b, ItemsAre, WorkerItemsAre DEF SetupInv, Loose, SetupOnAts, FlushedTo
  <2>6. CommandInv'
    BY <1>t, <2>b, ItemsAre, WorkerItemsAre DEF CommandInv, Nothing, Owned, OneRecord, Loose,
         FlushedTo
  <2>7. ResultInv'
    BY <1>t, <2>b DEF Whole, Unwritten, ResultInv, Nothing, Owned, Loose
  <2>8. WholeInv'
    BY <1>t, <2>b DEF Bare, WholeInv, Half, Owned, Loose
  <2>9. DriverInv'
    BY <1>t, <2>b DEF Whole, DriverInv, Caller, Removing, Nothing, Owned, Loose, Attached, Unwinding,
         Waiting, Owning
  <2>10. OwnerIsProven'
    BY <1>t, <2>b, ItemsAre, WorkerItemsAre DEF OwnerIsProven, Loose, FlushedTo
  <2>11. ASSUME NEW w \in Workers PROVE LeaseInv(w)'
    BY <1>t, <2>b, ItemsAre, WorkerItemsAre DEF LeaseInv, Caller, Active, Used, Fresh, Loose,
         FlushedTo
  <2>12. ASSUME NEW w \in Workers PROVE EmptyInv(w)'
    BY <1>t, <2>b, ItemsAre, WorkerItemsAre DEF EmptyInv, Abandoned, Still, Clear, Loose, FlushedTo
  <2>13. LeftInv'
    BY <1>t, <2>b, <2>1, LeftAre, ItemsAre, WorkerItemsAre DEF LeftInv, Holds, CallInv, MountInv, VolumeInv, SetupInv,
         CommandInv, ResultInv, DriverInv, LeaseInv, Caller, Attached, Unwinding, Waiting, Owning, Places, Nothing, Owned,
         OneRecord, OnAts, SetupOnAts, Loose, Active, Fresh, FlushedTo
  <2> QED
    BY <2>1, <2>2, <2>3, <2>4, <2>5, <2>6, <2>7, <2>8, <2>9, <2>10, <2>11, <2>12, <2>13
<1>23. CASE UnwindClose
  <2>b. /\ pc = "u_close"
        /\ Quiet
        /\ UNCHANGED <<acq, lease>>
        /\ pc' = "u_remove"
        /\ Counts
        /\ \/ ~drv.mounted /\ UNCHANGED <<mount, disk, drv>>
           \/ SettledTo /\ mount' \in {"no", "stuck"} /\ Unmounts
    BY <1>23, <1>v, DriverDoes, SettledDoes, CountDoes, Zenon DEF UnwindClose, Here, ToPc,
         CloseVolume, CloseFails
  <2> USE DEF Counts, In, Busy, Quiet, Unmounts, DrvKeeps, Types, SetupAts, CommandAts
  <2>1. Types'
    BY <1>t, <2>b DEF CallInv, Attached, Unwinding, Waiting, Owning, Places, SettledTo, Outcomes
  <2>2. CallInv'
    BY <1>t, <2>b DEF CallInv, Caller, Loose, Attached, Unwinding, Waiting, Owning
  <2>3. MountInv'
    BY <1>t, <2>b DEF MountInv, Loose, Attached, Unwinding, Waiting, Owning, Places, OnAts,
         SetupOnAts
  <2>4. VolumeInv'
    BY <1>t, <2>b, ItemsAre, WorkerItemsAre DEF VolumeInv, Loose, SettledTo
  <2>5. SetupInv'
    BY <1>t, <2>b, ItemsAre, WorkerItemsAre DEF SetupInv, Loose, SetupOnAts, SettledTo
  <2>6. CommandInv'
    BY <1>t, <2>b, ItemsAre, WorkerItemsAre DEF CommandInv, Nothing, Owned, OneRecord, Loose,
         SettledTo
  <2>7. ResultInv'
    BY <1>t, <2>b DEF Whole, Unwritten, ResultInv, Nothing, Owned, Loose
  <2>8. WholeInv'
    BY <1>t, <2>b DEF Bare, WholeInv, Half, Owned, Loose
  <2>9. DriverInv'
    BY <1>t, <2>b DEF Whole, DriverInv, Caller, Removing, Nothing, Owned, Loose, Attached, Unwinding,
         Waiting, Owning
  <2>10. OwnerIsProven'
    BY <1>t, <2>b, ItemsAre, WorkerItemsAre DEF OwnerIsProven, Loose, SettledTo
  <2>11. ASSUME NEW w \in Workers PROVE LeaseInv(w)'
    BY <1>t, <2>b, ItemsAre, WorkerItemsAre DEF LeaseInv, Caller, Active, Used, Fresh, Loose,
         SettledTo
  <2>12. ASSUME NEW w \in Workers PROVE EmptyInv(w)'
    BY <1>t, <2>b, ItemsAre, WorkerItemsAre DEF EmptyInv, Abandoned, Still, Clear, Loose, SettledTo
  <2>13. LeftInv'
    BY <1>t, <2>b, <2>1, LeftAre, ItemsAre, WorkerItemsAre DEF LeftInv, Holds, CallInv, MountInv, VolumeInv, SetupInv,
         CommandInv, ResultInv, DriverInv, LeaseInv, Caller, Attached, Unwinding, Waiting, Owning, Places, Nothing, Owned,
         OneRecord, OnAts, SetupOnAts, Loose, Active, Fresh, SettledTo
  <2> QED
    BY <2>1, <2>2, <2>3, <2>4, <2>5, <2>6, <2>7, <2>8, <2>9, <2>10, <2>11, <2>12, <2>13
<1>24. CASE UnwindRemove
  <2>b. /\ pc = "u_remove"
        /\ UNCHANGED <<mount, disk, drv, host, acq, lease, rec, diag, crashes, commands, told>>
        /\ Counts
        /\ \/ drv.pool /\ HeldBy = {} /\ Begins("remove", "u_removed")
           \/ pc' = "u_end" /\ svc' = svc
    BY <1>24, <1>v, BeginDoes, CountDoes, Zenon DEF UnwindRemove, Here, ToPc, Counted, Joined
  <2> USE DEF Counts, In, Busy, Begins, Starts, Types, Ats, SetupAts, CommandAts
  <2>1. Types'
    BY <1>t, <2>b DEF CallInv, Attached, Unwinding, Waiting, Owning, Places, Outcomes
  <2>2. CallInv'
    BY <1>t, <2>b DEF CallInv, Caller, Used, Attached, Unwinding, Waiting, Owning, Places
  <2>3. MountInv'
    BY <1>t, <2>b DEF MountInv, Used, Attached, Unwinding, Waiting, Owning, Places, OnAts,
         SetupOnAts
  <2>4. VolumeInv'
    BY <1>t, <2>b, ItemsAre, WorkerItemsAre DEF VolumeInv, Used, Loose, Attached, Unwinding,
         Waiting, Owning, Places
  <2>5. SetupInv'
    BY <1>t, <2>b DEF SetupInv, Used, Attached, Unwinding, Waiting, Owning, Places, SetupOnAts
  <2>6. CommandInv'
    BY <1>t, <2>b DEF CommandInv, Nothing, Owned, OneRecord, Used, Attached, Unwinding, Waiting,
         Owning, Places
  <2>7. ResultInv'
    BY <1>t, <2>b DEF Whole, Unwritten, ResultInv, Nothing, Owned, Used, Attached, Unwinding, Waiting, Owning, Places
  <2>8. WholeInv'
    BY <1>t, <2>b DEF Bare, WholeInv, Half, Owned, Used, Attached, Unwinding, Waiting, Owning, Places
  <2>9. DriverInv'
    BY <1>t, <2>b DEF Whole, DriverInv, Caller, Removing, Nothing, Owned, Used, Attached, Unwinding,
         Waiting, Owning, Places
  <2>10. OwnerIsProven'
    BY <1>t, <2>b DEF OwnerIsProven, Used, Attached, Unwinding, Waiting, Owning, Places
  <2>11. ASSUME NEW w \in Workers PROVE LeaseInv(w)'
    BY <1>t, <2>b, ItemsAre, WorkerItemsAre DEF CallInv, MountInv, VolumeInv, DriverInv, LeaseInv,
         Caller, Attached, Unwinding, Waiting, Owning, Places, Loose, Fresh, Active, Used, OnAts,
         SetupOnAts, HeldBy
  <2>12. ASSUME NEW w \in Workers PROVE EmptyInv(w)'
    BY <1>t, <2>b, ItemsAre, WorkerItemsAre DEF EmptyInv, Abandoned, Used, Still, Clear, Loose,
         Attached, Unwinding, Waiting, Owning, Places
  <2>13. LeftInv'
    BY <1>t, <2>b, <2>1, LeftAre, ItemsAre, WorkerItemsAre DEF LeftInv, Holds, CallInv, MountInv, VolumeInv, SetupInv,
         CommandInv, ResultInv, DriverInv, LeaseInv, Caller, Attached, Unwinding, Waiting, Owning, Places, Nothing, Owned,
         OneRecord, OnAts, SetupOnAts, Loose, Active, Fresh
  <2> QED
    BY <2>1, <2>2, <2>3, <2>4, <2>5, <2>6, <2>7, <2>8, <2>9, <2>10, <2>11, <2>12, <2>13
<1>25. CASE UnwindRemoved
  <2>b. /\ pc = "u_removed"
        /\ Quiet
        /\ UNCHANGED <<mount, disk, acq, lease>>
        /\ pc' = "u_end"
        /\ Counts
        /\ \/ svc.result = "nil" /\ Disowns
           \/ svc.result # "nil" /\ Remarks
    <3>1. svc.result \in Answers \cup {"plain"}
      BY <1>v DEF Services
    <3> QED
      BY <1>25, <1>v, <3>1, DriverDoes, CountDoes, Zenon DEF UnwindRemoved, Here, ToPc
  <2> USE DEF Counts, In, Busy, Quiet, Disowns, Remarks, DrvKeeps, Types, SetupAts, CommandAts
  <2>1. Types'
    BY <1>t, <2>b DEF CallInv, Attached, Unwinding, Waiting, Owning, Places, Outcomes
  <2>2. CallInv'
    BY <1>t, <2>b DEF CallInv, Caller, Attached, Unwinding, Waiting, Owning
  <2>3. MountInv'
    BY <1>t, <2>b DEF MountInv, Attached, Unwinding, Waiting, Owning, Places, OnAts, SetupOnAts
  <2>4. VolumeInv'
    BY <1>t, <2>b, ItemsAre, WorkerItemsAre DEF VolumeInv, Loose
  <2>5. SetupInv'
    BY <1>t, <2>b DEF SetupInv, SetupOnAts
  <2>6. CommandInv'
    BY <1>t, <2>b DEF CommandInv, Nothing, Owned, OneRecord
  <2>7. ResultInv'
    BY <1>t, <2>b DEF Whole, Unwritten, ResultInv, Nothing, Owned
  <2>8. WholeInv'
    BY <1>t, <2>b DEF Bare, WholeInv, Half, Owned
  <2>9. DriverInv'
    BY <1>t, <2>b DEF Whole, CallInv, CommandInv, ResultInv, SetupInv, DriverInv, Removing, Caller,
         Attached, Unwinding, Waiting, Owning, Nothing, Owned, OneRecord, SetupOnAts
  <2>10. OwnerIsProven'
    BY <1>t, <2>b DEF OwnerIsProven
  <2>11. ASSUME NEW w \in Workers PROVE LeaseInv(w)'
    BY <1>t, <2>b DEF LeaseInv, Caller, Active, Used, Fresh
  <2>12. ASSUME NEW w \in Workers PROVE EmptyInv(w)'
    BY <1>t, <2>b, ItemsAre, WorkerItemsAre DEF EmptyInv, Abandoned, Still, Clear, Loose
  <2>13. LeftInv'
    BY <1>t, <2>b, <2>1, LeftAre, ItemsAre, WorkerItemsAre DEF LeftInv, Holds, CallInv, MountInv, VolumeInv, SetupInv,
         CommandInv, ResultInv, DriverInv, LeaseInv, Caller, Attached, Unwinding, Waiting, Owning, Places, Nothing, Owned,
         OneRecord, OnAts, SetupOnAts, Loose, Active, Fresh
  <2> QED
    BY <2>1, <2>2, <2>3, <2>4, <2>5, <2>6, <2>7, <2>8, <2>9, <2>10, <2>11, <2>12, <2>13
<1>26. CASE UnwindEnd
  <2>b. /\ pc = "u_end"
        /\ Quiet
        /\ UNCHANGED <<mount, disk, lease>>
        /\ pc' = "ended"
        /\ AcqTo
        /\ \A w \in Workers : acq'[w] = "none"
        /\ Counts
        /\ Ends /\ (drv'.cleanup = "released" => ~drv.pool)
        /\ drv'.cleanup \in {"released", "preserved", "uncertain"}
    <3>1. AcqTo /\ \A w \in Workers : acq'[w] = "none"
      BY <1>26 DEF UnwindEnd, AcqTo, Outcomes
    <3>2. \/ drv' = [drv EXCEPT !.cleanup = "released"] /\ ~drv.pool
          \/ drv' = [drv EXCEPT !.cleanup = "preserved"]
          \/ drv' = [drv EXCEPT !.cleanup = "uncertain"]
      BY <1>26 DEF UnwindEnd
    <3>3. /\ Ends /\ (drv'.cleanup = "released" => ~drv.pool)
          /\ drv'.cleanup \in {"released", "preserved", "uncertain"}
      <4>1. /\ drv' = [drv EXCEPT !.cleanup = "released"] => Ends /\ drv'.cleanup = "released"
            /\ drv' = [drv EXCEPT !.cleanup = "preserved"] => Ends /\ drv'.cleanup = "preserved"
            /\ drv' = [drv EXCEPT !.cleanup = "uncertain"] => Ends /\ drv'.cleanup = "uncertain"
        BY <1>v, DriverDoes, Zenon
      <4> QED
        BY <3>2, <4>1
    <3> QED
      BY <1>26, <1>v, <3>1, <3>3, CountDoes, Zenon DEF UnwindEnd, Here, ToPc
  <2> USE DEF Counts, In, Busy, Quiet, Ends, DrvKeeps, Types, SetupAts, CommandAts
  <2>1. Types'
    BY <1>t, <2>b DEF Places, Outcomes, AcqTo
  <2>2. CallInv'
    BY <1>t, <2>b DEF CallInv, Caller, Attached, Unwinding, Waiting, Owning, Outcomes
  <2>3. MountInv'
    BY <1>t, <2>b DEF MountInv, Attached, Unwinding, Waiting, Owning, Places, Outcomes, OnAts,
         SetupOnAts
  <2>4. VolumeInv'
    BY <1>t, <2>b, ItemsAre, WorkerItemsAre DEF VolumeInv, Loose, Outcomes
  <2>5. SetupInv'
    BY <1>t, <2>b DEF SetupInv, Outcomes, SetupOnAts
  <2>6. CommandInv'
    BY <1>t, <2>b DEF CommandInv, Nothing, Owned, OneRecord, Outcomes
  <2>7. ResultInv'
    BY <1>t, <2>b DEF Whole, Unwritten, ResultInv, Nothing, Owned, Outcomes
  <2>8. WholeInv'
    BY <1>t, <2>b DEF Bare, WholeInv, Half, Owned, Outcomes
  <2>9. DriverInv'
    BY <1>t, <2>b DEF Whole, DriverInv, Caller, Removing, Nothing, Owned, Attached, Unwinding, Waiting,
         Owning, Outcomes
  <2>10. OwnerIsProven'
    BY <1>t, <2>b DEF OwnerIsProven, Outcomes
  <2>11. ASSUME NEW w \in Workers PROVE LeaseInv(w)'
    BY <1>t, <2>b DEF LeaseInv, Caller, Active, Used, Fresh, Outcomes, AcqTo
  <2>12. ASSUME NEW w \in Workers PROVE EmptyInv(w)'
    <3>1. pc' = "ended"
      BY <2>b
    <3> QED
      BY <3>1 DEF EmptyInv, In
  <2>13. LeftInv'
    BY <1>t, <2>b, <2>1, LeftAre, ItemsAre, WorkerItemsAre DEF LeftInv, Holds, CallInv, MountInv, VolumeInv, SetupInv,
         CommandInv, ResultInv, DriverInv, LeaseInv, Caller, Attached, Unwinding, Waiting, Owning, Places, Nothing, Owned,
         OneRecord, OnAts, SetupOnAts, Loose, Active, Fresh, AcqTo
  <2> QED
    BY <2>1, <2>2, <2>3, <2>4, <2>5, <2>6, <2>7, <2>8, <2>9, <2>10, <2>11, <2>12, <2>13
<1> QED
  BY <1>1, <1>2, <1>3, <1>4, <1>5, <1>6, <1>7, <1>8, <1>9, <1>10, <1>11, <1>12, <1>13, <1>14,
         <1>15, <1>16, <1>17, <1>18, <1>19, <1>20, <1>21, <1>22, <1>23, <1>24, <1>25, <1>26 DEF DriverStep, Tests

\* ... of the operator, and a crash.
LEMMA OutsideKeepsInv == ASSUME PoolInv, Outside PROVE PoolInv'
<1> USE DEF PoolInv
<1>t. Types BY DEF PoolInv
<1>v. /\ svc \in Services /\ told \in BOOLEAN /\ host \in Hosts /\ disk \in [Items -> States]
      /\ faults \in 0 .. MaxFaults /\ drv \in Drivers /\ rec \in Receipts /\ diag \in 0 .. N
  BY <1>t DEF Types
<1>1. CASE Operator
  <2>b. /\ Resting
        /\ UNCHANGED <<host, mount, disk, Driver, diag, crashes, told>>
        /\ pc' = "svc"
        /\ commands' \in 0 .. MaxCommands /\ rec' \in Receipts
        /\ Counts
        /\ \E op \in Operations, w \in Workers : Starts(op, "idle", w, "none") /\ op # "session" /\ (op = "corrupt" => lease[w] = "released")
    <3>1. /\ commands \in 0 .. MaxCommands /\ commands < MaxCommands => commands + 1 \in 0 .. MaxCommands
      BY RefsPoolAssumption
    <3>2. PICK op \in Commands, w \in Workers :
              /\ op = "corrupt" => diag = w /\ Evidence(w)
              /\ svc' = [Idle EXCEPT !.op = op, !.at = "check", !.back = "idle", !.who = w]
              /\ rec' \in (IF op = "corrupt" THEN {rec, "none"} ELSE {rec})
      BY <1>1 DEF Operator
    <3>3. Call(op, "idle", w)
      BY <1>1, <3>2 DEF Operator, Call
    <3>4. op \in Operations /\ op # "session" /\ w \in 0 .. N /\ "idle" \in Places
      BY OperationsAre, WorkersAre, RefsPoolAssumption DEF Places
    <3>5. Starts(op, "idle", w, "none") /\ (op = "corrupt" => lease[w] = "released")
      BY <3>2, <3>3, <3>4, CallDoes, Zenon DEF Evidence
    <3>6. rec' \in Receipts
      BY <1>v, <3>2 DEF Receipts
    <3> QED
      BY <1>1, <1>t, <1>v, <3>1, <3>4, <3>5, <3>6, CountDoes DEF Operator, Types
  <2> USE DEF Counts, In, Busy, Resting, Driver, Starts, Types, Ats, SetupAts, CommandAts
  <2>1. Types'
    BY <1>t, <2>b DEF Places, Outcomes
  <2>2. CallInv'
    <3>1. PICK op \in Operations, w \in Workers :
              Starts(op, "idle", w, "none") /\ op # "session" /\ (op = "corrupt" => lease[w] = "released")
      BY <2>b
    <3>2. lease' = lease /\ pc' = "svc"
      BY <2>b DEF Driver
    <3> QED
      BY <3>1, <3>2 DEF CallInv, Caller, Busy, Starts, SetupAts, CommandAts, Operations, Waiting, Owning, Attached, Unwinding
  <2>3. MountInv'
    BY <1>t, <2>b DEF MountInv, Attached, Unwinding, Waiting, Owning, Places, OnAts, SetupOnAts
  <2>4. VolumeInv'
    BY <1>t, <2>b, ItemsAre, WorkerItemsAre DEF VolumeInv, Loose, Attached, Unwinding, Waiting,
         Owning, Places
  <2>5. SetupInv'
    BY <1>t, <2>b DEF SetupInv, Attached, Unwinding, Waiting, Owning, Places, SetupOnAts
  <2>6. CommandInv'
    BY <1>t, <2>b DEF CommandInv, Nothing, Owned, OneRecord, Attached, Unwinding, Waiting, Owning,
         Places
  <2>7. ResultInv'
    BY <1>t, <2>b DEF Whole, Unwritten, ResultInv, Nothing, Owned, Attached, Unwinding, Waiting, Owning, Places
  <2>8. WholeInv'
    BY <1>t, <2>b DEF Bare, WholeInv, Half, Owned, Attached, Unwinding, Waiting, Owning, Places
  <2>9. DriverInv'
    BY <1>t, <2>b DEF Whole, DriverInv, Caller, Removing, Nothing, Owned, Attached, Unwinding, Waiting,
         Owning, Places
  <2>10. OwnerIsProven'
    BY <1>t, <2>b DEF OwnerIsProven, Attached, Unwinding, Waiting, Owning, Places
  <2>11. ASSUME NEW w \in Workers PROVE LeaseInv(w)'
    BY <1>t, <2>b DEF LeaseInv, Caller, Active, Used, Fresh, Attached, Unwinding, Waiting, Owning,
         Places
  <2>12. ASSUME NEW w \in Workers PROVE EmptyInv(w)'
    BY <1>t, <2>b, ItemsAre, WorkerItemsAre DEF EmptyInv, Abandoned, Still, Clear, Loose, Attached,
         Unwinding, Waiting, Owning, Places
  <2>13. LeftInv'
    BY <1>t, <2>b, <2>1, LeftAre, ItemsAre, WorkerItemsAre DEF LeftInv, Holds, CallInv, MountInv, VolumeInv, SetupInv,
         CommandInv, ResultInv, DriverInv, LeaseInv, Caller, Attached, Unwinding, Waiting, Owning, Places, Nothing, Owned,
         OneRecord, OnAts, SetupOnAts, Loose, Active, Fresh
  <2> QED
    BY <2>1, <2>2, <2>3, <2>4, <2>5, <2>6, <2>7, <2>8, <2>9, <2>10, <2>11, <2>12, <2>13
<1>2. CASE Crash
  <2>b. /\ ~Resting
        /\ UNCHANGED <<host, drv, lease, rec, diag, commands>>
        /\ pc' = "idle" /\ svc' = Idle /\ told' = TRUE
        /\ crashes' \in 0 .. MaxCrashes
        /\ AcqTo
        /\ \A w \in Workers : acq'[w] = "none"
        /\ Counts
        /\ \/ mount = "no" /\ UNCHANGED <<mount, disk>>
           \/ mount' = "stuck" /\ SettledTo
    <3>1. crashes' \in 0 .. MaxCrashes
      BY <1>2, <1>t, RefsPoolAssumption DEF Crash, Types
    <3>2. AcqTo /\ \A w \in Workers : acq'[w] = "none"
      BY <1>2 DEF Crash, AcqTo, Outcomes
    <3> QED
      BY <1>2, <1>v, <3>1, <3>2, SettledDoes, CountDoes, Zenon DEF Crash
  <2> USE DEF Counts, In, Busy, Resting, Types, SetupAts, CommandAts
  <2>1. Types'
    <3>1. svc' \in Services
      BY <2>b, RefsPoolAssumption, WorkersAre, Zenon DEF Services, Idle, Ats, Answers
    <3>2. mount' \in {"no", "on", "stuck"} /\ disk' \in [Items -> States]
      BY <1>t, <2>b DEF SettledTo, Types
    <3>3. host' \in Hosts /\ drv' \in Drivers /\ rec' \in Receipts /\ diag' \in 0 .. N
      BY <1>v, <2>b
    <3> QED
      BY <1>t, <2>b, <3>1, <3>2, <3>3 DEF Types, Counts, AcqTo, Places
  <2>2. CallInv'
    BY <1>t, <2>b DEF CallInv, Caller, Attached, Unwinding, Waiting, Owning, Idle
  <2>3. MountInv'
    BY <1>t, <2>b DEF MountInv, Loose, Attached, Unwinding, Waiting, Owning, Places, Outcomes,
         OnAts, SetupOnAts
  <2>4. VolumeInv'
    BY <1>t, <2>b, ItemsAre, WorkerItemsAre DEF VolumeInv, Loose, Outcomes, SettledTo
  <2>5. SetupInv'
    BY <1>t, <2>b, ItemsAre, WorkerItemsAre DEF SetupInv, Loose, Outcomes, SetupOnAts, SettledTo
  <2>6. CommandInv'
    BY <1>t, <2>b, ItemsAre, WorkerItemsAre DEF CommandInv, Nothing, Owned, OneRecord, Loose,
         Outcomes, SettledTo
  <2>7. ResultInv'
    BY <1>t, <2>b DEF Whole, Unwritten, CallInv, CommandInv, ResultInv, SetupInv, Attached, Unwinding, Waiting,
         Owning, Nothing, Owned, OneRecord, SetupOnAts, Idle
  <2>8. WholeInv'
    BY <1>t, <2>b DEF Bare, WholeInv, Half, Owned, Loose, Outcomes
  <2>9. DriverInv'
    BY <1>t, <2>b DEF Whole, DriverInv, Caller, Removing, Nothing, Owned, Loose, Attached, Unwinding,
         Waiting, Owning, Outcomes
  <2>10. OwnerIsProven'
    BY <1>t, <2>b, ItemsAre, WorkerItemsAre DEF OwnerIsProven, Loose, Outcomes, SettledTo
  <2>11. ASSUME NEW w \in Workers PROVE LeaseInv(w)'
    BY <1>t, <2>b, ItemsAre, WorkerItemsAre DEF LeaseInv, Caller, Active, Used, Fresh, Loose,
         Outcomes, SettledTo, AcqTo
  <2>12. ASSUME NEW w \in Workers PROVE EmptyInv(w)'
    BY <1>t, <2>b, ItemsAre, WorkerItemsAre DEF EmptyInv, Abandoned, Still, Clear, Loose, Outcomes,
         SettledTo, AcqTo
  <2>13. LeftInv'
    BY <1>t, <2>b, <2>1, LeftAre, ItemsAre, WorkerItemsAre DEF LeftInv, Holds, CallInv, MountInv, VolumeInv, SetupInv,
         CommandInv, ResultInv, DriverInv, LeaseInv, Caller, Attached, Unwinding, Waiting, Owning, Places, Nothing, Owned,
         OneRecord, OnAts, SetupOnAts, Loose, Active, Fresh, SettledTo, AcqTo
  <2> QED
    BY <2>1, <2>2, <2>3, <2>4, <2>5, <2>6, <2>7, <2>8, <2>9, <2>10, <2>11, <2>12, <2>13
<1>3. CASE ClearMount
  <2>b. /\ Resting
        /\ UNCHANGED <<host, disk, pc, svc, Driver, rec, diag, Counted, told>>
        /\ Counts
        /\ mount = "stuck" /\ mount' = "no"
    BY <1>3, <1>v, CountDoes, Zenon DEF ClearMount
  <2> USE DEF Counts, In, Busy, Resting, Driver, Counted, Types, SetupAts, CommandAts
  <2>1. Types'
    BY <1>t, <2>b DEF Places, Outcomes
  <2>2. CallInv'
    BY <1>t, <2>b DEF CallInv, Caller, Attached, Unwinding, Waiting, Owning
  <2>3. MountInv'
    BY <1>t, <2>b DEF MountInv, Attached, Unwinding, Waiting, Owning, Places, OnAts, SetupOnAts
  <2>4. VolumeInv'
    BY <1>t, <2>b, ItemsAre, WorkerItemsAre DEF VolumeInv, Loose
  <2>5. SetupInv'
    BY <1>t, <2>b DEF SetupInv, SetupOnAts
  <2>6. CommandInv'
    BY <1>t, <2>b DEF CommandInv, Nothing, Owned, OneRecord
  <2>7. ResultInv'
    BY <1>t, <2>b DEF Whole, Unwritten, ResultInv, Nothing, Owned
  <2>8. WholeInv'
    BY <1>t, <2>b DEF Bare, WholeInv, Half, Owned
  <2>9. DriverInv'
    BY <1>t, <2>b DEF Whole, DriverInv, Caller, Removing, Nothing, Owned, Attached, Unwinding, Waiting,
         Owning
  <2>10. OwnerIsProven'
    BY <1>t, <2>b DEF OwnerIsProven
  <2>11. ASSUME NEW w \in Workers PROVE LeaseInv(w)'
    BY <1>t, <2>b DEF LeaseInv, Caller, Active, Used, Fresh
  <2>12. ASSUME NEW w \in Workers PROVE EmptyInv(w)'
    BY <1>t, <2>b, ItemsAre, WorkerItemsAre DEF EmptyInv, Abandoned, Still, Clear, Loose
  <2>13. LeftInv'
    BY <1>t, <2>b, <2>1, LeftAre, ItemsAre, WorkerItemsAre DEF LeftInv, Holds, CallInv, MountInv, VolumeInv, SetupInv,
         CommandInv, ResultInv, DriverInv, LeaseInv, Caller, Attached, Unwinding, Waiting, Owning, Places, Nothing, Owned,
         OneRecord, OnAts, SetupOnAts, Loose, Active, Fresh
  <2> QED
    BY <2>1, <2>2, <2>3, <2>4, <2>5, <2>6, <2>7, <2>8, <2>9, <2>10, <2>11, <2>12, <2>13
<1> QED
  BY <1>1, <1>2, <1>3 DEF Outside
-----------------------------------------------------------------------------
(* The theorems *)

\* The invariant holds at the start.
LEMMA InitInv == Init => PoolInv
<1> SUFFICES ASSUME Init PROVE PoolInv
  OBVIOUS
<1>1. /\ host = NothingOnHost /\ mount = "no" /\ disk = Empty /\ svc = Idle
      /\ acq = [w \in Workers |-> "none"] /\ lease = [w \in Workers |-> "none"]
      /\ rec = "none" /\ diag = 0 /\ faults = 0 /\ crashes = 0 /\ commands = 0 /\ told = FALSE
  BY DEF Init
<1>2. /\ pc \in {"idle", "start"} /\ (pc = "start" => drv.kind # "none")
      /\ ~drv.pool /\ drv.cleanup = "none"
  BY RefsPoolAssumption DEF Init, NewDriver
<1>3. drv \in Drivers
  <2>1. CASE pc = "idle" /\ drv = NewDriver("none", FALSE)
    BY <2>1, Zenon DEF NewDriver, Drivers, Answers
  <2>2. ASSUME NEW kind \in Kinds, NEW sizing \in BOOLEAN, drv = NewDriver(kind, sizing)
        PROVE  drv \in Drivers
    <3>1. kind \in Kinds \cup {"none"} /\ {} \in SUBSET Workers
      BY Zenon
    <3> QED
      BY <2>2, <3>1, Zenon DEF NewDriver, Drivers, Answers
  <2> QED
    BY <2>1, <2>2 DEF Init
<1>4. svc \in Services
  BY <1>1, WorkersAre, Zenon DEF Idle, Services, Ats, Answers
<1>5. /\ svc.op = "none" /\ svc.at = "none" /\ svc.tail = "none" /\ svc.result = "nil"
      /\ host.dirs = 0 /\ host.pending = "none" /\ ~host.owner /\ ~host.vhdx
      /\ \A i \in Items : disk[i] = "gone"
      /\ \A w \in Workers : acq[w] = "none" /\ lease[w] = "none"
  BY <1>1 DEF Idle, NothingOnHost, Empty
<1>6. Types
  <2>1. host \in Hosts /\ disk \in [Items -> States]
    <3>1. 0 \in 0 .. 2
      OBVIOUS
    <3>2. host \in Hosts
      BY <1>1, <3>1, Zenon DEF NothingOnHost, Hosts
    <3>3. disk \in [Items -> States]
      BY <1>1 DEF Empty, States
    <3> QED
      BY <3>2, <3>3
  <2>2. acq \in [Workers -> Outcomes] /\ lease \in [Workers -> {"none", "held", "released"}]
    BY <1>1 DEF Outcomes
  <2>3. pc \in Places /\ rec \in Receipts /\ mount \in {"no", "on", "stuck"} /\ told \in BOOLEAN
    BY <1>1, <1>2 DEF Places, Receipts
  <2>4. /\ diag \in 0 .. N /\ faults \in 0 .. MaxFaults /\ crashes \in 0 .. MaxCrashes
        /\ commands \in 0 .. MaxCommands
    BY <1>1, RefsPoolAssumption
  <2> QED
    BY <1>3, <1>4, <2>1, <2>2, <2>3, <2>4 DEF Types
<1> USE DEF Busy, In, Caller, Nothing
<1>7. CallInv
  BY <1>2, <1>5 DEF CallInv, Owning, Attached, Unwinding, Waiting
<1>8. MountInv /\ SetupInv /\ CommandInv
  BY <1>1, <1>2, <1>5 DEF MountInv, SetupInv, CommandInv, Attached, Unwinding
<1>9. VolumeInv /\ OwnerIsProven
  BY <1>5, ItemsAre DEF VolumeInv, OwnerIsProven, Loose
<1>10. ResultInv /\ WholeInv /\ LeftInv /\ DriverInv
  BY <1>2, <1>5, LeftAre DEF ResultInv, WholeInv, Bare, LeftInv, DriverInv, Owning, Attached, Unwinding, Waiting
<1>11. ASSUME NEW w \in Workers PROVE LeaseInv(w) /\ EmptyInv(w)
  BY <1>1, <1>2, <1>5 DEF LeaseInv, EmptyInv, Active
<1> QED
  BY <1>6, <1>7, <1>8, <1>9, <1>10, <1>11 DEF PoolInv

\* It says nothing of a step in which nothing changes.
LEMMA StutterInv == ASSUME PoolInv, UNCHANGED vars PROVE PoolInv'
<1> USE DEF PoolInv
<1>1. UNCHANGED <<host, mount, disk, pc, svc, drv, acq, lease, rec, diag, faults, crashes, commands, told>>
  BY DEF vars
<1> USE DEF Busy, In, Caller, Nothing, Owned, OneRecord
<1>2. Types' /\ CallInv' /\ MountInv'
  BY <1>1 DEF Types, CallInv, MountInv
<1>3. VolumeInv' /\ SetupInv' /\ CommandInv' /\ OwnerIsProven'
  BY <1>1 DEF VolumeInv, SetupInv, CommandInv, OwnerIsProven
<1>4. ResultInv' /\ WholeInv' /\ LeftInv' /\ DriverInv'
  BY <1>1 DEF ResultInv, WholeInv, LeftInv, DriverInv, Half, Removing, Whole, Unwritten, Bare, Holds
<1>5. ASSUME NEW w \in Workers PROVE LeaseInv(w)' /\ EmptyInv(w)'
  BY <1>1 DEF LeaseInv, EmptyInv, Abandoned, Still, Clear, Used
<1> QED
  BY <1>2, <1>3, <1>4, <1>5

\* Every step keeps it.
LEMMA NextInv == PoolInv /\ [Next]_vars => PoolInv'
<1> SUFFICES ASSUME PoolInv, Next PROVE PoolInv'
  BY StutterInv
<1> QED
  BY SetupStepKeepsInv, CommandStepKeepsInv, DriverStepKeepsInv, OutsideKeepsInv DEF Next, Outside

\* The invariant is one of the specification.
THEOREM Invariant == Spec => []PoolInv
BY InitInv, NextInv, PTL DEF Spec

\* The values of the variables are what the type invariant says.
THEOREM TypeCorrect == Spec => []TypeOK
<1>1. PoolInv => TypeOK
  BY OperationsAre DEF PoolInv, Types, Services, Drivers, Hosts, States, Outcomes, Receipts, TypeOK
<1> QED
  BY <1>1, Invariant, PTL

\* The owner record stands only for a volume that was flushed, attached again and read back
\* (pool.go: Setup, commitPendingOwner).
THEOREM OwnerProven == Spec => []OwnerIsProven
<1>1. PoolInv => OwnerIsProven
  BY DEF PoolInv
<1> QED
  BY <1>1, Invariant, PTL

\* What a command or a driver reports of the pool is so: a removal or a recovery that succeeds
\* and "released" leave nothing on the host, "preserved" leaves the VHDX with a record of whose
\* it is; but for a setup that failed after its commit (pool.go:179), whose "released" leaves
\* the whole pool, and a corrupt recovery that removed the pool and could not write its receipt
\* (corrupt_release_recovery.go:255), whose "preserved" leaves nothing.
THEOREM CleanupTrue == Spec => []CleanupStateIsTrue
<1>1. ASSUME PoolInv PROVE CleanupStateIsTrue
  <2>1. Types /\ ResultInv /\ DriverInv
    BY <1>1 DEF PoolInv
  <2>2. Nothing => host = NothingOnHost
    BY <2>1, RecordsAre DEF Types
  <2> QED
    BY <2>1, <2>2 DEF CleanupStateIsTrue, Released, Preserved, Whole, Unwritten, Resting, ResultInv,
         DriverInv, Busy
<1> QED
  BY <1>1, Invariant, PTL

\* As long as nobody was told and no process died, what is left on the host is a pool that a
\* command takes, on the host and in the volume, or one of the dead ends that DeadEnd lists: a
\* setup that failed early or with two failures of its commit, a probe directory that came
\* back, and what a driver has left in the volume of a pool that it has kept.
THEOREM NoDeadEnd == Spec => []NoSilentDeadEnd
<1>1. ASSUME PoolInv, Resting, ~told PROVE Takes \/ DeadEnd
  <2>1. Types /\ WholeInv /\ LeftInv /\ OwnerIsProven
    BY <1>1 DEF PoolInv
  <2>2. CASE Owned
    <3>1. OwnedPool
      BY <2>1, <2>2, RecordsAre DEF Types
    <3>2. Ready
      BY <2>1, <2>2, ItemsAre DEF OwnerIsProven, Owned, Ready, Visible
    <3>3. CASE Residual \subseteq {ProbeDir}
      BY <3>1, <3>2, <3>3 DEF Takes, DeadEnd
    <3>4. CASE ~(Residual \subseteq {ProbeDir})
      <4>1. PICK i \in Left : disk[i] # "gone"
        BY <3>4 DEF Residual, Left, Visible
      <4>2. Holds
        BY <2>1, <4>1 DEF LeftInv
      <4> QED
        BY <1>1, <3>1, <3>2, <4>2 DEF DeadEnd, Holds, Resting, Caller, Owning, Attached, Unwinding, Waiting
    <3> QED
      BY <3>3, <3>4
  <2>3. CASE ~Owned
    BY <1>1, <2>1, <2>3 DEF WholeInv, Half, Busy, Resting, Bare, DeadEnd
  <2> QED
    BY <2>2, <2>3
<1>2. PoolInv => NoSilentDeadEnd
  BY <1>1 DEF NoSilentDeadEnd
<1> QED
  BY <1>2, Invariant, PTL

\* Only the removal and the rollback of a setup delete the VHDX.
LEMMA WhoDeletes ==
    ASSUME PoolInv, [Next]_vars, host.vhdx, ~host'.vhdx
    PROVE  DeleteVHDX \/ SetupUnmake
<1>1. host \in Hosts
  BY DEF PoolInv, Types
<1>2. host' # host
  OBVIOUS
<1>3. CASE SetupStep
  <2>1. CASE \/ SetupFormat \/ SetupLayout \/ SetupFlush \/ SetupDetach \/ SetupReattach \/ SetupVerify
             \/ SetupClose \/ SetupRollback \/ SetupMetadata
    BY <1>2, <2>1, Zenon DEF SetupFormat, SetupLayout, SetupFlush, SetupDetach, SetupReattach,
         SetupVerify, SetupClose, SetupRollback, SetupMetadata
  <2>2. CASE SetupCheck \/ SetupPending \/ SetupCreate \/ SetupIdentify \/ SetupClone \/ SetupForget
    BY <1>1, <2>2, HostDoes, Zenon DEF SetupCheck, SetupPending, SetupCreate, SetupIdentify, SetupClone,
         SetupForget, Dirs, Pending, Made
  <2>3. CASE SetupCommit
    BY <1>1, <2>3, HostDoes, Zenon DEF SetupCommit, Committed, Linked
  <2>4. CASE SetupDirs
    BY <1>1, <2>4 DEF SetupDirs, RemoveDirs, Hosts
  <2> QED
    BY <1>3, <2>1, <2>2, <2>3, <2>4 DEF SetupStep
<1>4. CASE CommandStep
  <2>1. CASE \/ CommandCheck \/ CommandMount \/ CommandRead \/ Unwind \/ ProbeClone \/ StatusMeasure
             \/ RemoveMeasure \/ CommandFlush \/ CommandClose \/ CommandPost
    BY <1>2, <2>1, Zenon DEF CommandCheck, CommandMount, CommandRead, Unwind, ProbeClone, StatusMeasure,
         RemoveMeasure, CommandFlush, CommandClose, CommandPost
  <2>2. CASE \/ MarkerShape \/ DiagnoseMeasure \/ DiagnoseClose \/ CorruptReceipt \/ CorruptCompare
             \/ CorruptDelete \/ CorruptNote \/ Resume
    BY <1>2, <2>2, Zenon DEF MarkerShape, DiagnoseMeasure, DiagnoseClose, CorruptReceipt, CorruptCompare,
         CorruptDelete, CorruptNote, Resume
  <2>3. CASE DeleteRecord
    BY <1>1, <2>3, HostDoes, Zenon DEF DeleteRecord, Forgotten
  <2>4. CASE DeleteDirs
    BY <1>1, <2>4 DEF DeleteDirs, RemoveDirs, Hosts
  <2> QED
    BY <1>4, <2>1, <2>2, <2>3, <2>4 DEF CommandStep
<1>5. CASE DriverStep
  <2>1. CASE \/ DriverStart \/ DriverSetup \/ DriverMount \/ Baseline \/ Tests \/ ReleaseNext \/ FlushNext
             \/ \E w \in Workers : AcquireStart(w) \/ AcquireEnd(w) \/ Collect(w)
    BY <1>2, <2>1, Zenon DEF DriverStart, DriverSetup, DriverMount, Baseline, Tests, Checks, EditRound,
         PlayRound, RunRound, ReleaseNext, FlushNext, AcquireStart, AcquireEnd, Collect, Quiet
  <2>2. CASE \/ LastRelease \/ LastFlush \/ LastDetach \/ LastStatus \/ LastRemove
             \/ SizingFlush \/ SizingClose \/ SizingRemove
    BY <1>2, <2>2, Zenon DEF LastRelease, LastFlush, LastDetach, LastStatus, LastRemove, SizingFlush,
         SizingClose, SizingRemove, Quiet
  <2>3. CASE \/ UnwindRelease \/ UnwindFlush \/ UnwindClose \/ UnwindRemove \/ UnwindRemoved \/ UnwindEnd
    BY <1>2, <2>3, Zenon DEF UnwindRelease, UnwindFlush, UnwindClose, UnwindRemove, UnwindRemoved,
         UnwindEnd, Quiet
  <2> QED
    BY <1>5, <2>1, <2>2, <2>3 DEF DriverStep
<1>6. CASE Operator \/ Crash \/ ClearMount \/ UNCHANGED vars
  BY <1>2, <1>6, Zenon DEF Operator, Crash, ClearMount, vars
<1> QED
  BY <1>3, <1>4, <1>5, <1>6 DEF Next

\* The VHDX of a committed pool is deleted only when no lease is held and its volume has no
\* worker, marker or journal, the goroutines that gnf has left behind excepted
\* (pool.go: Remove, measureMountedResidual).
THEOREM RemovedEmpty == Spec => RemovedOnlyWhenEmpty
<1>1. ASSUME PoolInv, [Next]_vars, host.owner, host.vhdx, ~host'.vhdx, NEW w \in Workers
      PROVE  lease[w] # "held" /\ (ItemsOf(w) \cap Visible = {} \/ Abandoned(w))
  <2>1. /\ SetupInv /\ CommandInv /\ LeaseInv(w) /\ EmptyInv(w) /\ lease \in [Workers -> {"none", "held", "released"}]
    BY <1>1 DEF PoolInv, Types
  <2>2. ~SetupUnmake
    BY <1>1, <2>1 DEF SetupInv, SetupUnmake, At, Busy
  <2>3. In("remove", {"delete"})
    BY <1>1, <2>1, <2>2, WhoDeletes DEF DeleteVHDX, At, CommandInv, Busy, In
  <2>4. Abandoned(w) \/ Clear(w)
    BY <2>1, <2>3 DEF EmptyInv, In
  <2>5. Clear(w) => ItemsOf(w) \cap Visible = {}
    BY DEF Clear, Visible
  <2>6. lease[w] # "held"
    BY <2>1, <2>4, WorkerItemsAre DEF LeaseInv, Abandoned, Clear
  <2> QED
    BY <2>4, <2>5, <2>6
<1>2. PoolInv /\ [Next]_vars =>
          [host.owner /\ host.vhdx /\ ~host'.vhdx =>
              \A w \in Workers : lease[w] # "held" /\ (ItemsOf(w) \cap Visible = {} \/ Abandoned(w))]_vars
  BY <1>1
<1> QED
  BY <1>2, Invariant, PTL DEF Spec, RemovedOnlyWhenEmpty
=============================================================================
