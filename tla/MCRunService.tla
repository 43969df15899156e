---------------------------- MODULE MCRunService ----------------------------
(* Small instances of RunService. *)
EXTENDS RunService

Plain == [backend |-> "", shadow |-> FALSE, bridge |-> "off", twoPhase |-> FALSE,
          filtered |-> FALSE, keep |-> FALSE, scenario |-> FALSE]

MCRequests ==
    {[Plain EXCEPT !.bridge = "on", !.filtered = TRUE],
     [Plain EXCEPT !.shadow = TRUE, !.twoPhase = TRUE, !.keep = TRUE],
     [Plain EXCEPT !.backend = "legacy", !.scenario = TRUE],
     [Plain EXCEPT !.backend = "legacy", !.bridge = "forced"],
     [Plain EXCEPT !.backend = "image"],
     [Plain EXCEPT !.backend = "vhdx-diff"],
     [Plain EXCEPT !.backend = "vhdx-diff", !.keep = TRUE, !.twoPhase = TRUE],
     [Plain EXCEPT !.backend = "auto"]}
=============================================================================
