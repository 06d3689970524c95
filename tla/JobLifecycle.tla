---------------------------- MODULE JobLifecycle ----------------------------
(***************************************************************************)
(* What a background job promises to whoever asked for it, whatever kind   *)
(* of work it is: only a waiting job is taken, only a taken one is done,   *)
(* and a failed one stays failed, until somebody interferes by hand: there *)
(* the promise ends.  A job that is done may still be buried as failed:    *)
(* its time limit strikes after its last write.                            *)
(***************************************************************************)
CONSTANT Jobs

VARIABLE stage         \* the stage each job is at

Stages == {"absent", "waiting", "taken", "done", "buried", "reopened"}

Init == stage = [j \in Jobs |-> "absent"]

Move(j, from, to) == stage[j] \in from /\ stage'[j] = to

Submit(j) == Move(j, {"absent"}, "waiting")
Take(j)   == Move(j, {"waiting"}, "taken")
Finish(j) == Move(j, {"taken"}, "done")
Bury(j)   == Move(j, {"taken", "done"}, "buried")
Reopen(j) == Move(j, {"waiting", "taken", "done", "buried"}, "reopened")

(* Each job keeps the promise by itself: several may move at once. *)
Next ==
    /\ stage' \in [Jobs -> Stages]
    /\ \A j \in Jobs : \/ stage'[j] = stage[j]
                       \/ Submit(j) \/ Take(j) \/ Finish(j) \/ Bury(j)
                       \/ Reopen(j)

Spec == Init /\ [][Next]_stage
=============================================================================
