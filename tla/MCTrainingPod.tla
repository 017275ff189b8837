----------------------------- MODULE MCTrainingPod -----------------------------
(***************************************************************************)
(* Small instances of TrainingPod for TLC: one host that trains, and one   *)
(* that only releases.                                                     *)
(***************************************************************************)
EXTENDS TrainingPod, TLC

CONSTANTS h1, h2

MCHosts == {h1, h2}
MCHostOps == (h1 :> AllOps \ {"release"}) @@ (h2 :> {"release"})

\* The row without the columns no step will read before they are written again:
\* the Pod of a finished row, and a heartbeat no timeout waits for.
Beating(r) ==
    /\ r.age < 2
    /\ \/ ~r.pid /\ r.uncertain
       \/ r.state = "requested" /\ r.age = 0
       \/ r.state \in {"starting", "ready"}

Read(r) ==
    IF IsTerminal(r) THEN [r EXCEPT !.own = "owned", !.pid = FALSE, !.uncertain = FALSE]
    ELSE IF Beating(r) THEN r ELSE Beat(r)

MCView == <<[i \in Attempts |-> Read(rows[i])], pods, starter, jobs, session, proc, history>>
===============================================================================
