---------------------------- MODULE LeaseAuthority ----------------------------
(***************************************************************************)
(* What a durable lease promises about the one billable resource that is   *)
(* acquired in its name, whatever processes race, crash or lose answers:   *)
(*                                                                         *)
(*   - the resource is requested at most once, and only for an open claim; *)
(*   - the lease deletes it only after the claim has been closed to use;   *)
(*   - the claim ends only when nothing billable exists or can still come. *)
(*                                                                         *)
(* PodCapacity (catalog Pods) and OllamaLease (private inference) are      *)
(* both shown to implement this module.                                    *)
(***************************************************************************)

VARIABLES
    claim,     \* "none", "open" to use, "closing", or "ended"
    resource   \* "none", "requested", "live", "refused", "lost" or "deleted"

vars == <<claim, resource>>

TypeOK ==
    /\ claim \in {"none", "open", "closing", "ended"}
    /\ resource \in {"none", "requested", "live", "refused", "lost", "deleted"}

Init == claim = "none" /\ resource = "none"

Billable == resource \in {"requested", "live"}

Claim == claim = "none" /\ claim' = "open" /\ UNCHANGED resource

\* The one create request.  "none" is never reached again.
Request ==
    /\ claim = "open" /\ resource = "none"
    /\ resource' = "requested"
    /\ UNCHANGED claim

Grant == resource = "requested" /\ resource' = "live" /\ UNCHANGED claim

Refuse == resource = "requested" /\ resource' = "refused" /\ UNCHANGED claim

Close == claim = "open" /\ claim' = "closing" /\ UNCHANGED resource

\* The provider refuses, and the claim learns of it in the same step.
RefuseAndClose ==
    /\ resource = "requested" /\ resource' = "refused"
    /\ claim = "open" /\ claim' = "closing"

Delete ==
    /\ claim = "closing" /\ resource \in {"live", "lost"}
    /\ resource' = "deleted"
    /\ UNCHANGED claim

\* The resource stops or disappears without the lease having deleted it.
Vanish == resource = "live" /\ resource' = "lost" /\ UNCHANGED claim

\* A claim that never had a resource may end without being closed first.
End ==
    /\ \/ claim = "closing" /\ ~Billable
       \/ claim = "open" /\ resource = "none"
    /\ claim' = "ended"
    /\ UNCHANGED resource

Next ==
    \/ Claim \/ Request \/ Grant \/ Refuse \/ Close \/ RefuseAndClose
    \/ Delete \/ Vanish \/ End

Spec == Init /\ [][Next]_vars
===============================================================================
