----------------------------- MODULE RunpodCalls -----------------------------
(***************************************************************************)
(* What one HTTP call of RunpodTransport tells its caller about what       *)
(* Runpod did.  A call has an effect, or not, and an answer; the client    *)
(* turns the answer into a verdict.  The verdict "error" makes the callers *)
(* believe that nothing happened, so every pair of an applied effect and   *)
(* that verdict is a resource the caller does not know of.                 *)
(***************************************************************************)

\* external: the answers of api.runpod.io, with the transport failures.
Answers ==
    {"expected",    \* the expected status and a usable body
     "misshapen",   \* the expected status, an empty body or missing fields
     "undecodable", \* the expected status, no JSON object in the body
     "unexpected",  \* another 2xx status
     "refused",     \* 4xx except 404
     "missing",     \* 404
     "failed",      \* 5xx
     "nothing"}     \* connect or read timeout, reset

\* external: whether Runpod may have applied the request it answers so.
MayApply(answer) == answer \notin {"refused", "missing"}
MayNotApply(answer) == answer \in {"refused", "missing", "failed", "nothing"}

Verdicts == {"ok", "ambiguous", "error", "missing"}

\* Mutant: a timeout or a 5xx of a mutation counts as a definite failure.
LossIsDefinite(answer) ==
    CASE answer = "expected" -> "ok"
      [] answer = "missing"  -> "missing"
      [] answer \in {"undecodable", "unexpected"} -> "ambiguous"
      [] OTHER -> "error"

\* request_json and _request for a mutation sent with ambiguous_on_failure:
\* never repeated, and every answer that does not exclude the effect is a
\* RunPodAmbiguousResultError.
Mutation(answer) ==
    CASE answer = "expected" -> "ok"
      [] answer = "missing"  -> "missing"
      [] answer \in {"undecodable", "unexpected", "failed", "nothing"} -> "ambiguous"
      [] OTHER -> "error"

\* create_endpoint parses the body after the request: an object without id
\* or name is a plain RunPodManagerError although Runpod answered 201.
CreateEndpoint(answer) == Mutation(answer)

\* create_pod and the /run call of a queue endpoint: create_pod turns the same
\* failure into an ambiguous result, run does not.
CreatePod(answer) == IF answer = "misshapen" THEN "ambiguous" ELSE Mutation(answer)
RunJob(answer) == Mutation(answer)

\* delete_endpoint: 204 has no body to parse.
DeleteEndpoint(answer) ==
    IF answer \in {"misshapen", "undecodable"} THEN "ok" ELSE Mutation(answer)

\* The pairs of an effect and a verdict one call can produce.
OutcomesOf(Verdict(_), answers) ==
    {<<TRUE, Verdict(a)>> : a \in {b \in answers : MayApply(b)}}
        \cup {<<FALSE, Verdict(a)>> : a \in {b \in answers : MayNotApply(b)}}

Outcomes(Verdict(_)) == OutcomesOf(Verdict, Answers)
=============================================================================
