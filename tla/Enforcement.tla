---------------------------- MODULE Enforcement ----------------------------
(***************************************************************************)
(* What the gateway promises a caller, with no audit pipeline, no event    *)
(* loop and no stages: a request is refused before the kernel, or decided  *)
(* by exactly one kernel evaluation, and 200 means that evaluation allowed *)
(* it.                                                                     *)
(***************************************************************************)
CONSTANT Requests

VARIABLES
    phase,      \* of each request slot: "idle", "working" or "answered"
    verdict,    \* the kernel's verdict, "none" when it was not consulted
    status      \* the HTTP status answered, 0 before

enforcementVars == <<phase, verdict, status>>

Verdicts == {"ALLOW", "DENY", "FAILED"}
RefusalStatus == {400, 401, 500, 503}

Init ==
    /\ phase = [r \in Requests |-> "idle"]
    /\ verdict = [r \in Requests |-> "none"]
    /\ status = [r \in Requests |-> 0]

Accept(r) ==
    /\ phase[r] = "idle"
    /\ phase' = [phase EXCEPT ![r] = "working"]
    /\ UNCHANGED <<verdict, status>>

Refuse(r) ==
    /\ phase[r] = "working"
    /\ phase' = [phase EXCEPT ![r] = "answered"]
    /\ \E s \in RefusalStatus : status' = [status EXCEPT ![r] = s]
    /\ UNCHANGED verdict

StatusFor(v) ==
    CASE v = "ALLOW" -> {200} [] v = "DENY" -> {403} [] OTHER -> RefusalStatus

Decide(r, v) ==
    /\ phase[r] = "working"
    /\ phase' = [phase EXCEPT ![r] = "answered"]
    /\ verdict' = [verdict EXCEPT ![r] = v]
    /\ \E s \in StatusFor(v) : status' = [status EXCEPT ![r] = s]

Forget(r) ==
    /\ phase[r] = "answered"
    /\ phase' = [phase EXCEPT ![r] = "idle"]
    /\ verdict' = [verdict EXCEPT ![r] = "none"]
    /\ status' = [status EXCEPT ![r] = 0]

Next ==
    \E r \in Requests :
       Accept(r) \/ Refuse(r) \/ (\E v \in Verdicts : Decide(r, v)) \/ Forget(r)

Spec == Init /\ [][Next]_enforcementVars
=============================================================================
