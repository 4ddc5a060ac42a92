----------------------------- MODULE Readiness -----------------------------
(***************************************************************************)
(* The multi-component readiness tracker (readiness.py).                   *)
(*                                                                         *)
(* A ReadinessState is a record                                            *)
(*   order    the component names in the insertion order of _components    *)
(*            (a Python dict keeps the position of a key it overwrites),   *)
(*   ready    _components, a function on the registered names,             *)
(*   reasons  _reasons, a function on the names that carry a reason.       *)
(* Every operator below is one critical section of ReadinessState._lock,   *)
(* so a module that uses it takes it in a single step.                     *)
(***************************************************************************)
EXTENDS Integers, Sequences, Functions

\* What reason() and all_reasons() fall back to, and reason()'s empty string.
DefaultReason == "component not ready"
NoReason == ""

\* The tracker before anything is registered.
EmptyReadiness == [order |-> <<>>, ready |-> <<>>, reasons |-> <<>>]

Registered(rs) == DOMAIN rs.ready

Put(f, k, v) == [x \in DOMAIN f \cup {k} |-> IF x = k THEN v ELSE f[x]]

KeyOrder(rs, component) ==
    IF component \in Registered(rs) THEN rs.order ELSE Append(rs.order, component)

\* A tracker whose mark_ready keeps the stale reason of an earlier failure.
MarkReadyKeepsReason(rs, component) ==
    [order   |-> KeyOrder(rs, component),
     ready   |-> Put(rs.ready, component, TRUE),
     reasons |-> rs.reasons]

mark_ready(rs, component) ==
    [order   |-> KeyOrder(rs, component),
     ready   |-> Put(rs.ready, component, TRUE),
     reasons |-> Restrict(rs.reasons, DOMAIN rs.reasons \ {component})]

mark_not_ready(rs, why, component) ==
    [order   |-> KeyOrder(rs, component),
     ready   |-> Put(rs.ready, component, FALSE),
     reasons |-> Put(rs.reasons, component, why)]

NotReady(rs) == {c \in Registered(rs) : ~rs.ready[c]}

\* No component registered is not ready: an empty tracker answers False.
is_ready(rs) == Registered(rs) # {} /\ NotReady(rs) = {}

ReasonOf(rs, c) == IF c \in DOMAIN rs.reasons THEN rs.reasons[c] ELSE DefaultReason

\* The reason of the first not-ready component in insertion order.
reason(rs) ==
    LET failing == {i \in 1..Len(rs.order) : ~rs.ready[rs.order[i]]}
    IN  IF failing = {} THEN NoReason
        ELSE ReasonOf(rs, rs.order[CHOOSE i \in failing : \A j \in failing : i <= j])

all_reasons(rs) == [c \in NotReady(rs) |-> ReasonOf(rs, c)]

\* The snapshot the components property returns.
components(rs) == rs.ready

\* A tracker over the given component names.
IsReadiness(rs, Names) ==
    /\ rs = [order |-> rs.order, ready |-> rs.ready, reasons |-> rs.reasons]
    /\ rs.order \in Seq(Names)
    /\ DOMAIN rs.ready \subseteq Names
    /\ rs.ready \in [DOMAIN rs.ready -> BOOLEAN]
    /\ DOMAIN rs.reasons \subseteq Names
    /\ rs.reasons = [c \in DOMAIN rs.reasons |-> rs.reasons[c]]

\* The order names each registered component exactly once, and a reason is kept
\* for exactly the components that are not ready.
WellKept(rs) ==
    /\ {rs.order[i] : i \in 1..Len(rs.order)} = Registered(rs)
    /\ \A i, j \in 1..Len(rs.order) : rs.order[i] = rs.order[j] => i = j
    /\ DOMAIN rs.reasons = NotReady(rs)
=============================================================================
