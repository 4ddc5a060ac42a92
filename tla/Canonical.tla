----------------------------- MODULE Canonical -----------------------------
(***************************************************************************)
(* The canonical form of actions and resource identifiers, and the         *)
(* evidence the gateway leaves of having composed one (core/actions.py,    *)
(* core/resources.py).                                                     *)
(*                                                                         *)
(* A string is the sequence of its colon-separated segments, so that       *)
(* f"{a}:{b}" is a \o b and a string is typed, or composite, when it has   *)
(* more than one segment.  The empty string is <<"">>; None is <<>>.       *)
(***************************************************************************)
EXTENDS Integers, Sequences

CONSTANTS
    Identifiers,    \* [a-z][a-z0-9_-]*
    NewlineEnded    \* an identifier and a newline

None == <<>>
IsBlank(s) == s = <<"">> \/ s = <<" ">>

\* _SEGMENT_RE.match: '$' also matches before a final newline.
IsSegment(s) == Len(s) = 1 /\ s[1] \in Identifiers \cup NewlineEnded

is_composite_action(action) == Len(action) > 1
is_typed_resource_id(resource_id) == Len(resource_id) > 1

Rejected == [ok |-> FALSE, value |-> None]
Composed(s) == [ok |-> TRUE, value |-> s]

\* A bare verb takes its type from resource_type; a composite action must not
\* come with one.
compose_action(action, resource_type) ==
    IF IsBlank(action) THEN Rejected
    ELSE IF is_composite_action(action)
    THEN IF resource_type # None THEN Rejected ELSE Composed(action)
    ELSE IF resource_type # None /\ IsSegment(action) /\ IsSegment(resource_type)
         THEN Composed(action \o resource_type) ELSE Rejected

\* Prefixes every resource_id with the type, typed ones too.
ComposeTypedResourceAgain(resource_type, resource_id) ==
    IF resource_id = None \/ resource_type = None THEN Composed(resource_id)
    ELSE Composed(resource_type \o resource_id)

\* A local resource_id takes the type; a typed one must not come with one.
compose_resource_id(resource_type, resource_id) ==
    IF resource_id = None THEN Composed(None)
    ELSE IF is_typed_resource_id(resource_id)
    THEN IF resource_type # None THEN Rejected ELSE Composed(resource_id)
    ELSE IF resource_type = None THEN Rejected ELSE Composed(resource_type \o resource_id)

\* The composed flag of a ResourceCompositionResult.
ResourceWasComposed(resource_type, resource_id) ==
    resource_id # None /\ ~is_typed_resource_id(resource_id) /\ resource_type # None

-----------------------------------------------------------------------------
(* Evidence.  Keys are written without the "basis_gateway." prefix that    *)
(* makes them reserved; "other_reserved" stands for any other such key.    *)

ActionEvidenceKeys == {"action_composed", "original_action", "resource_type", "composed_action"}
ResourceEvidenceKeys ==
    {"resource_composed", "original_resource_id", "resource_type", "composed_resource_id"}
ReservedKeys == ActionEvidenceKeys \cup ResourceEvidenceKeys \cup {"other_reserved"}

\* Refuses only the keys that are not evidence keys themselves.
CollisionsOutsideEvidence(context) == DOMAIN context \cap {"other_reserved"}

reserved_key_collisions(context) == DOMAIN context \cap ReservedKeys

build_composition_evidence(original_action, resource_type, composed_action) ==
    [action_composed |-> <<"true">>, original_action |-> original_action,
     resource_type |-> resource_type, composed_action |-> composed_action]

build_resource_composition_evidence(original_resource_id, resource_type, composed_resource_id) ==
    [resource_composed |-> <<"true">>, original_resource_id |-> original_resource_id,
     resource_type |-> resource_type, composed_resource_id |-> composed_resource_id]

\* dict.update: the entries of new replace those of old.
Update(old, new) ==
    [k \in DOMAIN old \cup DOMAIN new |-> IF k \in DOMAIN new THEN new[k] ELSE old[k]]
=============================================================================
