-------------------------- MODULE MCOperationInput --------------------------
(* OperationInput for TLC: every trust situation on a few requests, and     *)
(* every request shape in a few trust situations.                          *)
EXTENDS OperationRecord

MCIdentifiers == {"read", "ahu"}
MCNewlineEnded == {"read\n"}

MCTrim == [s \in {"s1", "s2", " s1 ", " "} |->
             IF s = " s1 " THEN "s1" ELSE IF s = " " THEN "" ELSE s]

Certificates ==
    [fault : Faults \ {"none"}, uris : {<<"u1">>}]
    \cup [fault : {"none"}, uris : {<<>>, <<"u1">>, <<"u2">>, <<"">>, <<"u1", "u1">>}]

Admitted == [fault |-> "none", uris |-> <<"u1">>]
HeaderLists == {<<>>, <<Admitted, Admitted>>} \cup {<<c>> : c \in Certificates}

Configs ==
    [mtls : BOOLEAN,
     allowlist : {{}, {"s1"}, {" s1 ", " "}, {"s2"}},
     admitted : {{}, {"u1"}, {" u1"}, {"", "u1"}}]

Actions == {<<"read">>, <<"read\n">>, <<"Read">>, <<"read", "ahu">>, <<"", "">>, <<" ">>, <<"">>}
Types == {None, <<"ahu">>, <<"">>, <<"Ahu">>, <<"ahu", "x">>}
Ids == {None, <<"x">>, <<"">>, <<"ahu", "x">>, <<"vav", "x">>}
Contexts ==
    {<<>>, [site |-> <<"caller">>], [composed_action |-> <<"caller">>],
     [other_reserved |-> <<"caller">>]}
FieldSets == {{}, {"location"}, {"device", "adapter_evidence_reference"}}

TrustQueries ==
    [endpoint : {"operation_aware"}, config : Configs, headers : HeaderLists,
     subject : {"s1", "s2", " s1 "}, fields : FieldSets, action : {<<"read">>},
     resource_type : {<<"ahu">>}, resource_id : {None}, context : {<<>>},
     request_id : {None_}]

ShapeQueries ==
    [endpoint : {"evaluate", "operation_aware"},
     config : [mtls : {FALSE}, allowlist : {{"s1"}}, admitted : {{}}],
     headers : {<<>>}, subject : {"s1", "s2"}, fields : {{}, {"location"}},
     action : Actions, resource_type : Types, resource_id : Ids, context : Contexts,
     request_id : {None_, "", " ", "given"}]

MCQueries == TrustQueries \cup ShapeQueries
=============================================================================
