---------------------------- MODULE MCTokenStore ----------------------------
(***************************************************************************)
(* TokenStore with two built-in principals and one that an old database or *)
(* the operator may add, four plaintexts (one in the new format, one only  *)
(* nearly) and an id for every row.                                        *)
(***************************************************************************)
EXTENDS TokenStore

MCPrincipal == {"human", "agent", "ops"}
MCBuiltin == <<"human", "agent">>
MCLegacy == {"human", "ops"}
MCPart == {"airc", "", "human-token", "agent-token", "x", "i1", "i2", "i3", "i4", "i5",
           "s1", "s2", "s3", "s4", "s5"}
MCTokenId == <<"i1", "i2", "i3", "i4", "i5">>
MCSecret == <<<<"s1">>, <<"s2">>, <<"s3">>, <<"s4">>, <<"s5">>>>
MCDefaultToken == [p \in {"human", "agent"} |-> IF p = "human" THEN <<"human-token">>
                                                             ELSE <<"agent-token">>]
MCPlaintext == {<<"human-token">>, <<"agent-token">>, <<"airc", "", "x">>,
                <<"airc", "i3", "s3">>}
=============================================================================
