------------------------------- MODULE MCGraphMCP -------------------------------
(* Two MCP servers, a graph of two messages, one batch and one fold. *)
EXTENDS GraphMCP

Message(c) == [type |-> "Message", content |-> c]

MCInitArr ==
    [nodes |-> {[id |-> <<x>>, kind |-> Message(x)] : x \in {"a", "b"}},
     wires |-> {ParentWire(<<"a">>, <<"b">>)}, tip |-> <<"b">>]

MCBatches == { << AddNode(<<"c">>, Message("c"), <<"a">>) >> }

\* The second would leave the active tip without its node.
MCFolds == { {<<"a">>}, {<<"b">>} }
=============================================================================
