------------------------------ MODULE MCHotReload ------------------------------
(* A source wired to a sink, and versions of it that change a parameter, a   *)
(* type, a set of nodes, use a type the runtime does not know and one id     *)
(* twice, as an unfold may.                                                  *)
EXTENDS HotReload

Node(id, type, params) == [id |-> id, kind |-> [type |-> type, params |-> params]]
Arr(ns) == [nodes |-> ns, wires |-> {}, tip |-> NoId]

MCInitArr == Arr({Node(<<"a">>, "Const", 1), Node(<<"b">>, "State", 1)})

MCVersions ==
    { Arr({Node(<<"a">>, "Const", 2), Node(<<"b">>, "State", 1)}),
      Arr({Node(<<"a">>, "State", 1), Node(<<"c">>, "Const", 1)}),
      Arr({Node(<<"b">>, "Novel", 1), Node(<<"c">>, "Const", 1), Node(<<"c">>, "State", 1)}) }
=============================================================================
