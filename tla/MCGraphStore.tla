------------------------------ MODULE MCGraphStore ------------------------------
(* Small instances of GraphStore: a root with one message under it. *)
EXTENDS GraphStore

MCInitArr == [nodes |-> {[id |-> <<"root">>, kind |-> "seed"]}, wires |-> {}, tip |-> <<"root">>]

MCBatches ==
    { << AddNode(<<"root">>, "seed", NoId) >>,
      << AddNode(<<"a">>, "A", <<"root">>) >>,
      << AddNode(<<"b">>, "B", <<"a">>), SetTip(<<"b">>) >>,
      << AddWire(<<"a">>, <<"root">>, ParentPort) >>,
      << AddNode(<<"a">>, "C", <<"root">>), AddWire(<<"a">>, <<"root">>, <<"note">>) >> }
=============================================================================
