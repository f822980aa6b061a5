---------------------------- MODULE MCSamplingBus ----------------------------
(* Instance of SamplingBus for model checking: a CAN bus of two messages   *)
(* of which the receiver declares one with another length, and the second  *)
(* one under both of its ids; a CAN bus whose receiver has a buffer for    *)
(* one frame; an AFDX channel that the receiver declares shorter; and a    *)
(* bus of two labels.                                                      *)
EXTENDS SamplingBus, TLC

MCBuses ==
  { [protocol |-> "can", list |-> <<"m", "n">>, outSize |-> ("m" :> 2) @@ ("n" :> 1),
     ids |-> ("m" :> {"m"}) @@ ("n" :> {"n", "p"}),
     inSize |-> ("m" :> 1) @@ ("n" :> 1) @@ ("p" :> 1), room |-> 2],
    [protocol |-> "can", list |-> <<"m", "n">>, outSize |-> ("m" :> 2) @@ ("n" :> 1),
     ids |-> ("m" :> {"m"}) @@ ("n" :> {"n"}),
     inSize |-> ("m" :> 2) @@ ("n" :> 1), room |-> 1],
    [protocol |-> "afdx", list |-> <<"m">>, outSize |-> ("m" :> 2),
     ids |-> ("m" :> {"m"}), inSize |-> ("m" :> 1), room |-> 1],
    [protocol |-> "afdx", list |-> <<"m">>, outSize |-> ("m" :> 2),
     ids |-> ("m" :> {"m"}), inSize |-> ("m" :> 2), room |-> 1],
    [protocol |-> "a429", list |-> <<"m", "n">>, outSize |-> ("m" :> 1) @@ ("n" :> 2),
     ids |-> ("m" :> {"m"}) @@ ("n" :> {"n"}),
     inSize |-> ("n" :> 2), room |-> 2] }
=============================================================================
