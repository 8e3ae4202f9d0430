---------------------------- MODULE MCSearchRoute ----------------------------
(* SearchRoute for TLC: three requests on two instances. *)
EXTENDS SearchRoute, TLC

CONSTANTS h1, h2, h3, i1, i2, v1, v2, a1

MCHandlers == {h1, h2, h3}
MCInstances == {i1, i2}
MCInstanceOf == h1 :> i1 @@ h2 :> i1 @@ h3 :> i2
MCDeviceOf == h1 :> v1 @@ h2 :> v2 @@ h3 :> v1
MCDevices == {v1, v2}
MCIps == {a1}
MCIpOf == [v \in MCDevices |-> a1]
=============================================================================
