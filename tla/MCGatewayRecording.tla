------------------------- MODULE MCGatewayRecording -------------------------
(* Small instances of GatewayRecording: two calls that ring (in1, in2), one     *)
(* the gateway dials (out1), two requests at a time (k1, k2).                    *)
EXTENDS GatewayRecordingInductive, TLC

CONSTANTS in1, in2, out1, k1, k2

NoCalls == {}
OneIn == {in1}
TwoIn == {in1, in2}
OneOut == {out1}
InAndOut == {in1, out1}
OneClient == {k1}
TwoClients == {k1, k2}

=============================================================================
