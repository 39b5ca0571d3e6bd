----------------------------- MODULE MCUsbServer -----------------------------
(* Small instances of UsbServer.                                               *)
EXTENDS UsbServer, TLC

CONSTANTS k1, k2, k3, p1, p2

OneKey == {k1}
ThreeKeys == {k1, k2, k3}
OnePrint == {p1}
TwoPrints == {p1, p2}

\* Keys are interchangeable, and so are fingerprints.
KeySymmetry == Permutations(ThreeKeys) \cup Permutations(TwoPrints)
=============================================================================
