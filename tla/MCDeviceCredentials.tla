------------------------ MODULE MCDeviceCredentials ------------------------
(***************************************************************************)
(* Keys, a device and sockets for checking DeviceCredentials.              *)
(***************************************************************************)
EXTENDS DeviceCredentials

CONSTANTS k1, k2, k3, d1, s1, s2

OneDevice == {d1}
ThreeKeys == {k1, k2, k3}
TwoSockets == {s1, s2}
=============================================================================
