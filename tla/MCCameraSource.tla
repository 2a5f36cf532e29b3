---------------------------- MODULE MCCameraSource ----------------------------
(* Instance of CameraSource for TLC: users and devices are model values. *)
EXTENDS CameraSource
=============================================================================
