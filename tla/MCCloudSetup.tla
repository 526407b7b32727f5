---------------------------- MODULE MCCloudSetup ----------------------------
(* The bounds of CloudSetup are plain numbers: see the cfgs.               *)
EXTENDS CloudSetup
=============================================================================
