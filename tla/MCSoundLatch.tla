---------------------------- MODULE MCSoundLatch ----------------------------
(***************************************************************************)
(* A small instance of SoundLatch, driven by the 68k or by the bench.      *)
(***************************************************************************)
EXTENDS JsaReplay
=============================================================================
