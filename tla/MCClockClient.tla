----------------------------- MODULE MCClockClient -----------------------------
(* Instance of ClockClient for TLC: see clock.cfg for the bounds. *)
EXTENDS ClockClient
=============================================================================
