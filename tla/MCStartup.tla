----------------------------- MODULE MCStartup -----------------------------
(* Startup for TLC: every configuration, two entries of the lifespan.      *)
EXTENDS Startup
=============================================================================
