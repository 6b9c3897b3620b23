----------------------------- MODULE MCSession -----------------------------
(* Three launches on a Windows machine: one that may crash, one that meets *)
(* its leftovers, and one that meets those of both.                        *)
EXTENDS Session
=============================================================================
