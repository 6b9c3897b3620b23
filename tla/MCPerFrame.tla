----------------------------- MODULE MCPerFrame -----------------------------
(* Three frames on a server and two workers. *)
EXTENDS PerFrame
CONSTANTS f1, f2, f3, w1, w2
MCFrames    == {f1, f2, f3}
MCWorkers   == {w1, w2}
MCLeftovers == {f1, f2}
NoLeftovers == {}
=============================================================================
