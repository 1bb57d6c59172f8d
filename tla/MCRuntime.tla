----------------------------- MODULE MCRuntime -----------------------------
(* Model-checking instance of Runtime.  The cfgs give the sets of ids:    *)
(* MCRuntime.cfg has one buffer, one texture, two default_stream()        *)
(* handles, one created stream, two command buffers and one thread.       *)
(* MCCounts are the element counts passed to create_buffer: 5 elements of *)
(* size 4 overflow a 4-bit usize.                                          *)
EXTENDS Runtime

MCCounts == {1, 5}
=============================================================================
