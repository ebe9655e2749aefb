---------------------------- MODULE MCDescriptors ----------------------------
(***************************************************************************)
(* A uint32_t of 16 bits, so that the interval of the watchdog wraps: from *)
(* 73 s on instead of from 4772186 s, and is 0 for 16384 s instead of for  *)
(* 2^30 s.                                                                 *)
(***************************************************************************)
EXTENDS Descriptors

SomeTimeouts == {-1, 0, 1, 72, 73, 16384, 32767}
=============================================================================
