------------------------------ MODULE MCCmdline ------------------------------
(***************************************************************************)
(* All command lines of up to six characters over the characters that     *)
(* matter, and up to four with the tags.                                  *)
(***************************************************************************)
EXTENDS Cmdline

Upto(chars, n) == UNION {[1 .. k -> chars] : k \in 0 .. n}

AllTexts == Upto({"a", "=", " ", "'", "\""}, 6) \cup Upto({"a", " ", "'", Proc, ExitCode}, 4)
=============================================================================
