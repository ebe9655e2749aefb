---------------------------- MODULE InittabEntry ----------------------------
(***************************************************************************)
(* The entries of the inittab (src/src/inittab.h): what init knows of a    *)
(* process it has to start.  An entry is the record of struct              *)
(* inittab_entry without its texts: "line" stands for the command line     *)
(* (its place in the file identifies it), "order" and "type" are the       *)
(* fields the supervisor looks at.                                         *)
(***************************************************************************)
EXTENDS Integers

\* enum inittab_entry_type.
EntryType == {"ONE_SHOT", "SAFE_ONE_SHOT", "SERVICE", "SAFE_SERVICE",
              "SHUTDOWN", "SAFE_SHUTDOWN", "SAFE_MODE"}

\* struct inittab_entry; the order of a <safe-mode> entry may be blank (-1).
EntryRecord == [line : Nat, order : Nat \cup {-1}, type : EntryType]

\* An abnormal end of such a process asks for safe mode.
is_safe_entry(entry) ==
    entry.type \in {"SAFE_SERVICE", "SAFE_ONE_SHOT", "SAFE_MODE", "SAFE_SHUTDOWN"}

\* Started during STAGE_STARTUP.
is_startup_entry(entry) ==
    entry.type \in {"ONE_SHOT", "SAFE_ONE_SHOT", "SERVICE", "SAFE_SERVICE"}

\* Started during STAGE_SHUTDOWN.
is_shutdown_entry(entry) == entry.type \in {"SHUTDOWN", "SAFE_SHUTDOWN"}

\* Init waits for such a process before it starts the next order.
is_one_shot_entry(entry) ==
    entry.type \in {"ONE_SHOT", "SAFE_ONE_SHOT", "SHUTDOWN", "SAFE_SHUTDOWN"}

=============================================================================
