------------------------------- MODULE MCMount -------------------------------
(***************************************************************************)
(* Two system filesystems, one of which may fail; mount points of which   *)
(* one lies below another; all fstab files of up to two lines with         *)
(* options of every kind.                                                  *)
(***************************************************************************)
EXTENDS Mount

System == <<[target |-> "/dev", fatal |-> TRUE], [target |-> "/debug", fatal |-> FALSE]>>
MountPoints == {"/", "/dev", "/debug", "/mnt", "/mnt/a", "/srv"}
Dirs == ({"/"} \X (MountPoints \ {"/"})) \cup {<<"/mnt", "/mnt/a">>}

Options == {<<>>, <<"noauto">>, <<"nofail", "'">>, <<"ro", "nofail", "x">>,
            <<"rw", "", "ro", "x", "y">>, <<"noexec", "defaults", "ro", "rw">>}
Entries == [dir : {"/mnt", "/mnt/a"}, opts : Options]
           \cup {[dir |-> "/", opts |-> <<"remount", "ro">>]}
AllFstabs == UNION {[1 .. n -> Entries] : n \in 0 .. 2}
Early == {<<>>, <<"/dev">>}
=============================================================================
