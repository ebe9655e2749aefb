-------------------------------- MODULE Mount --------------------------------
(***************************************************************************)
(* The filesystems (src/src/mount.c): init mounts the system filesystems   *)
(* and those of /etc/fstab before anything else, and unmounts what it can  *)
(* before the reboot.  In between services may mount others.               *)
(*                                                                         *)
(* The kernel's side is the sequence of mounts, oldest first.  A mount is  *)
(* reached through its path: the youngest mount on the path is meant, it   *)
(* can be hidden by a younger mount on a directory above it, and it is in  *)
(* use while something younger is mounted below it.                        *)
(***************************************************************************)
EXTENDS Integers, FiniteSets, Sequences

CONSTANTS mount_table,  \* the system filesystems: [target, fatal]
          Fstabs,       \* the fstab files tried: sequences of [dir, opts]
          Paths,        \* the mount points
          Above,        \* pairs <<p, q>>: p is a directory above q
          Premounted,   \* what the kernel may have mounted before init runs
          MaxOther,     \* mounts made by others while the system runs
          CallFaults    \* the calls that may fail: "mkdir", "mount", "malloc", "sprintf", "open"

VARIABLES pc,
          mounts,                        \* the kernel's mounts: [path, busy]
          fstab, at,                     \* the file, and the entry being worked on
          table_at,                      \* the row of mount_table being worked on
          flags, unknown_opts,           \* what the options came to; <<>> is NULL
          next_opt,                      \* the option next_token returns next
          heap,                          \* the strings that are allocated
          made,                          \* the fstab mounts init made: [entry, flags, data]
          others,                        \* mounts made by others so far
          mp_list, mp, changed,          \* the mount points to unmount
          complete                       \* is every one of them in the list?

system == <<table_at>>
parsing == <<flags, unknown_opts, next_opt, heap>>
umounting == <<mp_list, mp, changed, complete>>
vars == <<pc, mounts, fstab, at, system, parsing, made, others, umounting>>

Root == "/"

\* These three are as in SequencesExt, which is not extended: every obligation
\* of MountProofs would carry the whole of it.
ToSet(s) == {s[i] : i \in DOMAIN s}
RemoveAt(s, k) == SubSeq(s, 1, k - 1) \o SubSeq(s, k + 1, Len(s))
SetToSeqs(S) == {f \in [1 .. Cardinality(S) -> S] :
                    \A i, j \in 1 .. Cardinality(S) : i # j => f[i] # f[j]}

ASSUME MountAssumption ==
    /\ Root \in Paths /\ Above \subseteq Paths \X Paths
    /\ mount_table \in Seq([target : Paths, fatal : BOOLEAN])
    /\ Fstabs \subseteq Seq([dir : Paths, opts : Seq(STRING)])
    /\ Premounted \subseteq Seq(Paths)
    /\ MaxOther \in Nat
    /\ CallFaults \subseteq {"mkdir", "mount", "malloc", "sprintf", "open"}

Targets == {mount_table[i].target : i \in DOMAIN mount_table}
At(p) == {i \in DOMAIN mounts : mounts[i].path = p}
Mounted(p) == At(p) # {}
Attach(p) == Append(mounts, [path |-> p, busy |-> FALSE])

Init ==
    /\ \E early \in Premounted :
          mounts = <<[path |-> Root, busy |-> TRUE]>>
                   \o [i \in 1 .. Len(early) |-> [path |-> early[i], busy |-> FALSE]]
    /\ fstab \in Fstabs /\ at = 1 /\ table_at = 1
    /\ pc = "system" /\ made = <<>> /\ others = 0
    /\ flags = {} /\ unknown_opts = <<>> /\ next_opt = 1 /\ heap = 0
    /\ mp_list = <<>> /\ mp = 1 /\ changed = FALSE /\ complete = FALSE

-----------------------------------------------------------------------------
(* mount_system_filesystems *)

Row == mount_table[table_at]

SystemMounted ==
    /\ pc = "system" /\ table_at <= Len(mount_table) /\ ~Mounted(Row.target)
    /\ mounts' = Attach(Row.target)
    /\ table_at' = table_at + 1
    /\ UNCHANGED <<pc, fstab, at, parsing, made, others, umounting>>

\* EBUSY, the filesystem is there already, is never fatal; another failure of mkdir
\* or mount is not if the row says so.
SystemSkipped ==
    /\ pc = "system" /\ table_at <= Len(mount_table)
    /\ Mounted(Row.target) \/ (~Row.fatal /\ CallFaults \cap {"mkdir", "mount"} # {})
    /\ table_at' = table_at + 1
    /\ UNCHANGED <<pc, mounts, fstab, at, parsing, made, others, umounting>>

SystemFails ==
    /\ pc = "system" /\ table_at <= Len(mount_table)
    /\ Row.fatal /\ (CallFaults \cap {"mkdir", "mount"} # {})
    /\ pc' = "failed"
    /\ UNCHANGED <<mounts, fstab, at, system, parsing, made, others, umounting>>

SystemDone ==
    /\ pc = "system" /\ table_at > Len(mount_table)
    /\ pc' = "fstab"
    /\ UNCHANGED <<mounts, fstab, at, system, parsing, made, others, umounting>>

-----------------------------------------------------------------------------
(* parse_fstab_mnt_options *)

\* The table of add_option_flag: the options that set a flag and those that clear
\* one.  A text that is neither, and not "nofail", goes to the filesystem.
Sets == [defaults |-> "NOUSER", ro |-> "RDONLY", noexec |-> "NOEXEC", nodev |-> "NODEV",
         nouser |-> "NOUSER", relatime |-> "RELATIME", sync |-> "SYNCHRONOUS",
         silent |-> "SILENT", noatime |-> "NOATIME", strictatime |-> "STRICTATIME",
         nosuid |-> "NOSUID", nodiratime |-> "NODIRATIME", iversion |-> "I_VERSION",
         mand |-> "MANDLOCK", dirsync |-> "DIRSYNC", remount |-> "REMOUNT"]
Clears == [rw |-> "RDONLY", exec |-> "NOEXEC", dev |-> "NODEV", user |-> "NOUSER",
           norelatime |-> "RELATIME", async |-> "SYNCHRONOUS", loud |-> "SILENT",
           atime |-> "NOATIME", nostrictatime |-> "STRICTATIME", suid |-> "NOSUID",
           diratime |-> "NODIRATIME", noiversion |-> "I_VERSION", nomand |-> "MANDLOCK"]
Known(opt) == opt \in DOMAIN Sets \cup DOMAIN Clears \cup {"nofail"}

\* Variant: an option that clears a flag sets it.
add_option_flag_Or(opt, f) ==
    IF opt \in DOMAIN Sets THEN f \cup {Sets[opt]}
    ELSE IF opt \in DOMAIN Clears THEN f \cup {Clears[opt]} ELSE f

add_option_flag(opt, f) ==
    IF opt \in DOMAIN Sets THEN f \cup {Sets[opt]}
    ELSE IF opt \in DOMAIN Clears THEN f \ {Clears[opt]} ELSE f

Entry == fstab[at]
BlankToken == ""
UnfinishedQuote == "'"
HasOption(opt) == opt \in ToSet(Entry.opts)
Held(s) == IF s = <<>> THEN 0 ELSE 1

\* The options are copied, and the caller's flags and text start empty.
ParseOptions ==
    /\ pc = "fstab" /\ at <= Len(fstab) /\ ~HasOption("noauto") /\ Entry.opts # <<>>
    /\ flags' = {} /\ unknown_opts' = <<>> /\ next_opt' = 1
    /\ heap' = heap + 1
    /\ pc' = "options"
    /\ UNCHANGED <<mounts, fstab, at, system, made, others, umounting>>

\* An empty text, or no memory for the copy.
ParseRefused ==
    /\ pc = "fstab" /\ at <= Len(fstab) /\ ~HasOption("noauto")
    /\ Entry.opts = <<>> \/ "malloc" \in CallFaults
    /\ unknown_opts' = <<>>
    /\ pc' = "failed"
    /\ UNCHANGED <<mounts, fstab, at, system, flags, next_opt, heap, made, others, umounting>>

OptionLeft == pc = "options" /\ next_opt <= Len(Entry.opts)

KnownOption ==
    /\ OptionLeft /\ Known(Entry.opts[next_opt])
    /\ flags' = add_option_flag(Entry.opts[next_opt], flags)
    /\ next_opt' = next_opt + 1
    /\ UNCHANGED <<pc, mounts, fstab, at, system, unknown_opts, heap, made, others, umounting>>

BlankOption ==
    /\ OptionLeft /\ Entry.opts[next_opt] = BlankToken
    /\ next_opt' = next_opt + 1
    /\ UNCHANGED <<pc, mounts, fstab, at, system, flags, unknown_opts, heap, made, others, umounting>>

\* Variant: the old text is not freed.
add_unknown_option_Leak(opt) ==
    /\ unknown_opts' = Append(unknown_opts, opt)
    /\ heap' = heap + 1

\* The text grows in a new block, and the old one is freed.
add_unknown_option(opt) ==
    /\ unknown_opts' = Append(unknown_opts, opt)
    /\ heap' = heap + 1 - Held(unknown_opts)

UnknownOption ==
    /\ OptionLeft /\ ~Known(Entry.opts[next_opt])
    /\ Entry.opts[next_opt] \notin {BlankToken, UnfinishedQuote}
    /\ add_unknown_option(Entry.opts[next_opt])
    /\ next_opt' = next_opt + 1
    /\ UNCHANGED <<pc, mounts, fstab, at, system, flags, made, others, umounting>>

\* An unfinished quote, or no memory for an unknown option: both strings are freed
\* and the whole file is given up.
OptionsFail ==
    /\ OptionLeft
    /\ \/ Entry.opts[next_opt] = UnfinishedQuote
       \/ /\ ~Known(Entry.opts[next_opt]) /\ Entry.opts[next_opt] # BlankToken
          /\ "malloc" \in CallFaults
    /\ heap' = heap - 1 - Held(unknown_opts)
    /\ unknown_opts' = <<>>
    /\ pc' = "failed"
    /\ UNCHANGED <<mounts, fstab, at, system, flags, next_opt, made, others, umounting>>

\* sprintf fails when a second unknown option has its new block: nobody keeps that
\* block.  Both strings are freed and the file is given up, with one block lost.
SprintfFails ==
    /\ OptionLeft /\ ~Known(Entry.opts[next_opt])
    /\ Entry.opts[next_opt] \notin {BlankToken, UnfinishedQuote}
    /\ unknown_opts # <<>> /\ "sprintf" \in CallFaults
    /\ heap' = heap + 1 - 1 - Held(unknown_opts)
    /\ unknown_opts' = <<>>
    /\ pc' = "leaked"
    /\ UNCHANGED <<mounts, fstab, at, system, flags, next_opt, made, others, umounting>>

\* TOKEN_END: the copy is freed.
OptionsDone ==
    /\ pc = "options" /\ next_opt > Len(Entry.opts)
    /\ heap' = heap - 1
    /\ pc' = "mount"
    /\ UNCHANGED <<mounts, fstab, at, system, flags, unknown_opts, next_opt, made, others, umounting>>

-----------------------------------------------------------------------------
(* mount_fstab_filesystems *)

\* Without a file there is nothing to mount, and that is no error.
NoFstab ==
    /\ pc = "fstab" /\ at = 1 /\ fstab # <<>> /\ "open" \in CallFaults
    /\ fstab' = <<>>
    /\ UNCHANGED <<pc, mounts, at, system, parsing, made, others, umounting>>

SkipNoauto ==
    /\ pc = "fstab" /\ at <= Len(fstab) /\ HasOption("noauto")
    /\ at' = at + 1
    /\ UNCHANGED <<pc, mounts, fstab, system, parsing, made, others, umounting>>

\* The rest of an iteration: the unknown options are freed and the next line read.
NextEntry ==
    /\ heap' = heap - Held(unknown_opts) /\ unknown_opts' = <<>>
    /\ at' = at + 1 /\ pc' = "fstab"

\* A remount attaches nothing.
FstabMounted ==
    /\ pc = "mount"
    /\ mounts' = IF "REMOUNT" \in flags THEN mounts ELSE Attach(Entry.dir)
    /\ made' = Append(made, [entry |-> at, flags |-> flags, data |-> unknown_opts])
    /\ NextEntry
    /\ UNCHANGED <<fstab, system, flags, next_opt, others, umounting>>

\* mkdir or mount failed, and the entry may.
FstabNofail ==
    /\ pc = "mount" /\ HasOption("nofail") /\ CallFaults \cap {"mkdir", "mount"} # {}
    /\ NextEntry
    /\ UNCHANGED <<mounts, fstab, system, flags, next_opt, made, others, umounting>>

FstabFails ==
    /\ pc = "mount" /\ ~HasOption("nofail") /\ CallFaults \cap {"mkdir", "mount"} # {}
    /\ heap' = heap - Held(unknown_opts) /\ unknown_opts' = <<>>
    /\ pc' = "failed"
    /\ UNCHANGED <<mounts, fstab, at, system, flags, next_opt, made, others, umounting>>

FstabDone ==
    /\ pc = "fstab" /\ at > Len(fstab)
    /\ pc' = "run"
    /\ UNCHANGED <<mounts, fstab, at, system, parsing, made, others, umounting>>

\* Others mount filesystems while the system runs.
OtherMounts ==
    /\ pc = "run" /\ others < MaxOther
    /\ \E p \in Paths \ {Root} : mounts' = Attach(p)
    /\ others' = others + 1
    /\ UNCHANGED <<pc, fstab, at, system, parsing, made, umounting>>

-----------------------------------------------------------------------------
(* mount_umount_filesystems *)

UserMounts == {i \in DOMAIN mounts : mounts[i].path \notin Targets}

\* get_mountpoints: the paths of mountinfo, in whatever order the kernel lists them,
\* without those of the system, each put before the ones found so far.  Without
\* memory for an entry, the ones found so far are all.  What is busy is settled now;
\* what the fstab asked for is not needed any more.
get_mountpoints ==
    /\ pc = "run"
    /\ \E order \in SetToSeqs(UserMounts), n \in 0 .. Cardinality(UserMounts) :
          /\ complete' = (n = Len(order))
          /\ complete' \/ "malloc" \in CallFaults \/ (n = 0 /\ "open" \in CallFaults)
          /\ mp_list' = [k \in 1 .. n |-> mounts[order[n + 1 - k]].path]
    /\ \E used \in SUBSET UserMounts :
          mounts' = [i \in DOMAIN mounts |-> [mounts[i] EXCEPT !.busy = @ \/ i \in used]]
    /\ mp' = 1 /\ changed' = FALSE
    /\ pc' = "umount"
    /\ fstab' = <<>> /\ at' = 1 /\ made' = <<>> /\ flags' = {}
    /\ UNCHANGED <<system, unknown_opts, next_opt, heap, others>>

Related(p, q) == p = q \/ <<p, q>> \in Above \/ <<q, p>> \in Above

\* The kernel unmounts the youngest mount on a path, unless it is busy or a younger
\* one is mounted below it, or above it so that the path does not lead to it.
Unmountable(i) ==
    /\ ~mounts[i].busy
    /\ \A j \in i + 1 .. Len(mounts) : ~Related(mounts[i].path, mounts[j].path)

\* Variant: the success is not noted.
UmountOk_NotNoted ==
    /\ pc = "umount" /\ mp <= Len(mp_list)
    /\ \E i \in At(mp_list[mp]) : Unmountable(i) /\ mounts' = RemoveAt(mounts, i)
    /\ mp_list' = RemoveAt(mp_list, mp)
    /\ UNCHANGED <<pc, fstab, at, system, parsing, made, others, mp, changed, complete>>

\* The entry is taken out of the list; the next one is in its place.
UmountOk ==
    /\ pc = "umount" /\ mp <= Len(mp_list)
    /\ \E i \in At(mp_list[mp]) : Unmountable(i) /\ mounts' = RemoveAt(mounts, i)
    /\ mp_list' = RemoveAt(mp_list, mp) /\ changed' = TRUE
    /\ UNCHANGED <<pc, fstab, at, system, parsing, made, others, mp, complete>>

UmountFails ==
    /\ pc = "umount" /\ mp <= Len(mp_list)
    /\ \A i \in At(mp_list[mp]) : ~Unmountable(i)
    /\ mp' = mp + 1
    /\ UNCHANGED <<pc, mounts, fstab, at, system, parsing, made, others, mp_list, changed, complete>>

\* Variant: what an earlier pass changed is not forgotten.
NextPass_KeepsChanged ==
    /\ pc = "umount" /\ mp > Len(mp_list) /\ changed
    /\ mp' = 1
    /\ UNCHANGED <<pc, mounts, fstab, at, system, parsing, made, others, mp_list, changed, complete>>

\* As long as a pass unmounted something there is another one.
NextPass ==
    /\ pc = "umount" /\ mp > Len(mp_list) /\ changed
    /\ mp' = 1 /\ changed' = FALSE
    /\ UNCHANGED <<pc, mounts, fstab, at, system, parsing, made, others, mp_list, complete>>

\* Nothing more can be unmounted: the list is freed.
GiveUp ==
    /\ pc = "umount" /\ mp > Len(mp_list) /\ ~changed
    /\ mp_list' = <<>> /\ pc' = "unmounted"
    /\ UNCHANGED <<mounts, fstab, at, system, parsing, made, others, mp, changed, complete>>

Ended == pc \in {"failed", "leaked", "unmounted"} /\ UNCHANGED vars

Mounting ==
    \/ SystemMounted \/ SystemSkipped \/ SystemFails \/ SystemDone \/ NoFstab \/ SkipNoauto
    \/ ParseOptions \/ ParseRefused \/ KnownOption \/ BlankOption \/ UnknownOption
    \/ OptionsFail \/ SprintfFails \/ OptionsDone
    \/ FstabMounted \/ FstabNofail \/ FstabFails \/ FstabDone
Umounting == get_mountpoints \/ UmountOk \/ UmountFails \/ NextPass \/ GiveUp

Next == Mounting \/ OtherMounts \/ Umounting \/ Ended

Spec == Init /\ [][Next]_vars
\* Init's own steps are taken; nobody has to mount anything.
FairSpec == Spec /\ WF_vars(Mounting) /\ WF_vars(Umounting)

-----------------------------------------------------------------------------

\* What "defaults" should undo of the options before it: the comment on its row of the
\* table says that it should equal "rw,suid,dev,exec,auto,nouser,async" (mount.c:56).
DefaultsUndoes == {"RDONLY", "NOSUID", "NODEV", "NOEXEC", "SYNCHRONOUS"}
Undoes(opt, flag) ==
    \/ opt \in DOMAIN Clears /\ Clears[opt] = flag
    \/ opt = "defaults" /\ flag \in DefaultsUndoes

\* The flags the options ask for: what an option sets stands unless a later one undoes it.
Asked(opts) ==
    {Sets[opts[i]] : i \in {k \in DOMAIN opts :
        /\ opts[k] \in DOMAIN Sets
        /\ \A j \in k + 1 .. Len(opts) : ~Undoes(opts[j], Sets[opts[k]])}}

\* The flags that a "defaults" should have undone and, setting NOUSER only, does not.
NotUndone(opts) ==
    {Sets[opts[i]] : i \in {k \in DOMAIN opts :
        /\ opts[k] \in DOMAIN Sets /\ Sets[opts[k]] \in DefaultsUndoes
        /\ \E j \in k + 1 .. Len(opts) : opts[j] = "defaults"}}

\* The data are those of the first n options that are not known, in their order.
PassedOn(opts, n, data) ==
    \E place \in [DOMAIN data -> 1 .. n] :
        /\ \A a, b \in DOMAIN data : a < b => place[a] < place[b]
        /\ \A a \in DOMAIN data : data[a] = opts[place[a]]
        /\ \A i \in 1 .. n : (\E a \in DOMAIN data : place[a] = i)
                             <=> ~Known(opts[i]) /\ opts[i] # BlankToken

\* Once mount_mount_filesystems has returned true, every fatal system filesystem is
\* mounted and init has mounted, once and in the order of the file, every entry that
\* is neither "noauto" nor "nofail"; each of its mounts has the flags the options ask
\* for, the last of two contrary ones winning, and the options it does not know as
\* data (mount.c:209-372).  There is one exception, and the property says how far it
\* goes: an option before a "defaults" that should undo it may stand, because the code
\* gives "defaults" less than the comment on it does (mount.c:56-57).
MountedAsAsked ==
    pc = "run" =>
        /\ \A i \in DOMAIN mount_table : mount_table[i].fatal => Mounted(mount_table[i].target)
        /\ \A k \in DOMAIN fstab :
              \/ \E i \in DOMAIN made : made[i].entry = k
              \/ {"noauto", "nofail"} \cap ToSet(fstab[k].opts) # {}
        /\ \A i \in DOMAIN made :
              /\ \A j \in i + 1 .. Len(made) : made[i].entry < made[j].entry
              /\ LET opts == fstab[made[i].entry].opts
                 IN  /\ "noauto" \notin ToSet(opts)
                     /\ Asked(opts) \subseteq made[i].flags
                     /\ made[i].flags \subseteq Asked(opts) \cup NotUndone(opts)
                     /\ PassedOn(opts, Len(opts), made[i].data)

\* The copy of the options and the text of the unknown ones are freed exactly once, on
\* every way through the loop over the fstab and out of it (mount.c:112-207, 261-361):
\* what is allocated is what the code still points to.  There is one exception: the
\* block add_unknown_option has just allocated when sprintf fails (mount.c:124-136),
\* one block, after which the file is given up.
BlocksAccounted ==
    heap = Held(unknown_opts) + (IF pc \in {"options", "leaked"} THEN 1 ELSE 0)

\* When init gives up unmounting, every mount it left could not have been unmounted
\* at all: with a complete list, no mount outside mount_table that is still there is
\* free, in whatever order mountinfo listed them and however they are stacked; and
\* the system filesystems were not touched (mount.c:374-501).
NothingLeftMounted ==
    pc = "unmounted" =>
        /\ complete => \A i \in UserMounts : ~Unmountable(i)
        /\ \A i \in DOMAIN mount_table : mount_table[i].fatal => Mounted(mount_table[i].target)

\* Unmounting ends: every pass but the last makes the list shorter (mount.c:470-496).
UmountingEnds == (pc = "umount") ~> (pc = "unmounted")

\* The measure by which it ends: a step of the loops takes an entry off the list; or,
\* with the same list, begins a pass by forgetting that the last one changed something;
\* or, with both the same, goes on to the next entry (mount.c:470-496).
PassesShrink ==
    [][pc = "umount" /\ pc' = "umount" =>
          \/ Len(mp_list') < Len(mp_list)
          \/ mp_list' = mp_list /\ changed /\ ~changed'
          \/ /\ mp_list' = mp_list /\ changed' = changed
             /\ mp < mp' /\ mp' <= Len(mp_list) + 1]_vars

=============================================================================
