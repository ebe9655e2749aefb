----------------------------- MODULE MountProofs -----------------------------
(***************************************************************************)
(* The strings of the fstab loop, the passes of the unmounting, and what   *)
(* the entries of the fstab are mounted as, for every fstab, mount table   *)
(* and tree of mounts: proofs about Mount.                                 *)
(***************************************************************************)
EXTENDS Mount, SequenceTheorems, FiniteSetTheorems, TLAPS

\* The steps expand large actions: the SMT solver is given up to a minute for each.
USE SMTT(60)

FstabRow == [dir : Paths, opts : Seq(STRING)]

-----------------------------------------------------------------------------
(* Every block is accounted for *)

\* Outside of an entry's options there is no text of unknown ones.
HeapInv ==
    /\ heap \in Int /\ unknown_opts \in Seq(STRING) /\ fstab \in Seq(FstabRow)
    /\ at \in Nat \ {0} /\ next_opt \in Nat \ {0}
    /\ pc \in {"options", "mount"} => at <= Len(fstab)
    /\ pc \notin {"options", "mount"} => unknown_opts = <<>>
    /\ BlocksAccounted

\* An option of the entry whose options are being read.
LEMMA OptionType ==
  ASSUME HeapInv, OptionLeft
  PROVE  Entry.opts[next_opt] \in STRING
<1>1. at \in 1 .. Len(fstab) /\ fstab \in Seq(FstabRow)
  BY DEF HeapInv, OptionLeft
<1>2. Entry \in FstabRow
  BY <1>1, ElementOfSeq DEF Entry
<1>3. Entry.opts \in Seq(STRING) /\ next_opt \in 1 .. Len(Entry.opts)
  BY <1>2 DEF FstabRow, HeapInv, OptionLeft
<1>4. QED
  BY <1>3, ElementOfSeq

\* Every step accounts for the strings it allocates and frees.
LEMMA HeapStep == HeapInv /\ [Next]_vars => HeapInv'
<1> SUFFICES ASSUME HeapInv, [Next]_vars PROVE HeapInv'
  OBVIOUS
<1>1. CASE /\ UNCHANGED <<heap, unknown_opts, fstab, at, next_opt>>
           /\ pc' = pc \/ {pc, pc'} \cap {"options", "mount", "leaked"} = {}
  BY Zenon, <1>1 DEF HeapInv, BlocksAccounted, Held
<1>2. CASE SystemMounted \/ SystemSkipped \/ SystemFails \/ SystemDone
  BY <1>1, <1>2 DEF SystemMounted, SystemSkipped, SystemFails, SystemDone, parsing
<1>3. CASE FstabDone \/ OtherMounts
  BY <1>1, <1>3 DEF FstabDone, OtherMounts, parsing
<1>4. CASE UmountOk \/ UmountFails \/ NextPass \/ GiveUp
  BY <1>1, <1>4 DEF UmountOk, UmountFails, NextPass, GiveUp, parsing
<1>5. CASE Ended \/ UNCHANGED vars
  BY <1>1, <1>5 DEF Ended, vars, parsing
<1>6. CASE NoFstab \/ get_mountpoints
  <2>1. pc \notin {"options", "mount", "leaked"} /\ pc' \notin {"options", "mount", "leaked"}
        /\ UNCHANGED <<heap, unknown_opts, next_opt>> /\ fstab' = <<>> /\ at' \in {at, 1}
    BY <1>6 DEF NoFstab, get_mountpoints, parsing
  <2>2. fstab' \in Seq(FstabRow)
    BY <2>1, EmptySeq
  <2>3. QED
    BY <2>1, <2>2 DEF HeapInv, BlocksAccounted, Held
<1>7. CASE SkipNoauto
  BY <1>7 DEF SkipNoauto, HeapInv, BlocksAccounted, Held, parsing
<1>8. CASE ParseOptions \/ ParseRefused
  <2>1. unknown_opts = <<>> /\ unknown_opts' = <<>> /\ heap = 0
    BY <1>8 DEF ParseOptions, ParseRefused, HeapInv, BlocksAccounted, Held
  <2>2. QED
    BY <1>8, <2>1 DEF ParseOptions, ParseRefused, HeapInv, BlocksAccounted, Held
<1>9. CASE KnownOption \/ BlankOption
  BY <1>9 DEF KnownOption, BlankOption, OptionLeft, HeapInv, BlocksAccounted, Held
<1>10. CASE UnknownOption
  <2>1. /\ pc = "options" /\ UNCHANGED <<pc, fstab, at>> /\ next_opt' = next_opt + 1
        /\ unknown_opts' = Append(unknown_opts, Entry.opts[next_opt])
        /\ heap' = heap + 1 - Held(unknown_opts)
    BY <1>10 DEF UnknownOption, add_unknown_option, OptionLeft
  <2>2. unknown_opts' \in Seq(STRING) /\ unknown_opts' # <<>>
    BY <1>10, <2>1, OptionType, AppendProperties DEF UnknownOption, HeapInv
  <2>3. QED
    BY <2>1, <2>2 DEF HeapInv, BlocksAccounted, Held
<1>11. CASE OptionsFail
  BY <1>11 DEF OptionsFail, OptionLeft, HeapInv, BlocksAccounted, Held
<1>12. CASE OptionsDone
  BY <1>12 DEF OptionsDone, HeapInv, BlocksAccounted, Held
<1>13. CASE FstabMounted \/ FstabNofail \/ FstabFails
  <2>1. /\ pc = "mount" /\ heap' = heap - Held(unknown_opts) /\ unknown_opts' = <<>>
        /\ pc' \in {"fstab", "failed"} /\ at' \in {at, at + 1} /\ UNCHANGED <<fstab, next_opt>>
    BY <1>13 DEF FstabMounted, FstabNofail, FstabFails, NextEntry
  <2>2. heap = Held(unknown_opts) /\ heap' = 0
    BY <2>1 DEF HeapInv, BlocksAccounted, Held
  <2>3. QED
    BY <2>1, <2>2, EmptySeq DEF HeapInv, BlocksAccounted, Held
<1>14. CASE SprintfFails
  <2>1. /\ pc = "options" /\ pc' = "leaked" /\ UNCHANGED <<fstab, at, next_opt>>
        /\ heap' = heap + 1 - 1 - Held(unknown_opts) /\ unknown_opts' = <<>>
    BY <1>14 DEF SprintfFails, OptionLeft
  <2>2. heap = Held(unknown_opts) + 1 /\ Held(unknown_opts) \in Int
    BY <2>1 DEF HeapInv, BlocksAccounted, Held
  <2>3. heap' = 1 /\ Held(unknown_opts)' = 0
    BY <2>1, <2>2 DEF Held
  <2>4. QED
    BY <2>1, <2>3, EmptySeq DEF HeapInv, BlocksAccounted
<1>15. QED
  BY <1>2, <1>3, <1>4, <1>5, <1>6, <1>7, <1>8, <1>9, <1>10, <1>11, <1>12, <1>13, <1>14
  DEF Next, Mounting, Umounting

\* Nothing is allocated at the beginning.
LEMMA HeapInit ==
  ASSUME Init
  PROVE  HeapInv
<1>1. /\ fstab \in Fstabs /\ at = 1 /\ next_opt = 1 /\ heap = 0
      /\ unknown_opts = <<>> /\ pc = "system"
  BY DEF Init
<1>2. fstab \in Seq(FstabRow)
  BY Zenon, <1>1, MountAssumption DEF FstabRow
<1>3. QED
  BY <1>1, <1>2, EmptySeq DEF HeapInv, BlocksAccounted, Held

\* Every string of the fstab loop is freed exactly once, whatever the fstab holds and
\* whichever calls fail, but for the one block that is lost when sprintf fails, after
\* which nothing more is read (mount.c:112-207, 261-361).
THEOREM BlocksCorrect == Spec => []BlocksAccounted
<1>1. Init => HeapInv
  BY HeapInit
<1>2. QED
  BY <1>1, HeapStep, PTL DEF Spec, HeapInv

-----------------------------------------------------------------------------
(* Nothing is left mounted that could be unmounted *)

MountRec == [path : Paths, busy : BOOLEAN]
Users(ms) == {i \in DOMAIN ms : ms[i].path \notin Targets}

\* Every mount outside the table has an entry of its own in the list.
Listed(list, ms) ==
    \E f \in [Users(ms) -> DOMAIN list] :
        /\ \A i, j \in Users(ms) : f[i] = f[j] => i = j
        /\ \A i \in Users(ms) : list[f[i]] = ms[i].path

\* A sequence without its k-th element.
LEMMA Removed ==
  ASSUME NEW S, NEW s \in Seq(S), NEW k \in 1 .. Len(s)
  PROVE  /\ RemoveAt(s, k) \in Seq(S) /\ Len(RemoveAt(s, k)) = Len(s) - 1
         /\ \A j \in 1 .. Len(s) - 1 :
              RemoveAt(s, k)[j] = IF j < k THEN s[j] ELSE s[j + 1]
<1> DEFINE a == SubSeq(s, 1, k - 1)
<1> DEFINE b == SubSeq(s, k + 1, Len(s))
<1>1. Len(s) \in Nat /\ \A j \in 1 .. Len(s) : s[j] \in S
  BY LenProperties, ElementOfSeq
<1>2. a \in Seq(S) /\ Len(a) = k - 1 /\ \A j \in 1 .. k - 1 : a[j] = s[j]
  <2>1. \A j \in 1 .. k - 1 : s[j] \in S
    BY <1>1
  <2>2. QED
    BY <1>1, <2>1, SubSeqProperties
<1>3. b \in Seq(S) /\ Len(b) = Len(s) - k /\ \A j \in 1 .. Len(s) - k : b[j] = s[k + j]
  <2>1. \A j \in k + 1 .. Len(s) : s[j] \in S
    BY <1>1
  <2>2. QED
    BY <1>1, <2>1, SubSeqProperties
<1>4. RemoveAt(s, k) = a \o b
  BY DEF RemoveAt
<1> HIDE DEF a, b
<1>5. /\ a \o b \in Seq(S) /\ Len(a \o b) = Len(s) - 1
      /\ \A j \in 1 .. Len(s) - 1 : (a \o b)[j] = IF j <= k - 1 THEN a[j] ELSE b[j - (k - 1)]
  <2>1. /\ a \o b \in Seq(S) /\ Len(a \o b) = Len(a) + Len(b)
        /\ \A j \in 1 .. Len(a) + Len(b) :
             (a \o b)[j] = IF j <= Len(a) THEN a[j] ELSE b[j - Len(a)]
    BY Zenon, <1>2, <1>3, ConcatProperties
  <2>2. Len(a) + Len(b) = Len(s) - 1
    BY <1>1, <1>2, <1>3
  <2>3. \A j \in 1 .. Len(s) - 1 :
          (a \o b)[j] = IF j <= Len(a) THEN a[j] ELSE b[j - Len(a)]
    BY Zenon, <2>1, <2>2
  <2>4. Len(a) = k - 1
    BY Zenon, <1>2
  <2>5. QED
    BY Zenon, <2>1, <2>2, <2>3, <2>4
<1>6. ASSUME NEW j \in 1 .. Len(s) - 1
      PROVE  (a \o b)[j] = IF j < k THEN s[j] ELSE s[j + 1]
  <2>1. CASE j < k
    BY <1>1, <1>2, <1>5, <2>1
  <2>2. CASE ~(j < k)
    <3>1. j - (k - 1) \in 1 .. Len(s) - k /\ k + (j - (k - 1)) = j + 1
      BY <1>1, <2>2
    <3>2. QED
      <4>1. (a \o b)[j] = b[j - (k - 1)]
        BY <1>1, <1>5, <2>2
      <4>2. b[j - (k - 1)] = s[k + (j - (k - 1))]
        BY <1>3, <3>1
      <4>3. QED
        BY <2>2, <3>1, <4>1, <4>2
  <2>3. QED
    BY Zenon, <2>1, <2>2
<1>7. QED
  BY <1>4, <1>5, <1>6

\* The mount that goes and the entry that goes are on one path: the others can still
\* be told apart.
LEMMA StillListed ==
  ASSUME NEW list \in Seq(Paths), NEW ms \in Seq(MountRec), Listed(list, ms),
         NEW k \in 1 .. Len(list), NEW i \in 1 .. Len(ms),
         list[k] = ms[i].path, list[k] \notin Targets
  PROVE  Listed(RemoveAt(list, k), RemoveAt(ms, i))
<1> DEFINE list2 == RemoveAt(list, k)
<1> DEFINE ms2 == RemoveAt(ms, i)
<1>1. /\ Len(list) \in Nat /\ DOMAIN list = 1 .. Len(list)
      /\ Len(ms) \in Nat /\ DOMAIN ms = 1 .. Len(ms)
  BY LenProperties
<1>2. /\ DOMAIN list2 = 1 .. Len(list) - 1
      /\ \A j \in 1 .. Len(list) - 1 : list2[j] = IF j < k THEN list[j] ELSE list[j + 1]
  <2>1. /\ list2 \in Seq(Paths) /\ Len(list2) = Len(list) - 1
        /\ \A j \in 1 .. Len(list) - 1 : list2[j] = IF j < k THEN list[j] ELSE list[j + 1]
    BY Zenon, Removed
  <2>2. DOMAIN list2 = 1 .. Len(list2)
    BY <2>1, LenProperties
  <2>3. QED
    BY <2>1, <2>2
<1>3. /\ DOMAIN ms2 = 1 .. Len(ms) - 1
      /\ \A j \in 1 .. Len(ms) - 1 : ms2[j] = IF j < i THEN ms[j] ELSE ms[j + 1]
  <2>1. /\ ms2 \in Seq(MountRec) /\ Len(ms2) = Len(ms) - 1
        /\ \A j \in 1 .. Len(ms) - 1 : ms2[j] = IF j < i THEN ms[j] ELSE ms[j + 1]
    BY Removed
  <2>2. DOMAIN ms2 = 1 .. Len(ms2)
    BY <2>1, LenProperties
  <2>3. QED
    BY <2>1, <2>2
<1> HIDE DEF list2, ms2
<1>4. PICK f \in [Users(ms) -> DOMAIN list] :
        /\ \A a, b \in Users(ms) : f[a] = f[b] => a = b
        /\ \A a \in Users(ms) : list[f[a]] = ms[a].path
  BY DEF Listed
<1> DEFINE old(j) == IF j < i THEN j ELSE j + 1
<1> DEFINE own(a) == IF f[a] = k THEN f[i] ELSE f[a]
<1> DEFINE new(x) == IF x < k THEN x ELSE x - 1
<1>5. i \in Users(ms)
  BY <1>1 DEF Users
<1>6. ASSUME NEW j \in Users(ms2)
      PROVE  /\ j \in 1 .. Len(ms) - 1 /\ old(j) \in Users(ms) /\ old(j) # i
             /\ ms2[j] = ms[old(j)]
  <2>1. j \in 1 .. Len(ms) - 1 /\ ms2[j].path \notin Targets
    BY <1>3 DEF Users
  <2>2. old(j) \in 1 .. Len(ms) /\ old(j) # i
    BY <1>1, <2>1
  <2>3. ms2[j] = ms[old(j)]
    BY <1>3, <2>1
  <2>4. QED
    BY <1>1, <2>1, <2>2, <2>3 DEF Users
<1>7. ASSUME NEW a \in Users(ms), a # i
      PROVE  own(a) \in 1 .. Len(list) /\ own(a) # k /\ list[own(a)] = ms[a].path
  BY <1>1, <1>4, <1>5, <1>7
<1>8. ASSUME NEW a \in Users(ms), a # i, NEW b \in Users(ms), b # i, own(a) = own(b)
      PROVE  a = b
  BY Zenon, <1>4, <1>5, <1>8
<1>9. ASSUME NEW x \in 1 .. Len(list), x # k
      PROVE  new(x) \in 1 .. Len(list) - 1 /\ list2[new(x)] = list[x]
  <2>1. CASE x < k
    BY <1>1, <1>2, <2>1
  <2>2. CASE x > k
    <3>1. x - 1 \in 1 .. Len(list) - 1 /\ ~(x - 1 < k) /\ x - 1 + 1 = x /\ ~(x < k)
      BY <1>1, <2>2
    <3>2. QED
      BY <1>2, <3>1
  <2>3. QED
    BY <1>1, <1>9, <2>1, <2>2
<1>10. ASSUME NEW x \in 1 .. Len(list), x # k, NEW y \in 1 .. Len(list), y # k, new(x) = new(y)
       PROVE  x = y
  BY <1>1, <1>10
<1>11. ASSUME NEW j \in Users(ms2), NEW l \in Users(ms2), old(j) = old(l)
       PROVE  j = l
  BY <1>1, <1>6, <1>11
<1> DEFINE g == [j \in Users(ms2) |-> new(own(old(j)))]
<1> HIDE DEF old, own, new
<1>12. g \in [Users(ms2) -> DOMAIN list2]
  BY <1>2, <1>6, <1>7, <1>9
<1>13. ASSUME NEW j \in Users(ms2), NEW l \in Users(ms2), g[j] = g[l] PROVE j = l
  <2>1. /\ old(j) \in Users(ms) /\ old(j) # i /\ old(l) \in Users(ms) /\ old(l) # i
    BY <1>6
  <2>2. /\ own(old(j)) \in 1 .. Len(list) /\ own(old(j)) # k
        /\ own(old(l)) \in 1 .. Len(list) /\ own(old(l)) # k
    BY <1>7, <2>1
  <2>3. own(old(j)) = own(old(l))
    BY <1>10, <1>13, <2>2
  <2>4. QED
    BY <1>8, <1>11, <2>1, <2>3
<1>14. ASSUME NEW j \in Users(ms2) PROVE list2[g[j]] = ms2[j].path
  <2>1. old(j) \in Users(ms) /\ old(j) # i /\ ms2[j] = ms[old(j)]
    BY <1>6
  <2>2. own(old(j)) \in 1 .. Len(list) /\ own(old(j)) # k /\ list[own(old(j))] = ms[old(j)].path
    BY <1>7, <2>1
  <2>3. QED
    BY <1>9, <2>1, <2>2
<1>15. Listed(list2, ms2)
  BY Zenon, <1>12, <1>13, <1>14 DEF Listed
<1>16. QED
  BY <1>15 DEF list2, ms2

\* A list made of all mounts outside the table lists them.
LEMMA AllListed ==
  ASSUME NEW ms \in Seq(MountRec), NEW order \in SetToSeqs(Users(ms)),
         NEW list \in Seq(Paths), Len(list) = Len(order),
         \A k \in 1 .. Len(order) : list[k] = ms[order[Len(order) + 1 - k]].path
  PROVE  Listed(list, ms)
<1>1. Len(ms) \in Nat /\ DOMAIN ms = 1 .. Len(ms)
  BY LenProperties
<1>2. IsFiniteSet(Users(ms))
  <2>1. IsFiniteSet(1 .. Len(ms)) /\ Users(ms) \in SUBSET (1 .. Len(ms))
    BY <1>1, FS_Interval DEF Users
  <2>2. QED
    BY <2>1, FS_Subset
<1> DEFINE n == Cardinality(Users(ms))
<1>3. n \in Nat
  BY <1>2, FS_CardinalityType
<1>4. order \in [1 .. n -> Users(ms)] /\ \A a, b \in 1 .. n : a # b => order[a] # order[b]
  BY DEF SetToSeqs
<1> HIDE DEF n
<1>5. order \in Seq(Users(ms)) /\ Len(order) = n
  BY <1>3, <1>4, SeqDef, LenProperties
<1>6. \A i \in Users(ms) : \E a \in 1 .. n : order[a] = i
  <2>1. order \in Injection(1 .. n, Users(ms))
    BY Zenon, <1>4 DEF Injection, IsInjective
  <2>2. Cardinality(1 .. n) = Cardinality(Users(ms))
    BY <1>3, FS_Interval DEF n
  <2>3. order \in Surjection(1 .. n, Users(ms))
    BY <1>2, <2>1, <2>2, FS_Injection
  <2>4. QED
    BY <2>3 DEF Surjection
<1> DEFINE place(i) == CHOOSE a \in 1 .. n : order[a] = i
<1>7. \A i \in Users(ms) : place(i) \in 1 .. n /\ order[place(i)] = i
  BY <1>6
<1> HIDE DEF place
<1> DEFINE f == [i \in Users(ms) |-> n + 1 - place(i)]
<1>8. \A i \in Users(ms) : f[i] \in 1 .. n /\ n + 1 - f[i] = place(i)
  BY <1>3, <1>7
<1>9. DOMAIN list = 1 .. n
  BY <1>5, LenProperties
<1>10. f \in [Users(ms) -> DOMAIN list]
  BY <1>8, <1>9
<1>11. \A i \in Users(ms) : list[f[i]] = ms[i].path
  <2>1. SUFFICES ASSUME NEW i \in Users(ms) PROVE list[f[i]] = ms[i].path
    OBVIOUS
  <2>2. list[f[i]] = ms[order[n + 1 - f[i]]].path
    BY Zenon, <1>5, <1>8
  <2>3. QED
    BY <1>7, <1>8, <2>2
<1>12. \A i, j \in Users(ms) : f[i] = f[j] => i = j
  <2>1. SUFFICES ASSUME NEW i \in Users(ms), NEW j \in Users(ms), f[i] = f[j] PROVE i = j
    OBVIOUS
  <2>2. place(i) = place(j)
    BY <1>8, <2>1
  <2>3. QED
    BY <1>7, <2>2
<1> HIDE DEF f
<1>13. QED
  BY <1>10, <1>11, <1>12 DEF Listed

\* The fatal rows of the table up to the n-th are mounted.
SystemThere(n) ==
    \A r \in DOMAIN mount_table : r <= n /\ mount_table[r].fatal => Mounted(mount_table[r].target)

\* A pass that has changed nothing yet has tried every entry before mp in vain.
TriedInVain ==
    \A k \in DOMAIN mp_list : k < mp => \A i \in At(mp_list[k]) : ~Unmountable(i)

UmountInv ==
    /\ mounts \in Seq(MountRec) /\ mp_list \in Seq(Paths) /\ mp \in Nat \ {0}
    /\ table_at \in Nat \ {0}
    /\ pc = "system" => SystemThere(table_at - 1)
    /\ pc \notin {"system", "failed"} => SystemThere(Len(mount_table))
    /\ \A k \in DOMAIN mp_list : mp_list[k] \notin Targets
    /\ pc = "umount" /\ complete => Listed(mp_list, mounts)
    /\ pc = "umount" /\ ~changed => TriedInVain
    /\ NothingLeftMounted

\* The rows of mount_table are numbered from 1 and name mount points.
LEMMA TableType ==
  /\ Len(mount_table) \in Nat /\ DOMAIN mount_table = 1 .. Len(mount_table)
  /\ \A r \in DOMAIN mount_table : mount_table[r].target \in Paths
                                   /\ mount_table[r].target \in Targets
<1>1. mount_table \in Seq([target : Paths, fatal : BOOLEAN])
  BY MountAssumption
<1>2. Len(mount_table) \in Nat /\ DOMAIN mount_table = 1 .. Len(mount_table)
  BY <1>1, LenProperties
<1>3. \A r \in DOMAIN mount_table : mount_table[r] \in [target : Paths, fatal : BOOLEAN]
  BY Zenon, <1>1, <1>2, ElementOfSeq
<1>4. QED
  BY <1>2, <1>3 DEF Targets

\* A new mount hides none of the paths.
LEMMA Attached ==
  ASSUME mounts \in Seq(MountRec), NEW q \in Paths, mounts' = Attach(q)
  PROVE  mounts' \in Seq(MountRec) /\ Mounted(q)' /\ \A p : Mounted(p) => Mounted(p)'
<1> DEFINE rec == [path |-> q, busy |-> FALSE]
<1>1. rec \in MountRec /\ rec.path = q
  BY DEF MountRec
<1>2. mounts' = Append(mounts, rec)
  BY DEF Attach
<1> HIDE DEF rec
<1>3. /\ mounts' \in Seq(MountRec) /\ Len(mounts') = Len(mounts) + 1 /\ Len(mounts) \in Nat
      /\ DOMAIN mounts = 1 .. Len(mounts) /\ DOMAIN mounts' = 1 .. Len(mounts')
  BY <1>1, <1>2, AppendProperties, LenProperties
<1>4. mounts'[Len(mounts) + 1] = rec /\ \A j \in 1 .. Len(mounts) : mounts'[j] = mounts[j]
  BY <1>1, <1>2, AppendProperties
<1>5. Mounted(q)'
  <2>1. Len(mounts) + 1 \in DOMAIN mounts' /\ mounts'[Len(mounts) + 1].path = q
    BY <1>1, <1>3, <1>4
  <2>2. QED
    BY <2>1 DEF Mounted, At
<1>6. ASSUME NEW p, Mounted(p) PROVE Mounted(p)'
  <2>1. PICK j \in DOMAIN mounts : mounts[j].path = p
    BY <1>6 DEF Mounted, At
  <2>2. j \in DOMAIN mounts' /\ mounts'[j].path = p
    BY <1>3, <1>4, <2>1
  <2>3. QED
    BY <2>2 DEF Mounted, At
<1>7. QED
  BY <1>3, <1>5, <1>6

\* Until the unmounting begins mounts are only added.
LEMMA Grows ==
  ASSUME UmountInv, mounts' \in Seq(MountRec), \A p : Mounted(p) => Mounted(p)',
         UNCHANGED <<mp_list, mp, changed, complete, table_at>>,
         pc \notin {"system", "umount"}, pc' \notin {"system", "umount", "unmounted"}, pc # "failed"
  PROVE  UmountInv'
<1>1. SystemThere(Len(mount_table))'
  BY DEF UmountInv, SystemThere
<1>2. QED
  BY <1>1 DEF UmountInv, NothingLeftMounted

\* A path of the table stays mounted when a mount on another path goes.
LEMMA OthersStay ==
  ASSUME mounts \in Seq(MountRec), NEW i \in DOMAIN mounts, mounts' = RemoveAt(mounts, i),
         NEW p, p # mounts[i].path, Mounted(p)
  PROVE  Mounted(p)'
<1>1. Len(mounts) \in Nat /\ DOMAIN mounts = 1 .. Len(mounts)
  BY LenProperties
<1>2. /\ mounts' \in Seq(MountRec) /\ Len(mounts') = Len(mounts) - 1
      /\ \A j \in 1 .. Len(mounts) - 1 : mounts'[j] = IF j < i THEN mounts[j] ELSE mounts[j + 1]
  BY Zenon, <1>1, Removed
<1>3. DOMAIN mounts' = 1 .. Len(mounts) - 1
  BY <1>2, LenProperties
<1>4. PICK j \in DOMAIN mounts : mounts[j].path = p /\ j # i
  BY DEF Mounted, At
<1> DEFINE l == IF j < i THEN j ELSE j - 1
<1>5. l \in 1 .. Len(mounts) - 1 /\ mounts'[l] = mounts[j]
  <2>1. CASE j < i
    BY <1>1, <1>2, <1>4, <2>1
  <2>2. CASE j > i
    <3>1. j - 1 \in 1 .. Len(mounts) - 1 /\ ~(j - 1 < i) /\ j - 1 + 1 = j /\ ~(j < i)
      BY <1>1, <2>2
    <3>2. QED
      BY <1>2, <3>1
  <2>3. QED
    BY <1>1, <1>4, <2>1, <2>2
<1>6. QED
  BY <1>3, <1>4, <1>5 DEF Mounted, At

-----------------------------------------------------------------------------
(* The steps of mount_umount_filesystems *)

\* The list is made: the mounts keep their paths.
LEMMA ListMade ==
  ASSUME UmountInv, get_mountpoints
  PROVE  UmountInv'
<1>1. PICK order \in SetToSeqs(UserMounts), n \in 0 .. Cardinality(UserMounts) :
        /\ complete' = (n = Len(order))
        /\ mp_list' = [k \in 1 .. n |-> mounts[order[n + 1 - k]].path]
  BY Zenon DEF get_mountpoints
<1>2. PICK used \in SUBSET UserMounts :
        mounts' = [i \in DOMAIN mounts |-> [mounts[i] EXCEPT !.busy = @ \/ i \in used]]
  BY Zenon DEF get_mountpoints
<1>3. /\ pc = "run" /\ pc' = "umount" /\ mp' = 1 /\ changed' = FALSE /\ table_at' = table_at
  BY DEF get_mountpoints, system
<1>4. /\ mounts \in Seq(MountRec) /\ Len(mounts) \in Nat /\ DOMAIN mounts = 1 .. Len(mounts)
      /\ \A i \in DOMAIN mounts : mounts[i] \in MountRec
  BY LenProperties, ElementOfSeq DEF UmountInv
<1>5. \A i \in DOMAIN mounts : mounts'[i].path = mounts[i].path /\ mounts'[i] \in MountRec
  <2>1. SUFFICES ASSUME NEW i \in DOMAIN mounts
                 PROVE  mounts'[i].path = mounts[i].path /\ mounts'[i] \in MountRec
    OBVIOUS
  <2>2. mounts'[i] = [mounts[i] EXCEPT !.busy = mounts[i].busy \/ i \in used]
    BY <1>2
  <2>3. (mounts[i].busy \/ i \in used) \in BOOLEAN
    OBVIOUS
  <2>4. mounts[i] \in MountRec
    BY <1>4
  <2>5. QED
    BY Zenon, <2>2, <2>3, <2>4 DEF MountRec
<1>6. /\ mounts' \in [1 .. Len(mounts) -> MountRec] /\ DOMAIN mounts' = DOMAIN mounts
  BY <1>2, <1>4, <1>5
<1>7. mounts' \in Seq(MountRec) /\ Len(mounts') = Len(mounts)
  BY <1>4, <1>6, SeqDef, LenProperties
<1>8. Users(mounts') = Users(mounts) /\ UserMounts = Users(mounts)
  BY <1>5, <1>6 DEF Users, UserMounts
<1>9. SystemThere(Len(mount_table))'
  BY Zenon, <1>3, <1>5, <1>6 DEF UmountInv, SystemThere, Mounted, At
<1>10. IsFiniteSet(UserMounts) /\ Cardinality(UserMounts) \in Nat
  <2>1. IsFiniteSet(1 .. Len(mounts)) /\ UserMounts \in SUBSET (1 .. Len(mounts))
    BY <1>4, FS_Interval DEF UserMounts
  <2>2. QED
    BY Zenon, <2>1, FS_Subset, FS_CardinalityType
<1>11. order \in [1 .. Cardinality(UserMounts) -> UserMounts] /\ n \in Nat
  BY <1>10 DEF SetToSeqs
<1>12. Len(order) = Cardinality(UserMounts)
  <2>1. order \in Seq(UserMounts)
    BY <1>10, <1>11, SeqDef
  <2>2. QED
    BY <1>10, <1>11, <2>1, LenProperties
<1>13. \A k \in 1 .. n : /\ n + 1 - k \in 1 .. n /\ order[n + 1 - k] \in UserMounts
                        /\ mounts[order[n + 1 - k]].path \in Paths \ Targets
  <2>1. SUFFICES ASSUME NEW k \in 1 .. n
                 PROVE  /\ n + 1 - k \in 1 .. n /\ order[n + 1 - k] \in UserMounts
                        /\ mounts[order[n + 1 - k]].path \in Paths \ Targets
    BY Zenon
  <2>2. n + 1 - k \in 1 .. n /\ n + 1 - k \in 1 .. Cardinality(UserMounts)
    BY <1>10, <1>11
  <2>3. order[n + 1 - k] \in UserMounts
    BY <1>11, <2>2
  <2>4. QED
    BY Zenon, <1>4, <2>2, <2>3 DEF UserMounts, MountRec
<1>14. mp_list' \in [1 .. n -> Paths \ Targets]
  BY Zenon, <1>1, <1>13
<1>15. mp_list' \in Seq(Paths) /\ DOMAIN mp_list' = 1 .. n /\ Len(mp_list') = n
       /\ \A k \in DOMAIN mp_list' : mp_list'[k] \notin Targets
  <2>1. mp_list' \in [1 .. n -> Paths] /\ \A k \in 1 .. n : mp_list'[k] \notin Targets
    BY <1>14
  <2>2. mp_list' \in Seq(Paths)
    BY <1>11, <2>1, SeqDef
  <2>3. QED
    BY <1>11, <2>1, <2>2, LenProperties
<1>16. ASSUME complete' PROVE Listed(mp_list', mounts')
  <2>1. n = Len(order)
    BY Zenon, <1>1, <1>16
  <2>2. order \in SetToSeqs(Users(mounts'))
    BY <1>8
  <2>3. \A k \in 1 .. Len(order) : mp_list'[k] = mounts'[order[Len(order) + 1 - k]].path
    <3>1. SUFFICES ASSUME NEW k \in 1 .. n
                   PROVE  mp_list'[k] = mounts'[order[n + 1 - k]].path
      BY Zenon, <2>1
    <3>2. order[n + 1 - k] \in DOMAIN mounts
      <4>1. order[n + 1 - k] \in UserMounts
        BY Zenon, <1>13, <3>1
      <4>2. QED
        BY Zenon, <4>1 DEF UserMounts
    <3>3. QED
      BY <1>1, <1>5, <3>1, <3>2
  <2>4. QED
    BY ZenonT(60), <1>7, <1>15, <2>1, <2>2, <2>3, AllListed
<1>17. TriedInVain'
  <2>1. \A k \in DOMAIN mp_list' : ~(k < mp')
    BY <1>3, <1>11, <1>15
  <2>2. QED
    BY <2>1 DEF TriedInVain
<1>18. QED
  BY <1>3, <1>7, <1>9, <1>15, <1>16, <1>17 DEF UmountInv, NothingLeftMounted

\* A mount is unmounted, and its entry taken out of the list.
LEMMA Unmounts ==
  ASSUME UmountInv, UmountOk
  PROVE  UmountInv'
<1>1. PICK i \in At(mp_list[mp]) : Unmountable(i) /\ mounts' = RemoveAt(mounts, i)
  BY DEF UmountOk
<1>2. /\ pc = "umount" /\ pc' = "umount" /\ mp <= Len(mp_list) /\ mp' = mp /\ changed' = TRUE
      /\ mp_list' = RemoveAt(mp_list, mp) /\ complete' = complete /\ table_at' = table_at
  BY DEF UmountOk, system
<1>3. /\ mounts \in Seq(MountRec) /\ mp_list \in Seq(Paths) /\ mp \in Nat \ {0}
      /\ \A k \in DOMAIN mp_list : mp_list[k] \notin Targets
  BY DEF UmountInv
<1>4. /\ Len(mounts) \in Nat /\ DOMAIN mounts = 1 .. Len(mounts)
      /\ Len(mp_list) \in Nat /\ DOMAIN mp_list = 1 .. Len(mp_list)
  BY <1>3, LenProperties
<1>5. /\ mp \in 1 .. Len(mp_list) /\ i \in 1 .. Len(mounts)
      /\ mp_list[mp] = mounts[i].path /\ mp_list[mp] \notin Targets
  BY <1>1, <1>2, <1>3, <1>4 DEF At
<1>6. mounts' \in Seq(MountRec)
  BY Zenon, <1>1, <1>3, <1>5, Removed
<1>7. /\ mp_list' \in Seq(Paths) /\ Len(mp_list') = Len(mp_list) - 1
      /\ \A j \in 1 .. Len(mp_list) - 1 :
            mp_list'[j] = IF j < mp THEN mp_list[j] ELSE mp_list[j + 1]
  BY Zenon, <1>2, <1>3, <1>5, Removed
<1>8. \A k \in DOMAIN mp_list' : mp_list'[k] \notin Targets
  <2>1. SUFFICES ASSUME NEW k \in DOMAIN mp_list' PROVE mp_list'[k] \notin Targets
    OBVIOUS
  <2>2. k \in 1 .. Len(mp_list) - 1
    BY <1>7, LenProperties
  <2>3. k \in DOMAIN mp_list /\ k + 1 \in DOMAIN mp_list
    BY <1>4, <2>2
  <2>4. QED
    BY <1>3, <1>7, <2>2, <2>3
<1>9. ASSUME complete PROVE Listed(mp_list', mounts')
  <2>1. Listed(mp_list, mounts)
    BY <1>2, <1>9 DEF UmountInv
  <2>2. QED
    BY <1>1, <1>2, <1>3, <1>5, <2>1, StillListed
<1>10. SystemThere(Len(mount_table))'
  <2>1. SUFFICES ASSUME NEW r \in DOMAIN mount_table, r <= Len(mount_table), mount_table[r].fatal
                 PROVE  Mounted(mount_table[r].target)'
    BY DEF SystemThere
  <2>2. Mounted(mount_table[r].target)
    BY <1>2, <2>1 DEF UmountInv, SystemThere
  <2>3. mount_table[r].target # mounts[i].path
    BY <1>5, TableType
  <2>4. QED
    BY <1>1, <1>3, <1>4, <1>5, <2>2, <2>3, OthersStay
<1>11. QED
  BY Zenon, <1>2, <1>3, <1>6, <1>7, <1>8, <1>9, <1>10 DEF UmountInv, NothingLeftMounted

\* An entry cannot be unmounted, or a pass ends.
LEMMA PassStep ==
  ASSUME UmountInv, UmountFails \/ NextPass \/ GiveUp
  PROVE  UmountInv'
<1>1. /\ mounts \in Seq(MountRec) /\ mp_list \in Seq(Paths) /\ mp \in Nat \ {0}
      /\ Len(mp_list) \in Nat /\ DOMAIN mp_list = 1 .. Len(mp_list)
  BY LenProperties DEF UmountInv
<1>2. UNCHANGED <<mounts, table_at, complete>> /\ pc = "umount"
  BY DEF UmountFails, NextPass, GiveUp, system
<1>3. SystemThere(Len(mount_table)) /\ SystemThere(Len(mount_table))'
  BY <1>2 DEF UmountInv, SystemThere, Mounted, At
<1>4. CASE UmountFails
  <2>1. /\ \A j \in At(mp_list[mp]) : ~Unmountable(j)
        /\ mp' = mp + 1 /\ pc' = pc /\ UNCHANGED <<mp_list, changed>>
    BY <1>4 DEF UmountFails
  <2>2. ASSUME ~changed PROVE TriedInVain'
    <3>1. SUFFICES ASSUME NEW k \in DOMAIN mp_list, k < mp + 1
                   PROVE  \A j \in At(mp_list[k]) : ~Unmountable(j)
      BY Zenon, <1>2, <2>1 DEF TriedInVain, At, Unmountable
    <3>2. k < mp \/ k = mp
      BY <1>1, <3>1
    <3>3. QED
      BY <1>2, <2>1, <2>2, <3>1, <3>2 DEF UmountInv, TriedInVain
  <2>3. QED
    BY <1>1, <1>2, <1>3, <2>1, <2>2 DEF UmountInv, NothingLeftMounted
<1>5. CASE NextPass
  <2>1. mp' = 1 /\ pc' = pc /\ UNCHANGED mp_list
    BY <1>5 DEF NextPass
  <2>2. TriedInVain'
    <3>1. \A k \in DOMAIN mp_list : ~(k < 1)
      BY <1>1
    <3>2. QED
      BY <2>1, <3>1 DEF TriedInVain
  <2>3. QED
    BY <1>1, <1>2, <1>3, <2>1, <2>2 DEF UmountInv, NothingLeftMounted
<1>6. CASE GiveUp
  <2>1. mp > Len(mp_list) /\ ~changed /\ mp_list' = <<>> /\ pc' = "unmounted" /\ UNCHANGED mp
    BY <1>6 DEF GiveUp
  <2>2. \A k \in DOMAIN mp_list : \A j \in At(mp_list[k]) : ~Unmountable(j)
    <3>1. \A k \in DOMAIN mp_list : k < mp
      BY <1>1, <2>1
    <3>2. QED
      BY <1>2, <2>1, <3>1 DEF UmountInv, TriedInVain
  <2>3. ASSUME complete, NEW j \in UserMounts PROVE ~Unmountable(j)
    <3>1. PICK f \in [Users(mounts) -> DOMAIN mp_list] :
            \A a \in Users(mounts) : mp_list[f[a]] = mounts[a].path
      BY Zenon, <1>2, <2>3 DEF UmountInv, Listed
    <3>2. j \in Users(mounts) /\ j \in DOMAIN mounts
      BY DEF Users, UserMounts
    <3>3. f[j] \in DOMAIN mp_list /\ j \in At(mp_list[f[j]])
      BY <3>1, <3>2 DEF At
    <3>4. QED
      BY <2>2, <3>3
  <2>4. complete => \A j \in UserMounts : ~Unmountable(j)
    BY <2>3
  <2>5. NothingLeftMounted'
    <3>1. \A r \in DOMAIN mount_table : mount_table[r].fatal => Mounted(mount_table[r].target)'
      BY <1>3, TableType DEF SystemThere
    <3>2. complete' => \A j \in UserMounts' : ~Unmountable(j)'
      BY <1>2, <2>4 DEF UserMounts, Unmountable
    <3>3. QED
      BY <3>1, <3>2 DEF NothingLeftMounted
  <2>6. mp_list' \in Seq(Paths) /\ DOMAIN mp_list' = {}
    BY <2>1, EmptySeq
  <2>7. QED
    BY Zenon, <1>1, <1>2, <1>3, <2>1, <2>5, <2>6 DEF UmountInv
<1>7. QED
  BY <1>4, <1>5, <1>6

\* A system filesystem is mounted or passed over.
LEMMA SystemStep ==
  ASSUME UmountInv, SystemMounted \/ SystemSkipped
  PROVE  UmountInv'
<1>1. /\ pc = "system" /\ pc' = "system" /\ table_at <= Len(mount_table)
      /\ table_at' = table_at + 1 /\ UNCHANGED <<mp_list, mp, changed, complete>>
  BY DEF SystemMounted, SystemSkipped, umounting
<1>2. PICK t \in DOMAIN mount_table : t = table_at /\ t \in Nat \ {0}
  BY <1>1, TableType DEF UmountInv
<1>3. PICK q \in Paths : q = mount_table[t].target /\ q = Row.target
  BY <1>2, TableType DEF Row
<1>4. /\ mounts' \in Seq(MountRec) /\ \A p : Mounted(p) => Mounted(p)'
      /\ mount_table[t].fatal => Mounted(q)'
  <2>1. CASE SystemMounted
    <3>1. mounts' = Attach(q) /\ mounts \in Seq(MountRec)
      BY Zenon, <1>3, <2>1 DEF SystemMounted, UmountInv
    <3>2. QED
      BY <3>1, Attached
  <2>2. CASE SystemSkipped
    <3>1. mounts' = mounts /\ (mount_table[t].fatal => Mounted(q))
      BY <1>2, <1>3, <2>2 DEF SystemSkipped, Row
    <3>2. QED
      BY <3>1 DEF UmountInv, Mounted, At
  <2>3. QED
    BY <2>1, <2>2
<1>5. SystemThere(table_at - 1)'
  <2>1. SUFFICES ASSUME NEW r \in DOMAIN mount_table, r <= table_at' - 1, mount_table[r].fatal,
                        NEW p, p = mount_table[r].target
                 PROVE  Mounted(p)'
    BY DEF SystemThere
  <2>2. r = t \/ r <= table_at - 1
    BY <1>1, <1>2, <2>1, TableType
  <2>3. r <= table_at - 1 => Mounted(p)
    BY <1>1, <2>1 DEF UmountInv, SystemThere
  <2>4. QED
    BY Zenon, <1>3, <1>4, <2>1, <2>2, <2>3
<1>6. table_at' \in Nat \ {0}
  BY <1>1, <1>2
<1>7. QED
  BY <1>1, <1>4, <1>5, <1>6 DEF UmountInv, NothingLeftMounted

\* The steps that leave the mounts and the list alone.
LEMMA QuietStep ==
  ASSUME UmountInv, UNCHANGED <<mounts, table_at, mp_list, mp, changed, complete>>,
         pc = "system" => pc' = "failed" \/ SystemThere(Len(mount_table)),
         pc # pc' => pc \notin {"umount", "unmounted", "failed"}
                     /\ pc' \notin {"system", "umount", "unmounted"}
  PROVE  UmountInv'
<1>1. \A n : SystemThere(n) => SystemThere(n)'
  BY DEF SystemThere, Mounted, At
<1>2. pc = pc' => (TriedInVain => TriedInVain') /\ (NothingLeftMounted => NothingLeftMounted')
  <2>1. TriedInVain => TriedInVain'
    BY Zenon DEF TriedInVain, At, Mounted, Unmountable, UserMounts
  <2>2. pc = pc' => (NothingLeftMounted => NothingLeftMounted')
    BY Zenon DEF NothingLeftMounted, At, Mounted, Unmountable, UserMounts
  <2>3. QED
    BY Zenon, <2>1, <2>2
<1>3. CASE pc = pc'
  <2>1. pc = "system" => SystemThere(table_at - 1)'
    <3>1. pc = "system" => SystemThere(table_at - 1)
      BY DEF UmountInv
    <3>2. QED
      BY Zenon, <3>1 DEF SystemThere, Mounted, At
  <2>2. pc \notin {"system", "failed"} => SystemThere(Len(mount_table))'
    BY <1>1 DEF UmountInv
  <2>3. QED
    BY <1>2, <1>3, <2>1, <2>2 DEF UmountInv
<1>4. CASE pc # pc'
  <2>1. pc' # "failed" => SystemThere(Len(mount_table))'
    BY <1>1, <1>4 DEF UmountInv
  <2>2. QED
    BY Zenon, <1>4, <2>1 DEF UmountInv, NothingLeftMounted
<1>5. QED
  BY <1>3, <1>4

\* A filesystem of the fstab, or one of somebody else, is mounted.
LEMMA MountStep ==
  ASSUME HeapInv, UmountInv, FstabMounted \/ OtherMounts
  PROVE  UmountInv'
<1>1. /\ pc \in {"mount", "run"} /\ pc' \in {"fstab", "run"}
      /\ UNCHANGED <<mp_list, mp, changed, complete, table_at>>
  BY Zenon DEF FstabMounted, OtherMounts, NextEntry, system, umounting
<1>2. mounts' = mounts \/ \E q \in Paths : mounts' = Attach(q)
  <2>1. CASE FstabMounted
    <3>1. Entry.dir \in Paths
      <4>1. at \in Nat \ {0} /\ at <= Len(fstab) /\ fstab \in Seq(FstabRow)
        BY <2>1 DEF FstabMounted, HeapInv
      <4>2. Entry \in FstabRow
        BY <4>1, ElementOfSeq DEF Entry
      <4>3. QED
        BY <4>2 DEF FstabRow
    <3>2. QED
      BY Zenon, <2>1, <3>1 DEF FstabMounted
  <2>2. CASE OtherMounts
    BY <2>2 DEF OtherMounts
  <2>3. QED
    BY <2>1, <2>2
<1>3. mounts' \in Seq(MountRec) /\ \A p : Mounted(p) => Mounted(p)'
  <2>1. CASE mounts' = mounts
    BY <2>1 DEF UmountInv, Mounted, At
  <2>2. CASE \E q \in Paths : mounts' = Attach(q)
    BY <2>2, Attached DEF UmountInv
  <2>3. QED
    BY <1>2, <2>1, <2>2
<1>4. QED
  BY <1>1, <1>3, Grows

\* Every step keeps the invariant about the unmounting.
LEMMA UmountStep ==
  ASSUME HeapInv, UmountInv, [Next]_vars
  PROVE  UmountInv'
<1>1. CASE SystemMounted \/ SystemSkipped
  BY <1>1, SystemStep
<1>2. CASE FstabMounted \/ OtherMounts
  BY <1>2, MountStep
<1>3. CASE get_mountpoints
  BY <1>3, ListMade
<1>4. CASE UmountOk
  BY <1>4, Unmounts
<1>5. CASE UmountFails \/ NextPass \/ GiveUp
  BY <1>5, PassStep
<1>6. CASE SystemDone
  <2>1. SystemThere(Len(mount_table))
    <3>1. Len(mount_table) <= table_at - 1 /\ SystemThere(table_at - 1) /\ table_at \in Nat
      BY <1>6, TableType DEF SystemDone, UmountInv
    <3>2. \A r \in DOMAIN mount_table : r <= table_at - 1
      BY <3>1, TableType
    <3>3. QED
      BY <3>1, <3>2 DEF SystemThere
  <2>2. QED
    BY <1>6, <2>1, QuietStep DEF SystemDone, system, umounting
<1>7. CASE SystemFails \/ NoFstab \/ SkipNoauto \/ FstabFails \/ FstabNofail \/ FstabDone
  <2>1. UNCHANGED <<mounts, table_at, mp_list, mp, changed, complete>>
    BY Zenon, <1>7 DEF SystemFails, NoFstab, SkipNoauto, FstabFails, FstabNofail, FstabDone,
       system, umounting
  <2>2. /\ pc = "system" => pc' = "failed"
        /\ pc \in {"system", "fstab", "mount"} /\ pc' \in {"failed", "fstab", "run"}
    BY Zenon, <1>7 DEF SystemFails, NoFstab, SkipNoauto, FstabFails, FstabNofail, FstabDone, NextEntry
  <2>3. QED
    BY Zenon, <2>1, <2>2, QuietStep
<1>8. CASE \/ ParseOptions \/ ParseRefused \/ KnownOption \/ BlankOption \/ UnknownOption
           \/ OptionsFail \/ SprintfFails \/ OptionsDone
  <2>1. UNCHANGED <<mounts, table_at, mp_list, mp, changed, complete>>
    BY Zenon, <1>8 DEF ParseOptions, ParseRefused, KnownOption, BlankOption, UnknownOption,
       OptionsFail, SprintfFails, OptionsDone, system, umounting
  <2>2. pc \in {"fstab", "options"} /\ pc' \in {"failed", "leaked", "fstab", "options", "mount"}
    BY Zenon, <1>8 DEF ParseOptions, ParseRefused, KnownOption, BlankOption, UnknownOption,
       OptionsFail, SprintfFails, OptionsDone, OptionLeft
  <2>3. QED
    BY <2>1, <2>2, QuietStep
<1>9. CASE Ended \/ UNCHANGED vars
  <2>1. pc' = pc /\ UNCHANGED <<mounts, table_at, mp_list, mp, changed, complete>>
    BY <1>9 DEF Ended, vars, system, umounting
  <2>2. CASE pc # "system"
    BY <2>1, <2>2, QuietStep
  <2>3. CASE pc = "system"
    <3>1. SystemThere(table_at - 1)'
      BY Zenon, <2>1, <2>3 DEF UmountInv, SystemThere, Mounted, At
    <3>2. QED
      BY <2>1, <2>3, <3>1 DEF UmountInv, NothingLeftMounted
  <2>4. QED
    BY <2>2, <2>3
<1>10. QED
  BY <1>1, <1>2, <1>3, <1>4, <1>5, <1>6, <1>7, <1>8, <1>9 DEF Next, Mounting, Umounting

\* Nothing is to be unmounted at the beginning.
LEMMA UmountInit ==
  ASSUME Init
  PROVE  UmountInv
<1>1. PICK early \in Premounted :
        mounts = <<[path |-> Root, busy |-> TRUE]>>
                 \o [i \in 1 .. Len(early) |-> [path |-> early[i], busy |-> FALSE]]
  BY Zenon DEF Init
<1>2. early \in Seq(Paths) /\ Len(early) \in Nat
  BY MountAssumption, LenProperties
<1>3. \A i \in 1 .. Len(early) : [path |-> early[i], busy |-> FALSE] \in MountRec
  BY <1>2, ElementOfSeq DEF MountRec
<1>4. [i \in 1 .. Len(early) |-> [path |-> early[i], busy |-> FALSE]] \in Seq(MountRec)
  BY <1>2, <1>3
<1>5. [path |-> Root, busy |-> TRUE] \in MountRec
  BY MountAssumption DEF MountRec
<1>6. <<[path |-> Root, busy |-> TRUE]>> \in Seq(MountRec)
  BY <1>5
<1>7. mounts \in Seq(MountRec)
  BY Zenon, <1>1, <1>4, <1>6, ConcatProperties
<1>8. SystemThere(table_at - 1)
  <2>1. \A r \in DOMAIN mount_table : ~(r <= 0)
    BY TableType
  <2>2. QED
    BY <2>1 DEF Init, SystemThere
<1>9. mp_list \in Seq(Paths) /\ DOMAIN mp_list = {}
  BY EmptySeq DEF Init
<1>10. QED
  BY <1>7, <1>8, <1>9 DEF Init, UmountInv, NothingLeftMounted

\* Whatever is mounted where and when, and in whatever order mountinfo lists it, init
\* stops unmounting only when nothing outside mount_table is left that could be
\* unmounted, and it never unmounts a system filesystem (mount.c:374-501).
THEOREM UmountCorrect == Spec => []NothingLeftMounted
<1>1. Init => HeapInv /\ UmountInv
  BY HeapInit, UmountInit
<1>2. HeapInv /\ UmountInv /\ [Next]_vars => (HeapInv /\ UmountInv)'
  BY HeapStep, UmountStep
<1>3. UmountInv => NothingLeftMounted
  BY DEF UmountInv
<1>4. QED
  BY <1>1, <1>2, <1>3, PTL DEF Spec

-----------------------------------------------------------------------------
(* What the fstab asks for is mounted *)

Made == [entry : Nat, flags : SUBSET {Sets[o] : o \in DOMAIN Sets}, data : Seq(STRING)]

\* The flags that the first n options leave standing in the code, where "defaults" sets
\* a flag and undoes none.
Standing(opts, n) ==
    {Sets[opts[i]] : i \in {k \in 1 .. n :
        /\ opts[k] \in DOMAIN Sets
        /\ \A j \in k + 1 .. n :
              opts[j] \in DOMAIN Clears => Clears[opts[j]] # Sets[opts[k]]}}

\* A mount init made has what its options came to.
MadeWell(m) ==
    /\ m.entry \in 1 .. at - 1 /\ m.entry \in DOMAIN fstab
    /\ "noauto" \notin ToSet(fstab[m.entry].opts)
    /\ m.flags = Standing(fstab[m.entry].opts, Len(fstab[m.entry].opts))
    /\ PassedOn(fstab[m.entry].opts, Len(fstab[m.entry].opts), m.data)

\* The entries before the current one are mounted, in their order, or need not be.
Earlier ==
    /\ made \in Seq(Made)
    /\ \A i \in DOMAIN made : MadeWell(made[i])
    /\ \A i, j \in DOMAIN made : i < j => made[i].entry < made[j].entry
    /\ \A k \in DOMAIN fstab : k < at =>
          \/ \E i \in DOMAIN made : made[i].entry = k
          \/ {"noauto", "nofail"} \cap ToSet(fstab[k].opts) # {}

\* The flags and the text are those of the first n options.
Current(opts, n) ==
    /\ "noauto" \notin ToSet(opts) /\ n <= Len(opts)
    /\ flags = Standing(opts, n)
    /\ PassedOn(opts, n, unknown_opts)

\* The entries before the current one are done, and the flags and the text are those
\* of the options of the current one read so far.
FstabInv ==
    /\ Earlier
    /\ pc \in {"options", "mount"} => Current(Entry.opts, next_opt - 1)
    /\ pc = "mount" => next_opt > Len(Entry.opts)
    /\ pc = "system" => at = 1
    /\ pc = "run" => at > Len(fstab)

\* No option both sets and clears a flag, and an empty one does neither.
LEMMA Disjoint ==
  /\ \A o \in DOMAIN Sets : o \notin DOMAIN Clears
  /\ BlankToken \notin DOMAIN Sets /\ BlankToken \notin DOMAIN Clears
  BY ZenonT(60) DEF Sets, Clears, BlankToken

\* Without options no flag stands and nothing is passed on.
LEMMA NothingRead ==
  ASSUME NEW opts PROVE Standing(opts, 0) = {} /\ PassedOn(opts, 0, <<>>)
<1>1. 1 .. 0 = {} /\ DOMAIN <<>> = {}
  OBVIOUS
<1>2. Standing(opts, 0) = {}
  BY <1>1 DEF Standing
<1>3. PICK place \in [DOMAIN <<>> -> 1 .. 0] : TRUE
  <2>1. [x \in DOMAIN <<>> |-> 0] \in [DOMAIN <<>> -> 1 .. 0]
    BY <1>1
  <2>2. QED
    BY ZenonT(60), <2>1
<1>4. PassedOn(opts, 0, <<>>)
  BY ZenonT(60), <1>1, <1>3 DEF PassedOn
<1>5. QED
  BY <1>2, <1>4

\* One more option changes the flags that stand as add_option_flag does.
LEMMA StandingNext ==
  ASSUME NEW opts, NEW n \in Nat
  PROVE  Standing(opts, n + 1) = add_option_flag(opts[n + 1], Standing(opts, n))
<1> DEFINE o == opts[n + 1]
           Stands(k, m) == /\ opts[k] \in DOMAIN Sets
                         /\ \A j \in k + 1 .. m :
                               opts[j] \in DOMAIN Clears => Clears[opts[j]] # Sets[opts[k]]
<1>1. \A m : Standing(opts, m) = {Sets[opts[i]] : i \in {k \in 1 .. m : Stands(k, m)}}
  BY ZenonT(60) DEF Standing
<1>2. ASSUME NEW k \in 1 .. n
      PROVE  Stands(k, n + 1) <=> Stands(k, n) /\ (o \in DOMAIN Clears => Clears[o] # Sets[opts[k]])
  <2>1. k + 1 .. n + 1 = (k + 1 .. n) \cup {n + 1}
    OBVIOUS
  <2>2. QED
    BY ZenonT(60), <2>1
<1>3. Stands(n + 1, n + 1) <=> o \in DOMAIN Sets
  <2>1. n + 1 + 1 .. n + 1 = {}
    OBVIOUS
  <2>2. QED
    BY ZenonT(60), <2>1
<1>4. 1 .. n + 1 = (1 .. n) \cup {n + 1}
  OBVIOUS
<1> HIDE DEF Stands
<1>5. ASSUME NEW f
      PROVE  f \in Standing(opts, n + 1) <=> f \in add_option_flag(o, Standing(opts, n))
  <2>1. f \in Standing(opts, n) <=> \E k \in 1 .. n : Stands(k, n) /\ f = Sets[opts[k]]
    BY ZenonT(60), <1>1
  <2>2. f \in Standing(opts, n + 1) <=> \E k \in 1 .. n + 1 : Stands(k, n + 1) /\ f = Sets[opts[k]]
    BY ZenonT(60), <1>1
  <2>3. f \in Standing(opts, n + 1) <=>
           \/ f \in Standing(opts, n) /\ (o \in DOMAIN Clears => Clears[o] # f)
           \/ o \in DOMAIN Sets /\ f = Sets[o]
    BY ZenonT(60), <1>2, <1>3, <1>4, <2>1, <2>2
  <2>4. QED
    BY ZenonT(60), <2>3, Disjoint DEF add_option_flag
<1>6. QED
  <2>1. \A f : f \in Standing(opts, n + 1) <=> f \in add_option_flag(o, Standing(opts, n))
    BY <1>5
  <2>2. QED
    BY ZenonT(60), <2>1

\* An option that is known or empty is not passed on, another one is put last.
LEMMA PassedNext ==
  ASSUME NEW opts, NEW n \in Nat, NEW data \in Seq(STRING), PassedOn(opts, n, data)
  PROVE  /\ Known(opts[n + 1]) \/ opts[n + 1] = BlankToken => PassedOn(opts, n + 1, data)
         /\ ~Known(opts[n + 1]) /\ opts[n + 1] # BlankToken /\ opts[n + 1] \in STRING =>
              PassedOn(opts, n + 1, Append(data, opts[n + 1]))
<1> DEFINE o == opts[n + 1]
           Passed(i) == ~Known(opts[i]) /\ opts[i] # BlankToken
<1>1. PICK place \in [DOMAIN data -> 1 .. n] :
        /\ \A a, b \in DOMAIN data : a < b => place[a] < place[b]
        /\ \A a \in DOMAIN data : data[a] = opts[place[a]]
        /\ \A i \in 1 .. n : (\E a \in DOMAIN data : place[a] = i) <=> Passed(i)
  BY ZenonT(60) DEF PassedOn
<1>2. Len(data) \in Nat /\ DOMAIN data = 1 .. Len(data)
  BY LenProperties
<1>3. 1 .. n + 1 = (1 .. n) \cup {n + 1} /\ n + 1 \notin 1 .. n
  OBVIOUS
<1>4. \A a \in DOMAIN data : place[a] \in 1 .. n /\ place[a] # n + 1
  BY <1>1
<1>5. ASSUME ~Passed(n + 1) PROVE PassedOn(opts, n + 1, data)
  <2>1. place \in [DOMAIN data -> 1 .. n + 1]
    BY ZenonT(60), <1>1, <1>3
  <2>2. \A i \in 1 .. n + 1 : (\E a \in DOMAIN data : place[a] = i) <=> Passed(i)
    BY ZenonT(60), <1>1, <1>3, <1>4, <1>5
  <2>3. QED
    BY ZenonT(60), <1>1, <2>1, <2>2 DEF PassedOn
<1>6. ASSUME Passed(n + 1), o \in STRING PROVE PassedOn(opts, n + 1, Append(data, o))
  <2> DEFINE new == Append(data, o)
             m == Len(data) + 1
             at2 == [a \in DOMAIN new |-> IF a = m THEN n + 1 ELSE place[a]]
  <2>1. /\ DOMAIN new = 1 .. m /\ new[m] = o /\ m \in Nat
        /\ \A a \in DOMAIN data : new[a] = data[a]
    <3>1. new \in Seq(STRING) /\ Len(new) = Len(data) + 1
          /\ (\A a \in 1 .. Len(data) : new[a] = data[a]) /\ new[Len(data) + 1] = o
      BY <1>6, AppendProperties
    <3>2. QED
      BY ZenonT(60), <1>2, <3>1, LenProperties
  <2> HIDE DEF new
  <2>2. DOMAIN new = DOMAIN data \cup {m} /\ m \notin DOMAIN data
    BY <1>2, <2>1
  <2>3. at2[m] = n + 1 /\ \A a \in DOMAIN data : at2[a] = place[a]
    BY ZenonT(60), <2>2
  <2>4. at2 \in [DOMAIN new -> 1 .. n + 1]
    BY ZenonT(60), <1>3, <1>4, <2>2
  <2> HIDE DEF at2
  <2>5. ASSUME NEW a \in DOMAIN new, NEW b \in DOMAIN new, a < b PROVE at2[a] < at2[b]
    <3>1. a \in DOMAIN data
      BY <1>2, <2>1, <2>5
    <3>2. CASE b \in DOMAIN data
      BY <1>1, <2>3, <2>5, <3>1, <3>2
    <3>3. CASE b = m
      BY <1>4, <2>3, <3>1, <3>3
    <3>4. QED
      BY ZenonT(60), <2>2, <3>2, <3>3
  <2>6. \A a \in DOMAIN new : new[a] = opts[at2[a]]
    BY ZenonT(60), <1>1, <2>1, <2>2, <2>3
  <2>7. \A i \in 1 .. n + 1 : (\E a \in DOMAIN new : at2[a] = i) <=> Passed(i)
    BY ZenonT(60), <1>1, <1>3, <1>4, <1>6, <2>2, <2>3
  <2>8. PassedOn(opts, n + 1, new)
    BY ZenonT(60), <2>4, <2>5, <2>6, <2>7 DEF PassedOn
  <2>9. QED
    BY ZenonT(60), <2>8 DEF new
<1>7. QED
  BY ZenonT(60), <1>5, <1>6

\* A step that leaves the entries and the mounts made of them alone.
LEMMA EarlierStays == ASSUME Earlier, UNCHANGED <<made, fstab, at>> PROVE Earlier'
  BY ZenonT(60) DEF Earlier, MadeWell

\* A step to a place where no options are being read.
LEMMA FstabQuiet ==
  ASSUME HeapInv, FstabInv, UNCHANGED <<made, fstab, at>>, pc' \notin {"options", "mount"},
         pc' = "system" => pc = "system", pc' = "run" => pc = "run" \/ at > Len(fstab)
  PROVE  FstabInv'
<1>1. Earlier'
  BY ZenonT(60), EarlierStays DEF FstabInv
<1>2. (pc' = "system" => at' = 1) /\ (pc' = "run" => at' > Len(fstab'))
  BY ZenonT(60) DEF FstabInv
<1>3. QED
  BY ZenonT(60), <1>1, <1>2 DEF FstabInv

\* The options of the current entry.
LEMMA EntryType ==
  ASSUME HeapInv, at <= Len(fstab)
  PROVE  /\ at \in DOMAIN fstab /\ at \in Nat /\ Entry.opts \in Seq(STRING)
         /\ Len(Entry.opts) \in Nat /\ DOMAIN Entry.opts = 1 .. Len(Entry.opts)
         /\ Entry.opts = fstab[at].opts
<1>1. at \in 1 .. Len(fstab) /\ fstab \in Seq(FstabRow)
  BY LenProperties DEF HeapInv
<1>2. Entry \in FstabRow /\ Entry = fstab[at]
  BY <1>1, ElementOfSeq DEF Entry
<1>3. at \in DOMAIN fstab
  BY <1>1, LenProperties
<1>4. QED
  BY <1>1, <1>2, <1>3, LenProperties DEF FstabRow

\* The options are read one by one.
LEMMA OptionsStep ==
  ASSUME HeapInv, FstabInv, NEW opts, opts = Entry.opts, UNCHANGED <<made, fstab, at>>,
         pc' \in {"options", "mount"}, NEW n \in Nat, next_opt' = n + 1, Current(opts, n)',
         pc' = "mount" => n + 1 > Len(opts)
  PROVE  FstabInv'
<1>1. Earlier'
  BY ZenonT(60), EarlierStays DEF FstabInv
<1>2. Entry.opts' = opts
  BY DEF Entry
<1>3. next_opt' - 1 = n
  OBVIOUS
<1>4. QED
  BY ZenonT(60), <1>1, <1>2, <1>3 DEF FstabInv

\* An option is read: it is added to the flags, passed on or skipped.
LEMMA OptionRead ==
  ASSUME HeapInv, FstabInv, KnownOption \/ BlankOption \/ UnknownOption
  PROVE  FstabInv'
<1>1. /\ pc = "options" /\ pc' = "options" /\ UNCHANGED <<made, fstab, at>>
      /\ next_opt <= Len(Entry.opts) /\ next_opt' = next_opt + 1
  BY ZenonT(60) DEF KnownOption, BlankOption, UnknownOption, OptionLeft
<1>2. PICK opts : opts = Entry.opts
  OBVIOUS
<1>3. PICK n \in Nat : next_opt = n + 1
  <2>1. next_opt \in Nat \ {0}
    BY DEF HeapInv
  <2>2. next_opt - 1 \in Nat /\ next_opt = (next_opt - 1) + 1
    BY <2>1
  <2>3. QED
    BY <2>2
<1>4. opts[n + 1] \in STRING
  BY ZenonT(60), <1>1, <1>2, <1>3, OptionType DEF OptionLeft
<1>5. flags = Standing(opts, n) /\ PassedOn(opts, n, unknown_opts) /\ "noauto" \notin ToSet(opts)
  <2>1. next_opt - 1 = n
    BY <1>3
  <2>2. Current(opts, n)
    BY ZenonT(60), <1>1, <1>2, <2>1 DEF FstabInv
  <2>3. QED
    BY <2>2 DEF Current
<1>6. Standing(opts, n + 1) = add_option_flag(opts[n + 1], flags)
  BY ZenonT(60), <1>5, StandingNext
<1>7. unknown_opts \in Seq(STRING)
  BY DEF HeapInv
<1>8. /\ Known(opts[n + 1]) \/ opts[n + 1] = BlankToken => PassedOn(opts, n + 1, unknown_opts)
      /\ ~Known(opts[n + 1]) /\ opts[n + 1] # BlankToken =>
           PassedOn(opts, n + 1, Append(unknown_opts, opts[n + 1]))
  BY ZenonT(60), <1>4, <1>5, <1>7, PassedNext
<1>9. flags' = Standing(opts, n + 1) /\ PassedOn(opts, n + 1, unknown_opts')
  <2>1. CASE KnownOption
    <3>1. Known(opts[n + 1]) /\ flags' = add_option_flag(opts[n + 1], flags)
          /\ unknown_opts' = unknown_opts
      BY ZenonT(60), <1>2, <1>3, <2>1 DEF KnownOption
    <3>2. QED
      BY ZenonT(60), <1>6, <1>8, <3>1
  <2>2. CASE BlankOption
    <3>1. opts[n + 1] = BlankToken /\ flags' = flags /\ unknown_opts' = unknown_opts
      BY ZenonT(60), <1>2, <1>3, <2>2 DEF BlankOption
    <3>2. add_option_flag(opts[n + 1], flags) = flags
      BY ZenonT(60), <3>1, Disjoint DEF add_option_flag
    <3>3. QED
      BY ZenonT(60), <1>6, <1>8, <3>1, <3>2
  <2>3. CASE UnknownOption
    <3>1. ~Known(opts[n + 1]) /\ opts[n + 1] # BlankToken /\ flags' = flags
          /\ unknown_opts' = Append(unknown_opts, opts[n + 1])
      BY ZenonT(60), <1>2, <1>3, <2>3 DEF UnknownOption, add_unknown_option
    <3>2. add_option_flag(opts[n + 1], flags) = flags
      BY ZenonT(60), <3>1 DEF add_option_flag, Known
    <3>3. QED
      BY ZenonT(60), <1>6, <1>8, <3>1, <3>2
  <2>4. QED
    BY <2>1, <2>2, <2>3
<1>10. Current(opts, n + 1)'
  BY <1>1, <1>2, <1>3, <1>5, <1>9 DEF Current
<1>11. QED
  BY <1>1, <1>2, <1>3, <1>10, OptionsStep

\* The first option is about to be read, or the last one was.
LEMMA OptionsEnds ==
  ASSUME HeapInv, FstabInv, ParseOptions \/ OptionsDone
  PROVE  FstabInv'
<1>1. PICK opts : opts = Entry.opts
  OBVIOUS
<1>2. CASE ParseOptions
  <2>0. 0 + 1 = 1
    OBVIOUS
  <2>1. /\ UNCHANGED <<made, fstab, at>> /\ at <= Len(fstab) /\ "noauto" \notin ToSet(opts)
        /\ flags' = {} /\ unknown_opts' = <<>> /\ next_opt' = 0 + 1 /\ pc' = "options"
    BY ZenonT(60), <1>1, <1>2, <2>0 DEF ParseOptions, HasOption
  <2>2. 0 <= Len(opts)
    BY <1>1, <2>1, EntryType
  <2>3. Current(opts, 0)'
    BY <2>1, <2>2, NothingRead DEF Current
  <2>4. QED
    BY <1>1, <2>1, <2>3, OptionsStep
<1>3. CASE OptionsDone
  <2>1. /\ pc = "options" /\ pc' = "mount" /\ next_opt > Len(opts)
        /\ UNCHANGED <<made, fstab, at, flags, unknown_opts, next_opt>>
    BY <1>1, <1>3 DEF OptionsDone
  <2>2. PICK n \in Nat : next_opt = n + 1 /\ n = next_opt - 1
    <3>1. next_opt \in Nat \ {0}
      BY DEF HeapInv
    <3>2. next_opt - 1 \in Nat /\ next_opt = (next_opt - 1) + 1
      BY <3>1
    <3>3. QED
      BY <3>2
  <2>3. Current(opts, n)
    BY <1>1, <2>1, <2>2 DEF FstabInv
  <2>4. Current(opts, n)'
    BY <2>1, <2>3 DEF Current
  <2>5. QED
    BY <1>1, <2>1, <2>2, <2>4, OptionsStep
<1>4. QED
  BY <1>2, <1>3

\* The entries before the next one: the current one is mounted, or need not be.
LEMMA EarlierGrows ==
  ASSUME HeapInv, Earlier, at <= Len(fstab), UNCHANGED <<made, fstab>>, at' = at + 1,
         "noauto" \in ToSet(Entry.opts) \/ "nofail" \in ToSet(Entry.opts)
  PROVE  Earlier'
<1>1. /\ at \in DOMAIN fstab /\ at \in Nat /\ Entry.opts = fstab[at].opts
      /\ DOMAIN Entry.opts = 1 .. Len(Entry.opts)
  BY ZenonT(60), EntryType
<1>2. {"noauto", "nofail"} \cap ToSet(fstab[at].opts) # {}
  <2>1. PICK o \in {"noauto", "nofail"} : o \in ToSet(Entry.opts)
    OBVIOUS
  <2>2. o \in ToSet(fstab[at].opts)
    BY ZenonT(60), <1>1, <2>1 DEF ToSet
  <2>3. QED
    BY <2>2
<1>3. ASSUME NEW i \in DOMAIN made PROVE MadeWell(made[i])'
  <2>1. MadeWell(made[i])
    BY Zenon DEF Earlier
  <2>2. \A e \in 1 .. at - 1 : e \in 1 .. at' - 1
    BY <1>1
  <2>3. QED
    BY Zenon, <2>1, <2>2 DEF MadeWell
<1>4. ASSUME NEW k \in DOMAIN fstab, k < at + 1
      PROVE  \/ \E i \in DOMAIN made : made[i].entry = k
             \/ {"noauto", "nofail"} \cap ToSet(fstab[k].opts) # {}
  <2>1. k \in Nat
    BY LenProperties DEF HeapInv
  <2>2. k = at \/ k < at
    BY <1>1, <1>4, <2>1
  <2>3. QED
    BY ZenonT(60), <1>2, <2>2 DEF Earlier
<1>5. QED
  BY ZenonT(60), <1>3, <1>4 DEF Earlier

\* The current entry is mounted with what its options came to.
LEMMA EarlierMounted ==
  ASSUME HeapInv, FstabInv, FstabMounted
  PROVE  Earlier'
<1>1. /\ pc = "mount" /\ UNCHANGED fstab /\ at' = at + 1
      /\ made' = Append(made, [entry |-> at, flags |-> flags, data |-> unknown_opts])
  BY ZenonT(60) DEF FstabMounted, NextEntry
<1>2. PICK opts : opts = fstab[at].opts
  OBVIOUS
<1>3. /\ at \in DOMAIN fstab /\ at \in Nat /\ opts = Entry.opts /\ Len(opts) \in Nat
      /\ unknown_opts \in Seq(STRING) /\ next_opt \in Nat
  BY ZenonT(60), <1>1, <1>2, EntryType DEF HeapInv
<1>4. "noauto" \notin ToSet(opts) /\ flags = Standing(opts, Len(opts)) /\ PassedOn(opts, Len(opts), unknown_opts)
  <2>1. Current(opts, next_opt - 1) /\ next_opt > Len(opts)
    BY ZenonT(60), <1>1, <1>3 DEF FstabInv
  <2>2. next_opt - 1 = Len(opts)
    BY <1>3, <2>1 DEF Current
  <2>3. QED
    BY <2>1, <2>2 DEF Current
<1>5. PICK m \in Made : m.entry = at /\ m.flags = flags /\ m.data = unknown_opts /\ made' = Append(made, m)
  <2>1. flags \in SUBSET {Sets[o] : o \in DOMAIN Sets}
    BY ZenonT(60), <1>4 DEF Standing
  <2>2. [entry |-> at, flags |-> flags, data |-> unknown_opts] \in Made
    BY ZenonT(60), <1>3, <2>1 DEF Made
  <2>3. QED
    BY <1>1, <2>2
<1>6. made \in Seq(Made) /\ Len(made) \in Nat /\ DOMAIN made = 1 .. Len(made)
  BY ZenonT(60), LenProperties DEF FstabInv, Earlier
<1>7. /\ made' \in Seq(Made) /\ DOMAIN made' = 1 .. Len(made) + 1 /\ made'[Len(made) + 1] = m
      /\ \A i \in DOMAIN made : made'[i] = made[i]
  <2>1. made' \in Seq(Made) /\ Len(made') = Len(made) + 1 /\ made'[Len(made) + 1] = m
        /\ \A i \in 1 .. Len(made) : made'[i] = made[i]
    BY <1>5, <1>6, AppendProperties
  <2>2. QED
    BY ZenonT(60), <1>6, <2>1, LenProperties
<1>8. DOMAIN made' = DOMAIN made \cup {Len(made) + 1} /\ \A i \in DOMAIN made : i < Len(made) + 1
  BY <1>6, <1>7
<1>9. \A i \in DOMAIN made : made[i].entry \in Nat /\ made[i].entry < at
  <2>1. \A i \in DOMAIN made : made[i].entry \in 1 .. at - 1
    BY Zenon DEF FstabInv, Earlier, MadeWell
  <2>2. QED
    BY <1>3, <2>1
<1>10. MadeWell(m)'
  <2>1. at \in 1 .. at' - 1
    <3>1. at # 0
      BY Zenon DEF HeapInv
    <3>2. QED
      BY <1>1, <1>3, <3>1
  <2>2. QED
    BY ZenonT(60), <1>1, <1>2, <1>3, <1>4, <1>5, <2>1 DEF MadeWell
<1>11. ASSUME NEW i \in DOMAIN made PROVE MadeWell(made[i])'
  <2>1. MadeWell(made[i])
    BY ZenonT(60) DEF FstabInv, Earlier
  <2>2. made'[i] = made[i]
    BY ZenonT(60), <1>7
  <2>3. \A e \in 1 .. at - 1 : e \in 1 .. at' - 1
    BY <1>1, <1>3
  <2>4. QED
    BY Zenon, <1>1, <2>1, <2>2, <2>3 DEF MadeWell
<1>12. \A i \in DOMAIN made' : MadeWell(made[i])'
  BY ZenonT(60), <1>7, <1>8, <1>10, <1>11 DEF MadeWell
<1>13. ASSUME NEW i \in DOMAIN made', NEW j \in DOMAIN made', i < j
       PROVE  made'[i].entry < made'[j].entry
  <2>1. i \in DOMAIN made
    BY <1>6, <1>7, <1>13
  <2>2. CASE j \in DOMAIN made
    BY ZenonT(60), <1>7, <1>13, <2>1, <2>2 DEF FstabInv, Earlier
  <2>3. CASE j = Len(made) + 1
    BY <1>5, <1>7, <1>9, <2>1, <2>3
  <2>4. QED
    BY ZenonT(60), <1>8, <2>2, <2>3
<1>14. ASSUME NEW k \in DOMAIN fstab, k < at + 1
       PROVE  \/ \E i \in DOMAIN made' : made'[i].entry = k
              \/ {"noauto", "nofail"} \cap ToSet(fstab[k].opts) # {}
  <2>1. k \in Nat
    BY LenProperties DEF HeapInv
  <2>2. k = at \/ k < at
    BY <1>3, <1>14, <2>1
  <2>3. CASE k = at
    BY ZenonT(60), <1>5, <1>7, <1>8, <2>3
  <2>4. CASE k < at
    BY ZenonT(60), <1>7, <1>8, <2>4 DEF FstabInv, Earlier
  <2>5. QED
    BY <2>2, <2>3, <2>4
<1>15. QED
  BY <1>1, <1>7, <1>12, <1>13, <1>14 DEF Earlier

\* What stands is what is asked for, but for what a "defaults" does not undo.
LEMMA StandingAsked ==
  ASSUME NEW opts, DOMAIN opts = 1 .. Len(opts)
  PROVE  /\ Asked(opts) \subseteq Standing(opts, Len(opts))
         /\ Standing(opts, Len(opts)) \subseteq Asked(opts) \cup NotUndone(opts)
<1>1. ASSUME NEW f \in Asked(opts) PROVE f \in Standing(opts, Len(opts))
  <2>1. PICK k \in DOMAIN opts : /\ opts[k] \in DOMAIN Sets /\ f = Sets[opts[k]]
                                 /\ \A j \in k + 1 .. Len(opts) : ~Undoes(opts[j], Sets[opts[k]])
    BY ZenonT(60) DEF Asked
  <2>2. \A j \in k + 1 .. Len(opts) : opts[j] \in DOMAIN Clears => Clears[opts[j]] # Sets[opts[k]]
    BY ZenonT(60), <2>1 DEF Undoes
  <2>3. QED
    BY ZenonT(60), <2>1, <2>2 DEF Standing
<1>2. ASSUME NEW f \in Standing(opts, Len(opts)), f \notin Asked(opts) PROVE f \in NotUndone(opts)
  <2>1. PICK k \in DOMAIN opts :
           /\ opts[k] \in DOMAIN Sets /\ f = Sets[opts[k]]
           /\ \A j \in k + 1 .. Len(opts) :
                 opts[j] \in DOMAIN Clears => Clears[opts[j]] # Sets[opts[k]]
    BY ZenonT(60) DEF Standing
  <2>2. PICK j \in k + 1 .. Len(opts) : Undoes(opts[j], Sets[opts[k]])
    BY ZenonT(60), <1>2, <2>1 DEF Asked
  <2>3. opts[j] = "defaults" /\ Sets[opts[k]] \in DefaultsUndoes
    BY ZenonT(60), <2>1, <2>2 DEF Undoes
  <2>4. QED
    BY ZenonT(60), <2>1, <2>3 DEF NotUndone
<1>3. QED
  BY <1>1, <1>2

\* Every step keeps FstabInv.
LEMMA FstabStep == HeapInv /\ FstabInv /\ [Next]_vars => FstabInv'
<1> SUFFICES ASSUME HeapInv, FstabInv, [Next]_vars PROVE FstabInv'
  OBVIOUS
<1>1. CASE KnownOption \/ BlankOption \/ UnknownOption \/ ParseOptions \/ OptionsDone
  BY <1>1, OptionRead, OptionsEnds
<1>2. CASE FstabMounted
  <2>1. pc' = "fstab"
    BY ZenonT(60), <1>2 DEF FstabMounted, NextEntry
  <2>2. QED
    BY <1>2, <2>1, EarlierMounted DEF FstabInv
<1>3. CASE SkipNoauto \/ FstabNofail
  <2>1. /\ pc' = "fstab" /\ at <= Len(fstab) /\ UNCHANGED <<made, fstab>> /\ at' = at + 1
        /\ "noauto" \in ToSet(Entry.opts) \/ "nofail" \in ToSet(Entry.opts)
    BY ZenonT(60), <1>3 DEF SkipNoauto, FstabNofail, NextEntry, HasOption, HeapInv
  <2>2. QED
    BY <2>1, EarlierGrows DEF FstabInv
<1>4. CASE NoFstab \/ get_mountpoints
  <2>1. fstab' = <<>> /\ pc' \in {"fstab", "umount"} /\ (made' = <<>> \/ (UNCHANGED made /\ at = 1))
    BY <1>4 DEF NoFstab, get_mountpoints
  <2>2. made' = <<>>
    <3>1. CASE at = 1 /\ UNCHANGED made
      <4>1. \A i \in DOMAIN made : FALSE
        <5>1. \A i \in DOMAIN made : made[i].entry \in 1 .. at - 1
          BY Zenon DEF FstabInv, Earlier, MadeWell
        <5>2. QED
          BY <3>1, <5>1
      <4>2. made = <<>>
        <5>1. made \in Seq(Made)
          BY Zenon DEF FstabInv, Earlier
        <5>2. QED
          BY <4>1, <5>1
      <4>3. QED
        BY <3>1, <4>2
    <3>2. QED
      BY <2>1, <3>1
  <2>3. Earlier'
    BY <2>1, <2>2, EmptySeq DEF Earlier
  <2>4. QED
    BY <2>1, <2>3 DEF FstabInv
<1>5. CASE SystemMounted \/ SystemSkipped \/ SystemFails \/ SystemDone \/ FstabDone \/ OtherMounts
  <2>1. /\ UNCHANGED <<made, fstab, at>> /\ pc' \in {"system", "failed", "fstab", "run"}
        /\ pc' = "system" => pc = "system"
        /\ pc' = "run" => pc = "run" \/ at > Len(fstab)
    BY ZenonT(60), <1>5 DEF SystemMounted, SystemSkipped, SystemFails, SystemDone, FstabDone, OtherMounts
  <2>2. QED
    BY <2>1, FstabQuiet
<1>6. CASE \/ ParseRefused \/ OptionsFail \/ SprintfFails \/ FstabFails
           \/ UmountOk \/ UmountFails \/ NextPass \/ GiveUp
  <2>1. UNCHANGED <<made, fstab, at>> /\ pc' \in {"failed", "leaked", "umount", "unmounted"}
    BY ZenonT(60), <1>6 DEF ParseRefused, OptionsFail, SprintfFails, FstabFails, UmountOk, UmountFails, NextPass, GiveUp
  <2>2. QED
    BY <2>1, FstabQuiet
<1>7. CASE Ended \/ UNCHANGED vars
  <2>1. UNCHANGED <<pc, made, fstab, at, flags, unknown_opts, next_opt>>
    BY ZenonT(60), <1>7 DEF Ended, vars, parsing
  <2>2. Earlier'
    BY <2>1, EarlierStays DEF FstabInv
  <2>3. QED
    BY ZenonT(60), <2>1, <2>2 DEF FstabInv, Current, Entry
<1>8. QED
  BY <1>1, <1>2, <1>3, <1>4, <1>5, <1>6, <1>7 DEF Next, Mounting, Umounting

\* When mount_mount_filesystems has returned true, every fatal system filesystem is
\* mounted and so is, once and in order, every entry of the fstab that is neither
\* "noauto" nor "nofail", each with the flags its options ask for, but for what a
\* "defaults" does not undo, and with their data: for every table, every fstab and all
\* failing calls (mount.c:49-372).
THEOREM MountedCorrect == Spec => []MountedAsAsked
<1>1. Init => FstabInv
  <2> SUFFICES ASSUME Init PROVE FstabInv
    OBVIOUS
  <2>1. made = <<>> /\ at = 1 /\ pc = "system" /\ fstab \in Fstabs
    BY DEF Init
  <2>2. \A k \in DOMAIN fstab : ~(k < 1)
    <3>1. fstab \in Seq(FstabRow)
      BY ZenonT(60), <2>1, MountAssumption DEF FstabRow
    <3>2. QED
      BY <3>1, LenProperties
  <2>3. Earlier
    BY <2>1, <2>2, EmptySeq DEF Earlier
  <2>4. QED
    BY <2>1, <2>3 DEF FstabInv
<1>2. HeapInv /\ UmountInv /\ FstabInv => MountedAsAsked
  <2> SUFFICES ASSUME HeapInv, UmountInv, FstabInv, pc = "run" PROVE MountedAsAsked
    BY ZenonT(60) DEF MountedAsAsked
  <2>1. \A i \in DOMAIN mount_table : mount_table[i].fatal => Mounted(mount_table[i].target)
    <3>1. SystemThere(Len(mount_table))
      BY Zenon DEF UmountInv
    <3>2. \A i \in DOMAIN mount_table : i <= Len(mount_table)
      BY TableType
    <3>3. QED
      BY Zenon, <3>1, <3>2 DEF SystemThere
  <2>2. \A k \in DOMAIN fstab : k < at
    <3>1. fstab \in Seq(FstabRow) /\ at \in Nat /\ at > Len(fstab)
      BY DEF HeapInv, FstabInv
    <3>2. QED
      BY <3>1, LenProperties
  <2>3. made \in Seq(Made) /\ Len(made) \in Nat /\ DOMAIN made = 1 .. Len(made)
    BY ZenonT(60), LenProperties DEF FstabInv, Earlier
  <2>4. \A i \in DOMAIN made : \A j \in i + 1 .. Len(made) : made[i].entry < made[j].entry
    <3>1. \A i \in DOMAIN made : \A j \in i + 1 .. Len(made) : j \in DOMAIN made /\ i < j
      BY <2>3
    <3>2. QED
      BY ZenonT(60), <3>1 DEF FstabInv, Earlier
  <2>5. ASSUME NEW i \in DOMAIN made, NEW opts, opts = fstab[made[i].entry].opts
        PROVE  /\ Asked(opts) \subseteq made[i].flags
               /\ made[i].flags \subseteq Asked(opts) \cup NotUndone(opts)
    <3>1. made[i].entry \in DOMAIN fstab /\ made[i].flags = Standing(opts, Len(opts))
      BY ZenonT(60), <2>5 DEF FstabInv, Earlier, MadeWell
    <3>2. opts \in Seq(STRING)
      <4>1. fstab \in Seq(FstabRow) /\ made[i].entry \in 1 .. Len(fstab)
        BY <3>1, LenProperties DEF HeapInv
      <4>2. fstab[made[i].entry] \in FstabRow
        BY <4>1, ElementOfSeq
      <4>3. QED
        BY <2>5, <4>2 DEF FstabRow
    <3>3. DOMAIN opts = 1 .. Len(opts)
      BY <3>2, LenProperties
    <3>4. QED
      BY ZenonT(60), <3>1, <3>3, StandingAsked
  <2>6. QED
    BY ZenonT(60), <2>1, <2>2, <2>4, <2>5 DEF FstabInv, Earlier, MadeWell, MountedAsAsked
<1>3. Init => HeapInv /\ UmountInv
  BY HeapInit, UmountInit
<1>4. HeapInv /\ UmountInv /\ [Next]_vars => (HeapInv /\ UmountInv)'
  BY HeapStep, UmountStep
<1>5. QED
  BY <1>1, <1>2, <1>3, <1>4, FstabStep, PTL DEF Spec

-----------------------------------------------------------------------------
(* Unmounting ends *)

\* A step of the loops of mount_umount_filesystems brings their end nearer, for every
\* tree of mounts and every order mountinfo lists them in.
THEOREM PassesCorrect == Spec => PassesShrink
<1> DEFINE Nearer ==
      \/ Len(mp_list') < Len(mp_list)
      \/ mp_list' = mp_list /\ changed /\ ~changed'
      \/ /\ mp_list' = mp_list /\ changed' = changed
         /\ mp < mp' /\ mp' <= Len(mp_list) + 1
<1>1. UmountInv /\ [Next]_vars => [pc = "umount" /\ pc' = "umount" => Nearer]_vars
  <2> SUFFICES ASSUME UmountInv, Next, pc = "umount", pc' = "umount" PROVE Nearer
    OBVIOUS
  <2>1. mp_list \in Seq(Paths) /\ mp \in Nat \ {0} /\ Len(mp_list) \in Nat
    BY DEF UmountInv
  <2>2. CASE UmountOk
    <3>1. mp \in 1 .. Len(mp_list) /\ mp_list' = RemoveAt(mp_list, mp)
      BY <2>1, <2>2 DEF UmountOk
    <3>2. Len(RemoveAt(mp_list, mp)) = Len(mp_list) - 1
      BY <2>1, <3>1, Removed
    <3>3. QED
      BY <2>1, <3>1, <3>2
  <2>3. CASE UmountFails
    BY <2>1, <2>3 DEF UmountFails
  <2>4. CASE NextPass
    BY Zenon, <2>4 DEF NextPass
  <2>5. CASE Mounting \/ OtherMounts \/ get_mountpoints \/ GiveUp \/ Ended
    <3>1. CASE Mounting
      BY Zenon, <3>1 DEF Mounting, SystemMounted, SystemSkipped, SystemFails, SystemDone, NoFstab,
         SkipNoauto, ParseOptions, ParseRefused, KnownOption, BlankOption, UnknownOption,
         OptionsFail, SprintfFails, OptionsDone, OptionLeft, FstabMounted, FstabNofail, FstabFails, FstabDone
    <3>2. CASE OtherMounts \/ get_mountpoints \/ GiveUp \/ Ended
      BY Zenon, <3>2 DEF OtherMounts, get_mountpoints, GiveUp, Ended
    <3>3. QED
      BY Zenon, <2>5, <3>1, <3>2
  <2>6. QED
    BY <2>2, <2>3, <2>4, <2>5 DEF Next, Umounting
<1>2. Init => HeapInv /\ UmountInv
  BY HeapInit, UmountInit
<1>3. HeapInv /\ UmountInv /\ [Next]_vars => (HeapInv /\ UmountInv)'
  BY HeapStep, UmountStep
<1>4. QED
  BY <1>1, <1>2, <1>3, PTL DEF Spec, PassesShrink

=============================================================================
