---------------------------- MODULE InittabProofs ----------------------------
(***************************************************************************)
(* What read_inittab establishes for every file: proofs about Inittab.     *)
(* The supervisor's theorems assume of the inittab what FitForSupervisor   *)
(* states.                                                                 *)
(***************************************************************************)
EXTENDS Inittab, SequenceTheorems, TLAPS

\* The steps expand large actions: the SMT solver is given up to a minute for each.
USE SMTT(60)

Slot == [cell : Cell, nul : BOOLEAN]

\* The entries of the lists come from lines that were read, and from nothing else:
\* that is what makes the next one the last of its order.
ReadBefore(list) == \A i \in DOMAIN list : list[i].line < pos

\* The inductive invariant.
InittabInv ==
    /\ TypeOK
    /\ ListsSorted
    /\ ReadBefore(startup_list) /\ ReadBefore(shutdown_list)
    /\ \A i \in DOMAIN startup_list : is_startup_entry(startup_list[i])
    /\ \A i \in DOMAIN shutdown_list : is_shutdown_entry(shutdown_list[i])
    /\ \/ safe_mode_entry = <<>>
       \/ Len(safe_mode_entry) = 1 /\ safe_mode_entry[1].type = "SAFE_MODE"
    /\ pc = "done" /\ result => safe_mode_entry # <<>>

\* What is in a list, and the valid entries of the lines read so far whose type is one
\* of K.
Members(list) == {list[i] : i \in DOMAIN list}
EntriesOf(K) ==
    {Parsed(Own(n), n) : n \in {m \in 1 .. pos - 1 :
        m <= Len(file.lines) /\ HoldsEntry(m) /\ Parsed(Own(m), m).type \in K}}
StartupTypes == {"ONE_SHOT", "SAFE_ONE_SHOT", "SERVICE", "SAFE_SERVICE"}
ShutdownTypes == {"SHUTDOWN", "SAFE_SHUTDOWN"}

\* The buffer is no longer than some line of the run of skipped lines just read.
BufferFromSkipped ==
    pc = "line" /\ buffer # <<>> =>
        \E m \in 1 .. pos - 1 : /\ Len(buffer) <= Len(file.lines[m].cells)
                                /\ \A k \in m .. pos - 1 : file.lines[k].kind = "skip"

\* The lists hold what was read, and every line read holds an entry or nothing.
Collected ==
    /\ Members(startup_list) = EntriesOf(StartupTypes)
    /\ Members(shutdown_list) = EntriesOf(ShutdownTypes)
    /\ Members(safe_mode_entry) = EntriesOf({"SAFE_MODE"})
AllHold == \A n \in 1 .. pos - 1 : file.lines[n].kind # "skip" => HoldsEntry(n)

\* What makes NothingLost and AcceptsWellFormed inductive: a file that will be accepted
\* has been read without an error so far, and one that is well formed meets no error
\* unless the stream was at its end too early, which leaves init in the loop.
Accepting == pc = "done" /\ result
Reading == pc \in {"loop", "line"}
ReadSoFar ==
    /\ Reading \/ (pc = "check" /\ ~error) \/ Accepting => Collected
    /\ (pc # "done" /\ ~error) \/ Accepting => AllHold
    /\ (pc = "check" /\ ~error) \/ Accepting => pos > Len(file.lines)
    /\ WellFormed /\ io = {} =>
          \/ Accepting
          \/ pc # "done" /\ (error => feof /\ pc = "loop")
AcceptInv ==
    /\ InittabInv
    /\ pos <= Len(file.lines) + 1
    /\ pc = "open" => pos = 1 /\ startup_list = <<>> /\ shutdown_list = <<>>
                      /\ safe_mode_entry = <<>>
    /\ BufferFromSkipped
    /\ CommentsHarmless => ReadSoFar

-----------------------------------------------------------------------------
(* Buffers and entries *)

\* A line written over a buffer leaves a buffer.
LEMMA OverwriteType ==
  ASSUME NEW buf \in Seq(Slot), NEW line \in Line
  PROVE  Overwrite(buf, line) \in Seq(Slot)
<1> DEFINE n == IF Len(line.cells) > Len(buf) THEN Len(line.cells) ELSE Len(buf)
<1> DEFINE at(i) == IF i <= Len(line.cells)
                    THEN [cell |-> line.cells[i], nul |-> i = Len(line.cells)] ELSE buf[i]
<1>1. line.cells \in Seq(Cell)
  BY DEF Line
<1>2. n \in Nat /\ Len(line.cells) \in Nat
  BY <1>1
<1>3. \A i \in 1 .. n : at(i) \in Slot
  <2>1. SUFFICES ASSUME NEW i \in 1 .. n PROVE at(i) \in Slot
    BY Zenon
  <2>2. CASE i <= Len(line.cells)
    <3>1. line.cells[i] \in Cell
      BY <1>1, <1>2, <2>2, ElementOfSeq
    <3>2. QED
      BY <2>2, <3>1 DEF Slot
  <2>3. CASE ~(i <= Len(line.cells))
    <3>1. i \in 1 .. Len(buf)
      BY <1>2, <2>3
    <3>2. QED
      BY <2>3, <3>1, ElementOfSeq
  <2>4. QED
    BY <2>2, <2>3
<1>4. [i \in 1 .. n |-> at(i)] \in [1 .. n -> Slot]
  BY <1>3
<1>5. Overwrite(buf, line) = [i \in 1 .. n |-> at(i)]
  BY DEF Overwrite
<1> HIDE DEF n, at
<1>6. QED
  BY <1>2, <1>4, <1>5, SeqDef

\* The line being read, and the buffer with it.
LEMMA FilledType ==
  ASSUME TypeOK, NEW kinds, LineLeft(kinds)
  PROVE  Filled \in Seq(Slot) /\ pos \in Nat
<1>1. file \in File
  BY InittabAssumption DEF TypeOK
<1>2. file.lines \in Seq(Line) /\ pos \in 1 .. Len(file.lines)
  BY <1>1 DEF File, TypeOK, LineLeft
<1>3. file.lines[pos] \in Line
  BY <1>2, ElementOfSeq
<1>4. QED
  BY Zenon, <1>3, OverwriteType DEF TypeOK, Filled, Slot

\* A field that is there or not is a cell.
LEMMA FieldType ==
  ASSUME NEW buf \in Seq(Slot), NEW i \in Nat \ {0}
  PROVE  Field(buf, i) \in Cell
<1>1. Blank \in Cell
  BY DEF Blank, Cell
<1>2. CASE i <= Len(buf)
  <2>1. buf[i] \in Slot
    BY <1>2, ElementOfSeq
  <2>2. QED
    BY <1>2, <2>1 DEF Field, Slot
<1>3. QED
  BY <1>1, <1>2 DEF Field

\* A valid line gives an entry: its order is a natural number, or -1.
LEMMA ParsedType ==
  ASSUME NEW buf \in Seq(Slot), NEW n \in Nat, Valid(buf), Field(buf, 3).type # "none"
  PROVE  Parsed(buf, n) \in EntryRecord
<1>1. Field(buf, 1) \in Cell /\ Field(buf, 3) \in Cell
  BY FieldType
<1>2. Number(Field(buf, 1)) \in Nat \cup {-1}
  BY <1>1 DEF Valid, ValidNumber, Number, Cell
<1>3. Field(buf, 3).type \in EntryType
  BY <1>1 DEF Cell
<1>4. QED
  BY <1>2, <1>3 DEF Parsed, EntryRecord

-----------------------------------------------------------------------------
(* A line over what a comment left *)

\* The fields of a line written over a buffer are its own.
LEMMA OverwriteAt ==
  ASSUME NEW buf \in Seq(Slot), NEW line \in Line
  PROVE  /\ Len(line.cells) \in Nat
         /\ Overwrite(buf, line) \in Seq(Slot)
         /\ Len(Overwrite(buf, line)) = IF Len(line.cells) > Len(buf) THEN Len(line.cells)
                                                                      ELSE Len(buf)
         /\ \A i \in 1 .. Len(line.cells) :
               Overwrite(buf, line)[i] = [cell |-> line.cells[i], nul |-> i = Len(line.cells)]
<1> DEFINE n == IF Len(line.cells) > Len(buf) THEN Len(line.cells) ELSE Len(buf)
<1>1. line.cells \in Seq(Cell)
  BY DEF Line
<1>2. n \in Nat /\ Len(line.cells) \in Nat /\ Len(line.cells) <= n
  BY <1>1
<1>3. Overwrite(buf, line) \in Seq(Slot)
  BY OverwriteType
<1>4. DOMAIN Overwrite(buf, line) = 1 .. n
  BY DEF Overwrite
<1>5. Len(Overwrite(buf, line)) = n
  BY <1>2, <1>3, <1>4, LenProperties
<1>6. \A i \in 1 .. Len(line.cells) :
         Overwrite(buf, line)[i] = [cell |-> line.cells[i], nul |-> i = Len(line.cells)]
  BY <1>2 DEF Overwrite
<1>7. QED
  BY <1>2, <1>3, <1>5, <1>6

\* The line alone.
LEMMA OwnAt ==
  ASSUME NEW line \in Line
  PROVE  /\ Overwrite(<<>>, line) \in Seq(Slot)
         /\ Len(Overwrite(<<>>, line)) = Len(line.cells)
         /\ \A i \in 1 .. Len(line.cells) :
               Overwrite(<<>>, line)[i] = [cell |-> line.cells[i], nul |-> i = Len(line.cells)]
<1>0. <<>> \in Seq(Slot) /\ Len(<<>>) = 0
  BY EmptySeq
<1>1. PICK e \in Seq(Slot) : e = <<>> /\ Len(e) = 0
  BY Zenon, <1>0
<1>2. /\ Len(line.cells) \in Nat
      /\ Overwrite(e, line) \in Seq(Slot)
      /\ Len(Overwrite(e, line)) = IF Len(line.cells) > Len(e) THEN Len(line.cells) ELSE Len(e)
      /\ \A i \in 1 .. Len(line.cells) :
            Overwrite(e, line)[i] = [cell |-> line.cells[i], nul |-> i = Len(line.cells)]
  BY OverwriteAt
<1>3. Len(Overwrite(e, line)) = Len(line.cells)
  BY <1>1, <1>2
<1>4. QED
  BY Zenon, <1>1, <1>2, <1>3

\* A buffer no longer than the line is covered by it.
LEMMA Covered ==
  ASSUME NEW buf \in Seq(Slot), NEW line \in Line, Len(buf) <= Len(line.cells)
  PROVE  Overwrite(buf, line) = Overwrite(<<>>, line)
<1> DEFINE a == Overwrite(buf, line)
           b == Overwrite(<<>>, line)
<1>1. /\ Len(line.cells) \in Nat /\ a \in Seq(Slot) /\ Len(a) = Len(line.cells)
      /\ \A i \in 1 .. Len(line.cells) :
            a[i] = [cell |-> line.cells[i], nul |-> i = Len(line.cells)]
  BY OverwriteAt
<1>2. /\ b \in Seq(Slot) /\ Len(b) = Len(line.cells)
      /\ \A i \in 1 .. Len(line.cells) :
            b[i] = [cell |-> line.cells[i], nul |-> i = Len(line.cells)]
  BY Zenon, OwnAt
<1> HIDE DEF a, b
<1>3. Len(a) = Len(b) /\ \A i \in 1 .. Len(a) : a[i] = b[i]
  BY Zenon, <1>1, <1>2
<1>4. a = b
  BY Zenon, <1>1, <1>2, <1>3, SeqEqual
<1>5. QED
  BY <1>4 DEF a, b

\* A line that reaches the fifth field is read as if the buffer had been empty: the
\* NUL at its end stops the fifth token.
LEMMA ReachesProcess ==
  ASSUME NEW buf \in Seq(Slot), NEW line \in Line, Len(line.cells) >= 5, NEW n
  PROVE  /\ Valid(Overwrite(buf, line)) <=> Valid(Overwrite(<<>>, line))
         /\ Parsed(Overwrite(buf, line), n) = Parsed(Overwrite(<<>>, line), n)
<1> DEFINE a == Overwrite(buf, line)
           b == Overwrite(<<>>, line)
           len == Len(line.cells)
<1>2. /\ len \in Nat /\ a \in Seq(Slot) /\ Len(a) \in Nat /\ Len(a) >= len
      /\ \A i \in 1 .. len : a[i] = [cell |-> line.cells[i], nul |-> i = len]
  BY OverwriteAt
<1>3. /\ b \in Seq(Slot) /\ Len(b) = len
      /\ \A i \in 1 .. len : b[i] = [cell |-> line.cells[i], nul |-> i = len]
  BY Zenon, OwnAt
<1>4. len >= 5
  OBVIOUS
<1> HIDE DEF a, b, len
<1>5. \A i \in 1 .. len : a[i] = b[i]
  BY <1>2, <1>3
<1>6. \A i \in {1, 2, 3, 4} : Field(a, i) = Field(b, i)
  BY <1>2, <1>3, <1>4, <1>5 DEF Field
<1>7. \A i \in Process(a) : i \in 5 .. len
  <2>1. SUFFICES ASSUME NEW i \in Process(a), ~(i <= len) PROVE FALSE
    BY <1>2 DEF Process
  <2>2. len \in 5 .. i - 1 /\ len \in 1 .. len
    BY <1>2, <1>4, <2>1 DEF Process
  <2>4. a[len].nul
    <3>1. ASSUME NEW k \in 1 .. len, k = len PROVE a[k].nul
      <4>1. a[k] = [cell |-> line.cells[k], nul |-> k = len]
        BY <1>2
      <4>2. a[k].nul = (k = len)
        BY <4>1
      <4>3. QED
        BY Zenon, <3>1, <4>2
    <3>2. QED
      BY Zenon, <2>2, <3>1
  <2>3. QED
    BY <2>1, <2>2, <2>4 DEF Process
<1>8. \A i \in Process(b) : i \in 5 .. len
  BY <1>3 DEF Process
<1>9. Process(a) = Process(b)
  <2>1. \A i \in 5 .. len : (\A j \in 5 .. i - 1 : ~a[j].nul) <=> (\A j \in 5 .. i - 1 : ~b[j].nul)
    <3>1. \A i \in 5 .. len : \A j \in 5 .. i - 1 : a[j] = b[j]
      BY <1>2, <1>5
    <3>2. QED
      BY <3>1
  <2>2. \A i \in 5 .. len : i \in Process(a) <=> i \in Process(b)
    <3>1. \A i \in 5 .. len : i \in 5 .. Len(a) /\ i \in 5 .. Len(b)
      BY <1>2, <1>3
    <3>2. QED
      BY Zenon, <2>1, <3>1 DEF Process
  <2>3. \A i : i \in Process(a) <=> i \in Process(b)
    BY Zenon, <1>7, <1>8, <2>2
  <2>4. QED
    BY Zenon, <2>3
<1>10. \A i \in Process(a) : a[i] = b[i]
  BY <1>2, <1>5, <1>7
<1>11. a[5] = b[5]
  BY <1>2, <1>4, <1>5
<1>12. Valid(a) <=> Valid(b)
  BY <1>6, <1>9, <1>10, <1>11 DEF Valid
<1>13. Parsed(a, n) = Parsed(b, n)
  BY <1>6 DEF Parsed
<1>14. QED
  BY <1>12, <1>13 DEF a, b

-----------------------------------------------------------------------------
(* add_entry_to_list *)

\* An entry of a line after all others is put where it keeps the list stably sorted,
\* and nothing else enters the list.
LEMMA AddEntry ==
  ASSUME NEW list \in Seq(EntryRecord), NEW entry \in EntryRecord, NEW new,
         StablySorted(list), \A i \in DOMAIN list : list[i].line < entry.line,
         add_entry_to_list(list, entry, new)
  PROVE  /\ new \in Seq(EntryRecord) /\ Len(new) = Len(list) + 1
         /\ StablySorted(new)
         /\ \A i \in DOMAIN new : new[i] = entry \/ \E j \in DOMAIN list : new[i] = list[j]
<1>1. PICK n \in 0 .. Len(list) :
        /\ \A i \in 1 .. n : list[i].order <= entry.order
        /\ n < Len(list) => list[n + 1].order > entry.order
        /\ new = [i \in 1 .. Len(list) + 1 |->
                     IF i <= n THEN list[i] ELSE IF i = n + 1 THEN entry ELSE list[i - 1]]
  BY DEF add_entry_to_list
<1>2. Len(list) \in Nat /\ DOMAIN list = 1 .. Len(list)
      /\ \A i \in 1 .. Len(list) : list[i] \in EntryRecord
  BY LenProperties, ElementOfSeq
<1>3. DOMAIN new = 1 .. Len(list) + 1
  BY <1>1
<1>4. \A i \in 1 .. Len(list) + 1 :
        /\ i <= n => i \in DOMAIN list /\ new[i] = list[i]
        /\ i = n + 1 => new[i] = entry
        /\ i > n + 1 => i - 1 \in DOMAIN list /\ i - 1 > n /\ new[i] = list[i - 1]
  BY <1>1, <1>2
<1>5. \A i \in DOMAIN new : new[i] = entry \/ \E j \in DOMAIN list : new[i] = list[j]
  <2>1. SUFFICES ASSUME NEW i \in DOMAIN new
                 PROVE  new[i] = entry \/ \E j \in DOMAIN list : new[i] = list[j]
    OBVIOUS
  <2>2. i \in Int /\ n \in Int /\ (i <= n \/ i = n + 1 \/ i > n + 1)
    BY <1>2, <1>3
  <2>3. QED
    BY <1>3, <1>4, <2>1, <2>2
<1>6. new \in [1 .. Len(list) + 1 -> EntryRecord]
  <2>1. \A i \in 1 .. Len(list) + 1 : new[i] \in EntryRecord
    BY <1>2, <1>3, <1>5
  <2>2. QED
    BY <1>1, <2>1
<1>7. new \in Seq(EntryRecord) /\ Len(new) = Len(list) + 1
  BY <1>2, <1>3, <1>6, SeqDef
\* The entries after the place have a greater order, because the first of them has.
<1>8. \A j \in DOMAIN list : j > n => list[j].order > entry.order
  <2>1. SUFFICES ASSUME NEW j \in DOMAIN list, j > n PROVE list[j].order > entry.order
    OBVIOUS
  <2>2. n + 1 \in DOMAIN list /\ list[n + 1].order > entry.order /\ n + 1 <= j
    BY <1>1, <1>2, <2>1
  <2>3. list[n + 1].order \in Int /\ list[j].order \in Int /\ entry.order \in Int
    BY <1>2, <2>1, <2>2 DEF EntryRecord
  <2>4. list[n + 1].order <= list[j].order
    <3>1. CASE n + 1 = j
      BY <2>3, <3>1
    <3>2. CASE n + 1 < j
      BY <2>1, <2>2, <2>3, <3>2 DEF StablySorted
    <3>3. QED
      BY <1>2, <2>2, <3>1, <3>2
  <2>5. QED
    BY <2>2, <2>3, <2>4
<1>9. StablySorted(new)
  <2>1. SUFFICES ASSUME NEW i \in DOMAIN new, NEW j \in DOMAIN new, i < j
                 PROVE  \/ new[i].order < new[j].order
                        \/ new[i].order = new[j].order /\ new[i].line < new[j].line
    BY DEF StablySorted
  <2>2. i \in 1 .. Len(list) + 1 /\ j \in 1 .. Len(list) + 1 /\ n \in Int
    BY <1>2, <1>3
  <2>3. CASE j <= n
    <3>1. i \in DOMAIN list /\ j \in DOMAIN list /\ new[i] = list[i] /\ new[j] = list[j]
      BY <1>4, <2>1, <2>2, <2>3
    <3>2. QED
      BY <2>1, <3>1 DEF StablySorted
  <2>4. CASE j = n + 1
    <3>1. i \in DOMAIN list /\ i \in 1 .. n /\ new[i] = list[i] /\ new[j] = entry
      BY <1>4, <2>1, <2>2, <2>4
    <3>2. list[i].order <= entry.order /\ list[i].line < entry.line
      BY <1>1, <3>1
    <3>3. list[i].order \in Int /\ entry.order \in Int
      BY <1>2, <3>1 DEF EntryRecord
    <3>4. QED
      BY <3>1, <3>2, <3>3
  <2>5. CASE j > n + 1 /\ i <= n
    <3>1. i \in DOMAIN list /\ j - 1 \in DOMAIN list /\ i < j - 1
          /\ new[i] = list[i] /\ new[j] = list[j - 1]
      BY <1>4, <2>1, <2>2, <2>5
    <3>2. QED
      BY <3>1 DEF StablySorted
  <2>6. CASE j > n + 1 /\ i = n + 1
    <3>1. j - 1 \in DOMAIN list /\ j - 1 > n /\ new[i] = entry /\ new[j] = list[j - 1]
      BY <1>4, <2>2, <2>6
    <3>2. list[j - 1].order \in Int /\ entry.order \in Int /\ list[j - 1].order > entry.order
      BY <1>2, <1>8, <3>1 DEF EntryRecord
    <3>3. QED
      BY <3>1, <3>2
  <2>7. CASE j > n + 1 /\ i > n + 1
    <3>1. i - 1 \in DOMAIN list /\ j - 1 \in DOMAIN list /\ i - 1 < j - 1
          /\ new[i] = list[i - 1] /\ new[j] = list[j - 1]
      BY <1>4, <2>1, <2>2, <2>7
    <3>2. QED
      BY <3>1 DEF StablySorted
  <2>8. QED
    BY <2>2, <2>3, <2>4, <2>5, <2>6, <2>7
<1>10. QED
  BY <1>5, <1>7, <1>9

-----------------------------------------------------------------------------
(* The steps of read_inittab *)

\* The lines of a list are numbers.
LEMMA LineNumbers ==
  ASSUME NEW list \in Seq(EntryRecord)
  PROVE  \A i \in DOMAIN list : list[i].line \in Nat
<1>1. DOMAIN list = 1 .. Len(list)
  BY LenProperties
<1>2. \A i \in DOMAIN list : list[i] \in EntryRecord
  BY <1>1, ElementOfSeq
<1>3. QED
  BY <1>2 DEF EntryRecord

\* A list that grew by the entry of the line just read.
LEMMA Placed ==
  ASSUME NEW list \in Seq(EntryRecord), NEW entry \in EntryRecord, NEW new,
         pos \in Nat, pos' = pos + 1, entry.line = pos,
         StablySorted(list), ReadBefore(list),
         add_entry_to_list(list, entry, new)
  PROVE  /\ new \in Seq(EntryRecord) /\ Len(new) = Len(list) + 1 /\ StablySorted(new)
         /\ \A i \in DOMAIN new : new[i].line < pos'
         /\ \A i \in DOMAIN new : new[i] = entry \/ \E j \in DOMAIN list : new[i] = list[j]
<1>1. /\ new \in Seq(EntryRecord) /\ Len(new) = Len(list) + 1 /\ StablySorted(new)
      /\ \A i \in DOMAIN new : new[i] = entry \/ \E j \in DOMAIN list : new[i] = list[j]
  BY AddEntry DEF ReadBefore
<1>2. \A j \in DOMAIN list : list[j].line < pos /\ list[j].line \in Nat
  BY LineNumbers DEF ReadBefore
<1>3. \A i \in DOMAIN new : new[i].line < pos'
  <2>1. SUFFICES ASSUME NEW i \in DOMAIN new PROVE new[i].line < pos'
    OBVIOUS
  <2>2. CASE new[i] = entry
    BY <2>2
  <2>3. ASSUME NEW j \in DOMAIN list, new[i] = list[j] PROVE new[i].line < pos'
    BY <1>2, <2>3
  <2>4. QED
    BY <1>1, <2>2, <2>3
<1>4. QED
  BY <1>1, <1>3

\* Lists that stay as they are, while lines are read, stay good.
LEMMA ListsQuiet ==
  ASSUME InittabInv, UNCHANGED lists, pos' = pos \/ pos' = pos + 1
  PROVE  ListsSorted' /\ ReadBefore(startup_list)' /\ ReadBefore(shutdown_list)'
<1>1. ListsSorted'
  BY DEF InittabInv, ListsSorted, StablySorted, lists
<1>2. pos \in Nat /\ startup_list \in Seq(EntryRecord) /\ shutdown_list \in Seq(EntryRecord)
  BY DEF InittabInv, TypeOK
<1>3. \A i \in DOMAIN startup_list : startup_list[i].line < pos'
  BY <1>2, LineNumbers DEF InittabInv, ReadBefore
<1>4. \A i \in DOMAIN shutdown_list : shutdown_list[i].line < pos'
  BY <1>2, LineNumbers DEF InittabInv, ReadBefore
<1>5. QED
  BY <1>1, <1>3, <1>4 DEF ReadBefore, lists

\* An entry is placed: one of the three lists grows, the others stay as they are.
LEMMA ReadStep ==
  ASSUME InittabInv, EntryRead
  PROVE  InittabInv'
<1> DEFINE entry == Parsed(Filled, pos)
<1>1. Filled \in Seq(Slot) /\ pos \in Nat /\ pos' = pos + 1 /\ feof' \in BOOLEAN
  BY FilledType DEF InittabInv, EntryRead, NextLine
<1>2. entry.line = pos /\ entry.type = Field(Filled, 3).type
  BY DEF Parsed
<1>3. entry \in EntryRecord
  <2>1. entry.type # "none"
    BY DEF EntryRead, place_entry, is_startup_entry, is_shutdown_entry
  <2>2. QED
    BY <1>1, <1>2, <2>1, ParsedType DEF EntryRead
<1>4. buffer' \in Seq(Slot) /\ pc' = "loop" /\ UNCHANGED <<file, io, error, result>>
  BY <1>1 DEF EntryRead
<1>5. /\ startup_list \in Seq(EntryRecord) /\ shutdown_list \in Seq(EntryRecord)
      /\ safe_mode_entry \in Seq(EntryRecord)
      /\ StablySorted(startup_list) /\ StablySorted(shutdown_list)
  BY DEF InittabInv, TypeOK, ListsSorted
<1> HIDE DEF entry
<1>6. pos' \in Nat \ {0} /\ file \in Files /\ io \subseteq IoFaults
      /\ error \in BOOLEAN /\ result \in BOOLEAN
  BY <1>1 DEF InittabInv, TypeOK
<1>7. CASE /\ is_startup_entry(entry) /\ add_entry_to_list(startup_list, entry, startup_list')
           /\ UNCHANGED <<shutdown_list, safe_mode_entry>>
  <2>1. /\ startup_list' \in Seq(EntryRecord) /\ StablySorted(startup_list')
        /\ \A i \in DOMAIN startup_list' : startup_list'[i].line < pos'
        /\ \A i \in DOMAIN startup_list' :
              startup_list'[i] = entry \/ \E j \in DOMAIN startup_list : startup_list'[i] = startup_list[j]
    BY <1>1, <1>2, <1>3, <1>5, <1>7, Placed DEF InittabInv
  <2>2. \A i \in DOMAIN startup_list' : is_startup_entry(startup_list'[i])
    BY <1>7, <2>1 DEF InittabInv
  <2>3. TypeOK' /\ ListsSorted'
    BY <1>1, <1>4, <1>5, <1>6, <1>7, <2>1 DEF TypeOK, ListsSorted, StablySorted, Slot
  <2>4. \A i \in DOMAIN shutdown_list : shutdown_list[i].line < pos'
    BY <1>1, <1>5, LineNumbers DEF InittabInv, ReadBefore
  <2>5. QED
    BY <1>4, <1>7, <2>1, <2>2, <2>3, <2>4 DEF InittabInv, ReadBefore
<1>8. CASE /\ is_shutdown_entry(entry) /\ add_entry_to_list(shutdown_list, entry, shutdown_list')
           /\ UNCHANGED <<startup_list, safe_mode_entry>>
  <2>1. /\ shutdown_list' \in Seq(EntryRecord) /\ StablySorted(shutdown_list')
        /\ \A i \in DOMAIN shutdown_list' : shutdown_list'[i].line < pos'
        /\ \A i \in DOMAIN shutdown_list' :
              shutdown_list'[i] = entry \/ \E j \in DOMAIN shutdown_list : shutdown_list'[i] = shutdown_list[j]
    BY <1>1, <1>2, <1>3, <1>5, <1>8, Placed DEF InittabInv
  <2>2. \A i \in DOMAIN shutdown_list' : is_shutdown_entry(shutdown_list'[i])
    BY <1>8, <2>1 DEF InittabInv
  <2>3. TypeOK' /\ ListsSorted'
    BY <1>1, <1>4, <1>5, <1>6, <1>8, <2>1 DEF TypeOK, ListsSorted, StablySorted, Slot
  <2>4. \A i \in DOMAIN startup_list : startup_list[i].line < pos'
    BY <1>1, <1>5, LineNumbers DEF InittabInv, ReadBefore
  <2>5. QED
    BY <1>4, <1>8, <2>1, <2>2, <2>3, <2>4 DEF InittabInv, ReadBefore
<1>9. CASE /\ entry.type = "SAFE_MODE" /\ safe_mode_entry = <<>>
           /\ add_entry_to_list(safe_mode_entry, entry, safe_mode_entry')
           /\ UNCHANGED <<startup_list, shutdown_list>>
  <2>1. safe_mode_entry' = [i \in 1 .. 1 |-> entry]
    BY <1>9 DEF add_entry_to_list
  <2>2. safe_mode_entry' \in Seq(EntryRecord) /\ Len(safe_mode_entry') = 1
        /\ safe_mode_entry'[1].type = "SAFE_MODE"
    BY <1>3, <1>9, <2>1
  <2>3. TypeOK' /\ ListsSorted'
    BY <1>1, <1>4, <1>5, <1>6, <1>9, <2>2 DEF TypeOK, ListsSorted, StablySorted, Slot
  <2>4. /\ \A i \in DOMAIN startup_list : startup_list[i].line < pos'
        /\ \A i \in DOMAIN shutdown_list : shutdown_list[i].line < pos'
    BY <1>1, <1>5, LineNumbers DEF InittabInv, ReadBefore
  <2>5. QED
    BY <1>4, <1>9, <2>2, <2>3, <2>4 DEF InittabInv, ReadBefore
<1>10. QED
  BY <1>7, <1>8, <1>9 DEF EntryRead, place_entry, entry

\* No other step adds an entry to a list.
LEMMA InittabStep == InittabInv /\ [Next]_vars => InittabInv'
<1> SUFFICES ASSUME InittabInv, [Next]_vars PROVE InittabInv'
  OBVIOUS
<1>1. CASE UNCHANGED lists /\ (pos' = pos \/ pos' = pos + 1) /\ TypeOK'
           /\ (pc' = "done" /\ result' => pc = "done" /\ result)
  BY <1>1, ListsQuiet DEF InittabInv, lists
<1>2. CASE Open \/ OpenFails \/ AllocFails \/ AlreadyAtEnd \/ ReadFails \/ EndOfFile
  BY ZenonT(60), <1>1, <1>2 DEF Open, OpenFails, AllocFails, AlreadyAtEnd, ReadFails, EndOfFile,
     InittabInv, TypeOK, lists
<1>3. CASE StartEntry
  BY <1>1, <1>3 DEF StartEntry, InittabInv, TypeOK, lists
<1>4. CASE SkipLine \/ EntryRefused \/ BadLine
  <2>1. Filled \in Seq(Slot) /\ pos' = pos + 1 /\ buffer' = Filled
    BY <1>4, FilledType DEF SkipLine, EntryRefused, BadLine, InittabInv, NextLine
  <2>2. UNCHANGED <<file, io, lists, result>> /\ pc' \in {"line", "check", "loop"}
        /\ (error' = error \/ error' = TRUE) /\ (feof' = feof \/ feof' \in BOOLEAN)
    BY Zenon, <1>4 DEF SkipLine, EntryRefused, BadLine, NextLine, LineLeft
  <2>3. pos' \in Nat \ {0}
    BY <2>1 DEF InittabInv, TypeOK
  <2>4. feof' \in BOOLEAN /\ error' \in BOOLEAN
    BY <2>2, Zenon DEF InittabInv, TypeOK
  <2>5. TypeOK'
    BY <2>1, <2>2, <2>3, <2>4 DEF InittabInv, TypeOK, lists, Slot
  <2>6. QED
    BY <1>1, <2>1, <2>2, <2>5
<1>5. CASE EntryRead
  BY <1>5, ReadStep
<1>6. CASE Check
  <2>1. error' \in BOOLEAN /\ result' \in BOOLEAN
    BY <1>6 DEF Check
  <2>2. pc' = "done" /\ UNCHANGED <<file, io, pos, feof, buffer>> /\ result' = ~error'
    BY <1>6 DEF Check
  <2>3. CASE error'
    <3>1. startup_list' = <<>> /\ shutdown_list' = <<>> /\ safe_mode_entry' = <<>>
      BY <1>6, <2>3 DEF Check
    <3>2. TypeOK'
      BY <2>1, <2>2, <3>1 DEF InittabInv, TypeOK
    <3>3. /\ ListsSorted' /\ ReadBefore(startup_list)' /\ ReadBefore(shutdown_list)'
          /\ \A i \in DOMAIN startup_list' : is_startup_entry(startup_list'[i])
          /\ \A i \in DOMAIN shutdown_list' : is_shutdown_entry(shutdown_list'[i])
      BY <3>1 DEF ListsSorted, StablySorted, ReadBefore
    <3>4. QED
      BY Zenon, <2>2, <2>3, <3>1, <3>2, <3>3 DEF InittabInv
  <2>4. CASE ~error'
    <3>1. safe_mode_entry # <<>> /\ UNCHANGED lists
      BY Zenon, <1>6, <2>4 DEF Check
    <3>2. TypeOK'
      BY <2>1, <2>2, <3>1 DEF InittabInv, TypeOK, lists
    <3>3. QED
      BY <2>2, <3>1, <3>2, ListsQuiet DEF InittabInv, lists
  <2>5. QED
    BY <2>3, <2>4
<1>7. CASE Returned \/ UNCHANGED vars
  BY <1>1, <1>7 DEF Returned, vars, InittabInv, TypeOK, lists
<1>8. QED
  BY <1>2, <1>3, <1>4, <1>5, <1>6, <1>7 DEF Next

\* The invariant holds when the reading begins.
LEMMA InittabInit == Init => InittabInv
<1> SUFFICES ASSUME Init PROVE InittabInv
  OBVIOUS
<1>1. io \subseteq IoFaults
  BY DEF Init
<1>2. TypeOK
  <2>1. <<>> \in Seq(Slot) /\ <<>> \in Seq(EntryRecord)
    BY EmptySeq
  <2>2. feof \in BOOLEAN /\ error \in BOOLEAN /\ result \in BOOLEAN
    BY Zenon DEF Init
  <2>3. pos \in Nat \ {0} /\ pc = "open" /\ file \in Files
    BY DEF Init
  <2>4. QED
    BY <1>1, <2>1, <2>2, <2>3, Zenon DEF Init, TypeOK, Slot
<1>3. startup_list = <<>> /\ shutdown_list = <<>> /\ safe_mode_entry = <<>> /\ pc = "open"
  BY DEF Init
<1>4. ListsSorted /\ ReadBefore(startup_list) /\ ReadBefore(shutdown_list)
  BY <1>3 DEF ListsSorted, StablySorted, ReadBefore
<1>5. QED
  BY <1>2, <1>3, <1>4 DEF InittabInv

-----------------------------------------------------------------------------
(* What the lists hold *)

\* The lines of the file.
LEMMA LinesType ==
  ASSUME TypeOK
  PROVE  /\ file.lines \in Seq(Line) /\ Len(file.lines) \in Nat
         /\ DOMAIN file.lines = 1 .. Len(file.lines)
         /\ pos \in Nat \ {0} /\ buffer \in Seq(Slot)
         /\ \A n \in 1 .. Len(file.lines) : file.lines[n] \in Line
<1>1. file \in File
  BY InittabAssumption DEF TypeOK
<1>2. file.lines \in Seq(Line)
  BY <1>1 DEF File
<1>3. QED
  BY <1>2, ElementOfSeq DEF TypeOK, Slot

\* As long as the file is the same, so is what its lines say.
LEMMA SameFile ==
  ASSUME file' = file
  PROVE  /\ CommentsHarmless' <=> CommentsHarmless
         /\ WellFormed' <=> WellFormed
         /\ \A n : Own(n)' = Own(n) /\ (HoldsEntry(n)' <=> HoldsEntry(n))
<1>1. CommentsHarmless' <=> CommentsHarmless
  BY DEF CommentsHarmless
<1>2. \A n : Own(n)' = Own(n) /\ (HoldsEntry(n)' <=> HoldsEntry(n))
  BY Zenon DEF Own, HoldsEntry
<1>3. WellFormed' <=> WellFormed
  BY DEF WellFormed, Own, HoldsEntry
<1>4. QED
  BY Zenon, <1>1, <1>2, <1>3

\* A line whose entry the buffer holds is read as its own.
LEMMA SameEntry ==
  ASSUME AcceptInv, CommentsHarmless, LineLeft({"entry"})
  PROVE  /\ Valid(Filled) <=> Valid(Own(pos))
         /\ Parsed(Filled, pos) = Parsed(Own(pos), pos)
<1>1. /\ file.lines \in Seq(Line) /\ Len(file.lines) \in Nat
      /\ DOMAIN file.lines = 1 .. Len(file.lines)
      /\ pos \in Nat \ {0} /\ buffer \in Seq(Slot)
      /\ \A n \in 1 .. Len(file.lines) : file.lines[n] \in Line
  BY LinesType DEF AcceptInv, InittabInv
<1>2. /\ pc = "line" /\ pos \in 1 .. Len(file.lines) /\ file.lines[pos].kind = "entry"
      /\ file.lines[pos] \in Line
  BY <1>1 DEF LineLeft
<1>3. CASE buffer = <<>>
  BY Zenon, <1>3 DEF Filled, Own
<1>4. CASE buffer # <<>>
  <2>1. PICK m \in 1 .. pos - 1 :
          /\ Len(buffer) <= Len(file.lines[m].cells)
          /\ \A k \in m .. pos - 1 : file.lines[k].kind = "skip"
    BY <1>2, <1>4 DEF AcceptInv, BufferFromSkipped
  <2>2. m \in DOMAIN file.lines /\ m < pos /\ file.lines[m] \in Line
    BY <1>1, <1>2
  <2>3. \/ Len(file.lines[pos].cells) >= 5
        \/ Len(file.lines[m].cells) <= Len(file.lines[pos].cells)
    BY <1>1, <1>2, <2>1, <2>2 DEF CommentsHarmless
  <2>4. CASE Len(file.lines[pos].cells) >= 5
    BY <1>1, <1>2, <2>4, ReachesProcess DEF Filled, Own
  <2>5. CASE Len(file.lines[m].cells) <= Len(file.lines[pos].cells)
    <3>1. Len(file.lines[m].cells) \in Nat /\ Len(file.lines[pos].cells) \in Nat
      BY Zenon, <1>1, <1>2, <2>2, OverwriteAt
    <3>2. Len(buffer) \in Nat
      BY <1>1
    <3>3. Len(buffer) <= Len(file.lines[pos].cells)
      BY <2>1, <2>5, <3>1, <3>2
    <3>4. Filled = Own(pos)
      BY Zenon, <1>1, <1>2, <3>3, Covered DEF Filled, Own
    <3>5. QED
      BY Zenon, <3>4
  <2>6. QED
    BY <2>3, <2>4, <2>5
<1>5. QED
  BY <1>3, <1>4

\* add_entry_to_list adds the entry and loses none.
LEMMA MembersAdd ==
  ASSUME NEW list \in Seq(EntryRecord), NEW entry, NEW new,
         add_entry_to_list(list, entry, new)
  PROVE  Members(new) = Members(list) \cup {entry}
<1>1. PICK n \in 0 .. Len(list) :
        new = [i \in 1 .. Len(list) + 1 |->
                  IF i <= n THEN list[i] ELSE IF i = n + 1 THEN entry ELSE list[i - 1]]
  BY DEF add_entry_to_list
<1>2. Len(list) \in Nat /\ DOMAIN list = 1 .. Len(list) /\ DOMAIN new = 1 .. Len(list) + 1
  BY <1>1
<1>3. \A i \in DOMAIN new : new[i] \in Members(list) \cup {entry}
  BY <1>1, <1>2 DEF Members
<1>4. entry \in Members(new)
  <2>1. n + 1 \in DOMAIN new /\ new[n + 1] = entry
    BY <1>1, <1>2
  <2>2. QED
    BY <2>1 DEF Members
<1>5. \A j \in DOMAIN list : list[j] \in Members(new)
  <2>1. SUFFICES ASSUME NEW j \in DOMAIN list PROVE list[j] \in Members(new)
    OBVIOUS
  <2>2. CASE j <= n
    <3>1. j \in DOMAIN new /\ new[j] = list[j]
      BY <1>1, <1>2, <2>2
    <3>2. QED
      BY <3>1 DEF Members
  <2>3. CASE j > n
    <3>1. j + 1 \in DOMAIN new /\ new[j + 1] = list[j]
      BY <1>1, <1>2, <2>3
    <3>2. QED
      BY <3>1 DEF Members
  <2>4. QED
    BY <1>2, <2>2, <2>3
<1>6. \A x \in Members(new) : x \in Members(list) \cup {entry}
  BY Zenon, <1>3 DEF Members
<1>7. \A x \in Members(list) : x \in Members(new)
  BY Zenon, <1>5 DEF Members
<1>8. QED
  BY <1>4, <1>6, <1>7

\* Reading a line that holds no entry of a type adds none of that type.
LEMMA NothingRead ==
  ASSUME TypeOK, NEW K, file' = file, pos' = pos + 1,
         ~(HoldsEntry(pos) /\ Parsed(Own(pos), pos).type \in K)
  PROVE  EntriesOf(K)' = EntriesOf(K)
<1>1. pos \in Nat \ {0} /\ Len(file.lines) \in Nat
  BY LinesType
<1>2. \A m : Own(m)' = Own(m) /\ (HoldsEntry(m)' <=> HoldsEntry(m))
  BY SameFile
<1> DEFINE holds(m) == m <= Len(file.lines) /\ HoldsEntry(m) /\ Parsed(Own(m), m).type \in K
<1>3. EntriesOf(K) = {Parsed(Own(n), n) : n \in {m \in 1 .. pos - 1 : holds(m)}}
  BY Zenon DEF EntriesOf
<1>4. EntriesOf(K)' = {Parsed(Own(n), n) : n \in {m \in 1 .. pos' - 1 : holds(m)}}
  BY Zenon, <1>2 DEF EntriesOf
<1>5. ~holds(pos)
  OBVIOUS
<1> HIDE DEF holds
<1>6. {m \in 1 .. pos' - 1 : holds(m)} = {m \in 1 .. pos - 1 : holds(m)}
  BY <1>1, <1>5
<1>7. QED
  BY Zenon, <1>3, <1>4, <1>6

\* Reading a line that holds one adds it.
LEMMA EntryAdded ==
  ASSUME TypeOK, NEW K, file' = file, pos' = pos + 1, pos <= Len(file.lines),
         HoldsEntry(pos), Parsed(Own(pos), pos).type \in K
  PROVE  EntriesOf(K)' = EntriesOf(K) \cup {Parsed(Own(pos), pos)}
<1>1. pos \in Nat \ {0} /\ Len(file.lines) \in Nat
  BY LinesType
<1>2. \A m : Own(m)' = Own(m) /\ (HoldsEntry(m)' <=> HoldsEntry(m))
  BY SameFile
<1> DEFINE holds(m) == m <= Len(file.lines) /\ HoldsEntry(m) /\ Parsed(Own(m), m).type \in K
           entry(m) == Parsed(Own(m), m)
<1>3. EntriesOf(K) = {entry(n) : n \in {m \in 1 .. pos - 1 : holds(m)}}
  BY Zenon DEF EntriesOf
<1>4. EntriesOf(K)' = {entry(n) : n \in {m \in 1 .. pos' - 1 : holds(m)}}
  BY Zenon, <1>2 DEF EntriesOf
<1>5. holds(pos)
  OBVIOUS
<1>8. SUFFICES EntriesOf(K)' = EntriesOf(K) \cup {entry(pos)}
  OBVIOUS
<1> HIDE DEF holds, entry
<1>6. {m \in 1 .. pos' - 1 : holds(m)} = {m \in 1 .. pos - 1 : holds(m)} \cup {pos}
  BY <1>1, <1>5
<1>7. QED
  BY <1>3, <1>4, <1>6

-----------------------------------------------------------------------------
(* The steps of read_inittab, and what has been read *)

\* What was read so far does not change in a step that reads no line.
LEMMA ReadQuiet ==
  ASSUME file' = file, pos' = pos, UNCHANGED lists
  PROVE  (Collected' <=> Collected) /\ (AllHold' <=> AllHold)
<1>1. \A n : Own(n)' = Own(n) /\ (HoldsEntry(n)' <=> HoldsEntry(n))
  BY SameFile
<1>2. \A K : EntriesOf(K)' = EntriesOf(K)
  BY Zenon, <1>1 DEF EntriesOf
<1>3. AllHold' <=> AllHold
  BY <1>1 DEF AllHold
<1>4. /\ Members(startup_list)' = Members(startup_list)
      /\ Members(shutdown_list)' = Members(shutdown_list)
      /\ Members(safe_mode_entry)' = Members(safe_mode_entry)
  BY Zenon DEF Members, lists
<1>5. Collected' <=> Collected
  BY Zenon, <1>2, <1>4 DEF Collected
<1>6. QED
  BY <1>3, <1>5

\* A line that holds no entry, read without an error or with one.
LEMMA LineRead ==
  ASSUME AcceptInv, file' = file, pos' = pos + 1, pos <= Len(file.lines)
  PROVE  /\ UNCHANGED lists /\ ~HoldsEntry(pos) /\ Collected => Collected'
         /\ AllHold /\ (file.lines[pos].kind # "skip" => HoldsEntry(pos)) => AllHold'
<1>1. TypeOK /\ pos \in Nat \ {0}
  BY LinesType DEF AcceptInv, InittabInv
<1>2. \A n : Own(n)' = Own(n) /\ (HoldsEntry(n)' <=> HoldsEntry(n))
  BY SameFile
<1>3. ~HoldsEntry(pos) => \A K : EntriesOf(K)' = EntriesOf(K)
  BY Zenon, <1>1, NothingRead
<1>4. UNCHANGED lists /\ ~HoldsEntry(pos) /\ Collected => Collected'
  BY Zenon, <1>3 DEF Collected, Members, lists
<1>5. AllHold /\ (file.lines[pos].kind # "skip" => HoldsEntry(pos)) => AllHold'
  <2>1. SUFFICES ASSUME AllHold, file.lines[pos].kind # "skip" => HoldsEntry(pos),
                        NEW n \in 1 .. pos' - 1, file.lines[n].kind # "skip"
                 PROVE  HoldsEntry(n)
    BY <1>2 DEF AllHold
  <2>2. n = pos \/ n \in 1 .. pos - 1
    BY <1>1
  <2>3. QED
    BY <2>1, <2>2 DEF AllHold
<1>6. QED
  BY <1>4, <1>5

\* The buffer is one line of a run of skipped lines, or empty.
LEMMA SkipBuffer ==
  ASSUME AcceptInv, SkipLine
  PROVE  BufferFromSkipped'
<1>1. /\ file.lines \in Seq(Line) /\ Len(file.lines) \in Nat
      /\ pos \in Nat \ {0} /\ buffer \in Seq(Slot)
      /\ \A n \in 1 .. Len(file.lines) : file.lines[n] \in Line
  BY LinesType DEF AcceptInv, InittabInv
<1>2. /\ pc = "line" /\ pos \in 1 .. Len(file.lines) /\ file.lines[pos].kind = "skip"
      /\ file.lines[pos] \in Line
      /\ buffer' = Filled /\ pos' = pos + 1 /\ file' = file
  BY <1>1 DEF LineLeft, SkipLine
<1> DEFINE len(n) == Len(file.lines[n].cells)
<1>3. len(pos) \in Nat /\ Len(buffer) \in Nat
      /\ Len(buffer') = IF len(pos) > Len(buffer) THEN len(pos) ELSE Len(buffer)
  <2>1. len(pos) \in Nat
        /\ Len(Filled) = IF len(pos) > Len(buffer) THEN len(pos) ELSE Len(buffer)
    BY Zenon, <1>1, <1>2, OverwriteAt DEF Filled
  <2>2. QED
    BY <1>1, <1>2, <2>1
<1>4. SUFFICES \E m \in 1 .. pos : /\ Len(buffer') <= len(m)
                                  /\ \A k \in m .. pos : file.lines[k].kind = "skip"
  BY <1>1, <1>2 DEF BufferFromSkipped
<1>5. \A k \in pos .. pos : file.lines[k].kind = "skip"
  BY <1>1, <1>2
<1>6. CASE Len(buffer') <= len(pos)
  BY <1>1, <1>5, <1>6
<1>7. CASE ~(Len(buffer') <= len(pos))
  <2>1. Len(buffer') = Len(buffer) /\ Len(buffer) # 0
    BY <1>3, <1>7
  <2>2. buffer # <<>>
    BY <2>1, EmptySeq
  <2>3. PICK m \in 1 .. pos - 1 : /\ Len(buffer) <= len(m)
                                  /\ \A k \in m .. pos - 1 : file.lines[k].kind = "skip"
    BY <1>2, <2>2 DEF AcceptInv, BufferFromSkipped
  <2>4. m \in 1 .. pos /\ \A k \in m .. pos : file.lines[k].kind = "skip"
    BY <1>1, <1>2, <2>3
  <2>5. QED
    BY <2>1, <2>3, <2>4
<1>8. QED
  BY <1>6, <1>7

\* An entry is read and placed: it is in its list, and in no other.
LEMMA ReadCollects ==
  ASSUME AcceptInv, CommentsHarmless, EntryRead, Collected
  PROVE  Collected' /\ HoldsEntry(pos)
<1> DEFINE entry == Parsed(Own(pos), pos)
<1>1. /\ LineLeft({"entry"}) /\ pos' = pos + 1 /\ file' = file /\ Valid(Filled)
      /\ place_entry(Parsed(Filled, pos))
  BY DEF EntryRead, NextLine
<1>2. HoldsEntry(pos) /\ Parsed(Filled, pos) = entry
  BY Zenon, <1>1, SameEntry DEF HoldsEntry, LineLeft
<1>3. TypeOK /\ pos <= Len(file.lines)
  BY <1>1 DEF AcceptInv, InittabInv, LineLeft
<1>4. place_entry(entry)
  BY Zenon, <1>1, <1>2
<1>5. /\ startup_list \in Seq(EntryRecord) /\ shutdown_list \in Seq(EntryRecord)
      /\ safe_mode_entry \in Seq(EntryRecord)
  BY <1>3 DEF TypeOK
<1>6. ASSUME NEW K, entry.type \in K PROVE EntriesOf(K)' = EntriesOf(K) \cup {entry}
  BY Zenon, <1>1, <1>2, <1>3, <1>6, EntryAdded
<1>7. ASSUME NEW K, entry.type \notin K PROVE EntriesOf(K)' = EntriesOf(K)
  BY Zenon, <1>1, <1>3, <1>7, NothingRead
<1>8. /\ Members(startup_list) = EntriesOf(StartupTypes)
      /\ Members(shutdown_list) = EntriesOf(ShutdownTypes)
      /\ Members(safe_mode_entry) = EntriesOf({"SAFE_MODE"})
  BY DEF Collected
<1>14. Collected' <=> /\ Members(startup_list') = EntriesOf(StartupTypes)'
                      /\ Members(shutdown_list') = EntriesOf(ShutdownTypes)'
                      /\ Members(safe_mode_entry') = EntriesOf({"SAFE_MODE"})'
  BY Zenon DEF Collected, Members
<1> HIDE DEF entry
<1>9. CASE /\ is_startup_entry(entry)
           /\ add_entry_to_list(startup_list, entry, startup_list')
           /\ UNCHANGED <<shutdown_list, safe_mode_entry>>
  <2>1. entry.type \in StartupTypes /\ entry.type \notin ShutdownTypes
        /\ entry.type \notin {"SAFE_MODE"}
    BY <1>9 DEF is_startup_entry, StartupTypes, ShutdownTypes
  <2>2. Members(startup_list') = Members(startup_list) \cup {entry}
    BY Zenon, <1>5, <1>9, MembersAdd
  <2>3. QED
    BY Zenon, <1>2, <1>6, <1>7, <1>8, <1>9, <1>14, <2>1, <2>2
<1>10. CASE /\ is_shutdown_entry(entry)
            /\ add_entry_to_list(shutdown_list, entry, shutdown_list')
            /\ UNCHANGED <<startup_list, safe_mode_entry>>
  <2>1. entry.type \notin StartupTypes /\ entry.type \in ShutdownTypes
        /\ entry.type \notin {"SAFE_MODE"}
    BY <1>10 DEF is_shutdown_entry, StartupTypes, ShutdownTypes
  <2>2. Members(shutdown_list') = Members(shutdown_list) \cup {entry}
    BY Zenon, <1>5, <1>10, MembersAdd
  <2>3. QED
    BY Zenon, <1>2, <1>6, <1>7, <1>8, <1>10, <1>14, <2>1, <2>2
<1>11. CASE /\ entry.type = "SAFE_MODE" /\ safe_mode_entry = <<>>
            /\ add_entry_to_list(safe_mode_entry, entry, safe_mode_entry')
            /\ UNCHANGED <<startup_list, shutdown_list>>
  <2>1. entry.type \notin StartupTypes /\ entry.type \notin ShutdownTypes
        /\ entry.type \in {"SAFE_MODE"}
    BY <1>11 DEF StartupTypes, ShutdownTypes
  <2>2. Members(safe_mode_entry') = Members(safe_mode_entry) \cup {entry}
    BY Zenon, <1>5, <1>11, MembersAdd
  <2>3. QED
    BY Zenon, <1>2, <1>6, <1>7, <1>8, <1>11, <1>14, <2>1, <2>2
<1>12. QED
  BY <1>4, <1>9, <1>10, <1>11 DEF place_entry

\* What a well-formed file has on the line being read, and one safe-mode entry only.
LEMMA WellFormedLine ==
  ASSUME AcceptInv, WellFormed, LineLeft({"too_big", "entry"})
  PROVE  /\ HoldsEntry(pos)
         /\ CommentsHarmless /\ Collected => ~SecondSafeMode(Parsed(Own(pos), pos))
<1>1. /\ Len(file.lines) \in Nat /\ DOMAIN file.lines = 1 .. Len(file.lines)
      /\ pos \in Nat \ {0}
  BY LinesType DEF AcceptInv, InittabInv
<1>2. pos \in DOMAIN file.lines /\ file.lines[pos].kind # "skip"
  BY <1>1 DEF LineLeft
<1>3. HoldsEntry(pos)
  BY <1>2 DEF WellFormed
<1>4. ASSUME CommentsHarmless, Collected, SecondSafeMode(Parsed(Own(pos), pos)) PROVE FALSE
  <2>1. Parsed(Own(pos), pos).type = "SAFE_MODE" /\ Len(safe_mode_entry) = 1
    BY <1>4 DEF SecondSafeMode, AcceptInv, InittabInv
  <2>2. safe_mode_entry[1] \in Members(safe_mode_entry)
    <3>1. safe_mode_entry \in Seq(EntryRecord)
      BY DEF AcceptInv, InittabInv, TypeOK
    <3>2. 1 \in DOMAIN safe_mode_entry
      BY <2>1, <3>1
    <3>3. QED
      BY Zenon, <3>2 DEF Members
  <2>3. PICK m \in 1 .. pos - 1 : /\ m <= Len(file.lines) /\ HoldsEntry(m)
                                 /\ Parsed(Own(m), m).type = "SAFE_MODE"
    BY <1>4, <2>2 DEF Collected, EntriesOf
  <2>4. m \in DOMAIN file.lines /\ m # pos /\ file.lines[m].kind # "skip"
    BY <1>1, <2>3 DEF HoldsEntry
  <2>5. QED
    BY <1>2, <2>1, <2>3, <2>4 DEF WellFormed
<1>5. QED
  BY <1>3, <1>4

\* At the end of a well-formed file the safe-mode entry has been found.
LEMMA SafeModeFound ==
  ASSUME AcceptInv, WellFormed, Collected, pos > Len(file.lines)
  PROVE  safe_mode_entry # <<>>
<1>1. /\ Len(file.lines) \in Nat /\ DOMAIN file.lines = 1 .. Len(file.lines)
      /\ pos \in Nat \ {0}
  BY LinesType DEF AcceptInv, InittabInv
<1>2. PICK n \in DOMAIN file.lines : HoldsEntry(n) /\ Parsed(Own(n), n).type = "SAFE_MODE"
  <2> DEFINE entries == {n \in DOMAIN file.lines : file.lines[n].kind # "skip"}
  <2>1. PICK n \in entries : {m \in entries : Parsed(Own(m), m).type = "SAFE_MODE"} = {n}
    BY DEF WellFormed
  <2>2. n \in {m \in entries : Parsed(Own(m), m).type = "SAFE_MODE"}
    BY <2>1
  <2>3. QED
    BY <2>2 DEF WellFormed
<1>3. n \in 1 .. pos - 1 /\ n <= Len(file.lines)
  BY <1>1
<1>4. Parsed(Own(n), n) \in Members(safe_mode_entry)
  BY <1>2, <1>3 DEF Collected, EntriesOf
<1>5. QED
  BY <1>4 DEF Members

\* The steps in which no line is read and no list changes.
LEMMA QuietAccept ==
  ASSUME AcceptInv,
         Open \/ OpenFails \/ AllocFails \/ AlreadyAtEnd \/ StartEntry \/ ReadFails \/ EndOfFile
  PROVE  /\ pos' <= Len(file'.lines) + 1 /\ pc' # "open" /\ BufferFromSkipped'
         /\ CommentsHarmless' => ReadSoFar'
<1>1. file' = file /\ io' = io /\ pos' = pos /\ UNCHANGED lists /\ pc' # "open"
  BY DEF Open, OpenFails, AllocFails, AlreadyAtEnd, StartEntry, ReadFails, EndOfFile, lists
<1>2. /\ Collected' <=> Collected
      /\ AllHold' <=> AllHold
      /\ CommentsHarmless' <=> CommentsHarmless
      /\ WellFormed' <=> WellFormed
  BY Zenon, <1>1, ReadQuiet, SameFile
<1>3. pos' <= Len(file'.lines) + 1
  BY Zenon, <1>1 DEF AcceptInv
<1>4. BufferFromSkipped'
  BY Zenon DEF Open, OpenFails, AllocFails, AlreadyAtEnd, StartEntry, ReadFails, EndOfFile,
     BufferFromSkipped
<1>5. ASSUME CommentsHarmless PROVE ReadSoFar'
  <2>1. ReadSoFar
    BY <1>5 DEF AcceptInv
  <2>2. CASE Open
    <3>1. pc = "open" /\ pc' = "loop" /\ UNCHANGED <<error, result>>
      BY Zenon, <2>2 DEF Open
    <3>2. pos = 1 /\ startup_list = <<>> /\ shutdown_list = <<>> /\ safe_mode_entry = <<>>
      BY <3>1 DEF AcceptInv
    <3>3. Collected /\ AllHold
      <4>1. \A K : EntriesOf(K) = {}
        BY <3>2 DEF EntriesOf
      <4>2. Members(<<>>) = {}
        BY DEF Members
      <4>3. AllHold
        BY <3>2 DEF AllHold
      <4>4. QED
        BY Zenon, <3>2, <4>1, <4>2, <4>3 DEF Collected
    <3>4. QED
      BY ZenonT(30), <1>1, <1>2, <2>1, <3>1, <3>3 DEF ReadSoFar, Accepting, Reading
  <2>3. CASE OpenFails
    <3>1. pc' = "done" /\ ~result' /\ io # {}
      BY <2>3 DEF OpenFails
    <3>2. QED
      BY Zenon, <1>1, <3>1 DEF ReadSoFar, Accepting, Reading
  <2>4. CASE AllocFails
    <3>1. pc' = "check" /\ error' /\ io # {}
      BY <2>4 DEF AllocFails
    <3>2. QED
      BY Zenon, <1>1, <3>1 DEF ReadSoFar, Accepting, Reading
  <2>5. CASE AlreadyAtEnd
    <3>1. pc = "loop" /\ pc' = "loop" /\ feof' /\ error'
      BY Zenon, <2>5 DEF AlreadyAtEnd
    <3>2. QED
      BY Zenon, <1>2, <2>1, <3>1 DEF ReadSoFar, Accepting, Reading
  <2>6. CASE StartEntry
    <3>1. pc = "loop" /\ pc' = "line" /\ ~feof /\ UNCHANGED <<error, result>>
      BY Zenon, <2>6 DEF StartEntry
    <3>2. QED
      BY ZenonT(30), <1>1, <1>2, <2>1, <3>1 DEF ReadSoFar, Accepting, Reading
  <2>7. CASE ReadFails
    <3>1. pc = "line" /\ pc' = "loop" /\ error' /\ io # {}
      BY <2>7 DEF ReadFails
    <3>2. QED
      BY Zenon, <1>1, <1>2, <2>1, <3>1 DEF ReadSoFar, Accepting, Reading
  <2>8. CASE EndOfFile
    <3>1. pc = "line" /\ pc' = "check" /\ pos > Len(file.lines) /\ UNCHANGED <<error, result>>
      BY Zenon, <2>8 DEF EndOfFile
    <3>2. QED
      BY ZenonT(30), <1>1, <1>2, <2>1, <3>1 DEF ReadSoFar, Accepting, Reading
  <2>9. QED
    BY Zenon, <2>2, <2>3, <2>4, <2>5, <2>6, <2>7, <2>8
<1>6. QED
  BY Zenon, <1>1, <1>2, <1>3, <1>4, <1>5

\* The steps that read a line.
LEMMA LineAccept ==
  ASSUME AcceptInv, SkipLine \/ EntryRead \/ EntryRefused \/ BadLine
  PROVE  /\ pos' <= Len(file'.lines) + 1 /\ pc' # "open" /\ BufferFromSkipped'
         /\ CommentsHarmless' => ReadSoFar'
<1>1. /\ file' = file /\ io' = io /\ pos' = pos + 1 /\ pc = "line" /\ pc' # "open"
      /\ pos <= Len(file.lines) /\ result' = result
  BY DEF SkipLine, EntryRead, EntryRefused, BadLine, LineLeft, NextLine
<1>2. (CommentsHarmless' <=> CommentsHarmless) /\ (WellFormed' <=> WellFormed)
  BY Zenon, <1>1, SameFile
<1>3. pos' <= Len(file'.lines) + 1
  BY <1>1, LinesType DEF AcceptInv, InittabInv
<1>4. BufferFromSkipped'
  <2>1. CASE SkipLine
    BY <2>1, SkipBuffer
  <2>2. CASE EntryRead \/ EntryRefused \/ BadLine
    BY Zenon, <2>2 DEF EntryRead, EntryRefused, BadLine, BufferFromSkipped
  <2>3. QED
    BY <2>1, <2>2
<1>5. ASSUME CommentsHarmless PROVE ReadSoFar'
  <2>1. /\ Collected /\ (~error => AllHold)
        /\ WellFormed /\ io = {} => ~error
    BY Zenon, <1>1, <1>5 DEF AcceptInv, ReadSoFar, Accepting, Reading
  <2>2. /\ UNCHANGED lists /\ ~HoldsEntry(pos) /\ Collected => Collected'
        /\ AllHold /\ (file.lines[pos].kind # "skip" => HoldsEntry(pos)) => AllHold'
    BY Zenon, <1>1, LineRead
  <2>3. CASE SkipLine
    <3>1. /\ pc' = "line" /\ UNCHANGED lists /\ error' = error
          /\ file.lines[pos].kind = "skip"
      BY <2>3 DEF SkipLine, LineLeft
    <3>2. ~HoldsEntry(pos)
      BY <3>1 DEF HoldsEntry
    <3>3. QED
      BY ZenonT(30), <1>1, <1>2, <2>1, <2>2, <3>1, <3>2 DEF ReadSoFar, Accepting, Reading
  <2>4. CASE EntryRead
    <3>1. pc' = "loop" /\ error' = error
      BY <2>4 DEF EntryRead
    <3>2. Collected' /\ HoldsEntry(pos)
      BY Zenon, <1>5, <2>1, <2>4, ReadCollects
    <3>3. QED
      BY ZenonT(30), <1>1, <1>2, <2>1, <2>2, <3>1, <3>2 DEF ReadSoFar, Accepting, Reading
  <2>5. CASE EntryRefused
    <3>1. /\ pc' = "check" /\ error' /\ LineLeft({"entry"})
          /\ SecondSafeMode(Parsed(Filled, pos))
      BY Zenon, <2>5 DEF EntryRefused
    <3>2. LineLeft({"too_big", "entry"})
      BY <3>1 DEF LineLeft
    <3>3. Parsed(Filled, pos) = Parsed(Own(pos), pos)
      BY Zenon, <1>5, <3>1, SameEntry
    <3>4. ~WellFormed
      BY Zenon, <1>5, <2>1, <3>1, <3>2, <3>3, WellFormedLine
    <3>5. QED
      BY Zenon, <1>2, <3>1, <3>4 DEF ReadSoFar, Accepting, Reading
  <2>6. CASE BadLine
    <3>1. /\ pc' = "loop" /\ error' /\ LineLeft({"too_big", "entry"}) /\ UNCHANGED lists
          /\ file.lines[pos].kind = "entry" => ~Valid(Filled)
      BY Zenon, <2>6 DEF BadLine
    <3>2. ~HoldsEntry(pos)
      <4>1. SUFFICES ASSUME HoldsEntry(pos) PROVE FALSE
        OBVIOUS
      <4>2. LineLeft({"entry"}) /\ Valid(Own(pos)) /\ ~Valid(Filled)
        BY <3>1, <4>1 DEF HoldsEntry, LineLeft
      <4>3. QED
        BY Zenon, <1>5, <4>2, SameEntry
    <3>3. ~WellFormed
      BY Zenon, <3>1, <3>2, WellFormedLine
    <3>4. QED
      BY ZenonT(30), <1>1, <1>2, <2>1, <2>2, <3>1, <3>2, <3>3
         DEF ReadSoFar, Accepting, Reading
  <2>7. QED
    BY Zenon, <2>3, <2>4, <2>5, <2>6
<1>6. QED
  BY Zenon, <1>1, <1>2, <1>3, <1>4, <1>5

\* The verdict.
LEMMA CheckAccept ==
  ASSUME AcceptInv, Check
  PROVE  /\ pos' <= Len(file'.lines) + 1 /\ pc' # "open" /\ BufferFromSkipped'
         /\ CommentsHarmless' => ReadSoFar'
<1>1. /\ file' = file /\ io' = io /\ pos' = pos /\ pc = "check" /\ pc' = "done"
      /\ result' = ~error' /\ error' = (error \/ safe_mode_entry = <<>>)
      /\ ~error' => UNCHANGED lists
  BY Zenon DEF Check
<1>2. (CommentsHarmless' <=> CommentsHarmless) /\ (WellFormed' <=> WellFormed)
  BY Zenon, <1>1, SameFile
<1>3. pos' <= Len(file'.lines) + 1
  BY Zenon, <1>1 DEF AcceptInv
<1>4. BufferFromSkipped'
  BY <1>1 DEF BufferFromSkipped
<1>5. ASSUME CommentsHarmless PROVE ReadSoFar'
  <2>1. /\ ~error => Collected /\ AllHold /\ pos > Len(file.lines)
        /\ WellFormed /\ io = {} => ~error
    BY Zenon, <1>1, <1>5 DEF AcceptInv, ReadSoFar, Accepting, Reading
  <2>2. CASE error'
    <3>1. ~(WellFormed /\ io = {})
      BY Zenon, <1>1, <2>1, <2>2, SafeModeFound
    <3>2. QED
      BY Zenon, <1>1, <1>2, <2>2, <3>1 DEF ReadSoFar, Accepting, Reading
  <2>3. CASE ~error'
    <3>1. UNCHANGED lists /\ ~error
      BY Zenon, <1>1, <2>3
    <3>2. Collected' /\ AllHold'
      BY Zenon, <1>1, <2>1, <3>1, ReadQuiet
    <3>3. QED
      BY Zenon, <1>1, <2>1, <2>3, <3>1, <3>2 DEF ReadSoFar, Accepting, Reading
  <2>4. QED
    BY Zenon, <2>2, <2>3
<1>6. QED
  BY Zenon, <1>1, <1>2, <1>3, <1>4, <1>5

\* Every step of the reader keeps the invariant about the lines read.
LEMMA AcceptStep == AcceptInv /\ [Next]_vars => AcceptInv'
<1> SUFFICES ASSUME AcceptInv, [Next]_vars PROVE AcceptInv'
  OBVIOUS
<1>1. InittabInv'
  BY InittabStep DEF AcceptInv
<1>2. CASE /\ pos' <= Len(file'.lines) + 1 /\ pc' # "open" /\ BufferFromSkipped'
           /\ CommentsHarmless' => ReadSoFar'
  BY Zenon, <1>1, <1>2 DEF AcceptInv
<1>3. CASE Returned \/ UNCHANGED vars
  <2>1. UNCHANGED vars
    BY Zenon, <1>3 DEF Returned
  <2>2. /\ file' = file /\ io' = io /\ pos' = pos /\ UNCHANGED lists
        /\ UNCHANGED <<pc, feof, buffer, error, result>>
    BY Zenon, <2>1 DEF vars
  <2>3. /\ Collected' <=> Collected
        /\ AllHold' <=> AllHold
        /\ CommentsHarmless' <=> CommentsHarmless
        /\ WellFormed' <=> WellFormed
    BY Zenon, <2>2, ReadQuiet, SameFile
  <2>4. ReadSoFar' <=> ReadSoFar
    BY Zenon, <2>2, <2>3 DEF ReadSoFar, Accepting, Reading
  <2>5. BufferFromSkipped'
    BY <2>2 DEF AcceptInv, BufferFromSkipped
  <2>6. QED
    BY Zenon, <1>1, <2>2, <2>3, <2>4, <2>5 DEF AcceptInv, lists
<1>4. CASE Open \/ OpenFails \/ AllocFails \/ AlreadyAtEnd \/ StartEntry \/ ReadFails \/ EndOfFile
  BY Zenon, <1>2, <1>4, QuietAccept
<1>5. CASE SkipLine \/ EntryRead \/ EntryRefused \/ BadLine
  BY Zenon, <1>2, <1>5, LineAccept
<1>6. CASE Check
  BY Zenon, <1>2, <1>6, CheckAccept
<1>7. QED
  BY Zenon, <1>3, <1>4, <1>5, <1>6 DEF Next

\* No line is read at the beginning.
LEMMA AcceptInit == Init => AcceptInv
<1> SUFFICES ASSUME Init PROVE AcceptInv
  OBVIOUS
<1>1. InittabInv
  BY InittabInit
<1>2. /\ pc = "open" /\ pos = 1 /\ startup_list = <<>> /\ shutdown_list = <<>>
      /\ safe_mode_entry = <<>> /\ ~error
  BY DEF Init
<1>3. pos <= Len(file.lines) + 1
  BY <1>1, <1>2, LinesType DEF InittabInv
<1>4. ReadSoFar /\ BufferFromSkipped
  BY <1>2 DEF ReadSoFar, Accepting, Reading, AllHold, BufferFromSkipped
<1>5. QED
  BY <1>1, <1>2, <1>3, <1>4 DEF AcceptInv

-----------------------------------------------------------------------------

\* The reader's variables keep their types for every file: an entry that is placed
\* has an order that is a natural number or -1, and one of the seven types.
THEOREM InittabTypeCorrect == Spec => []TypeOK
BY InittabInit, InittabStep, PTL DEF Spec, InittabInv

\* The lists are sorted and stable at every moment, for every file.
THEOREM SortedCorrect == Spec => []ListsSorted
BY InittabInit, InittabStep, PTL DEF Spec, InittabInv

\* Whatever file read_inittab accepts, and whatever calls failed before, the lists are
\* what the supervisor's theorems assume (SupervisorAssumption).
THEOREM FitCorrect == Spec => []FitForSupervisor
<1>1. InittabInv => FitForSupervisor
  <2>1. ASSUME NEW list \in Seq(EntryRecord), StablySorted(list),
               NEW i \in DOMAIN list, NEW j \in DOMAIN list, i < j
        PROVE  list[i].order <= list[j].order /\ list[i] # list[j]
    <3>1. list[i] \in EntryRecord /\ list[j] \in EntryRecord
      BY LenProperties, ElementOfSeq
    <3>2. list[i].order \in Int /\ list[j].order \in Int /\ list[i].line \in Nat
      BY <3>1 DEF EntryRecord
    <3>3. QED
      BY <2>1, <3>2 DEF StablySorted
  <2>2. QED
    BY <2>1 DEF InittabInv, TypeOK, ListsSorted, FitForSupervisor
<1>2. QED
  BY <1>1, InittabInit, InittabStep, PTL DEF Spec

\* No valid entry is lost or put in the wrong list, for every file whose comments are
\* harmless, whatever its other lines are and whichever calls fail.
THEOREM NothingLostCorrect == Spec => []NothingLost
<1>1. AcceptInv => NothingLost
  <2>1. /\ ReadEntries(is_startup_entry) = EntriesOf(StartupTypes)
        /\ ReadEntries(is_shutdown_entry) = EntriesOf(ShutdownTypes)
    BY Zenon DEF ReadEntries, EntriesOf, StartupTypes, ShutdownTypes,
       is_startup_entry, is_shutdown_entry
  <2>2. QED
    BY Zenon, <2>1 DEF AcceptInv, ReadSoFar, Reading, Accepting, Collected, Members, NothingLost
<1>2. QED
  BY <1>1, AcceptInit, AcceptStep, PTL DEF Spec

\* Of the files with harmless comments read_inittab accepts exactly the well-formed
\* ones, for every file: nothing after the first error makes it accept one, and no
\* order of the lines makes it refuse one.
THEOREM AcceptsCorrect == Spec => []AcceptsWellFormed
<1>1. AcceptInv => AcceptsWellFormed
  <2>1. SUFFICES ASSUME AcceptInv, CommentsHarmless, pc = "done"
                 PROVE  /\ result => WellFormed /\ pos > Len(file.lines)
                        /\ WellFormed /\ io = {} => result
    BY Zenon DEF AcceptsWellFormed
  <2>2. WellFormed /\ io = {} => result
    BY Zenon, <2>1 DEF AcceptInv, ReadSoFar, Accepting
  <2>3. ASSUME result PROVE WellFormed /\ pos > Len(file.lines)
    <3>1. Collected /\ AllHold /\ pos > Len(file.lines)
      BY Zenon, <2>1, <2>3 DEF AcceptInv, ReadSoFar, Accepting
    <3>2. /\ Len(file.lines) \in Nat /\ DOMAIN file.lines = 1 .. Len(file.lines)
          /\ pos \in Nat \ {0}
      BY <2>1, LinesType DEF AcceptInv, InittabInv
    <3>3. \A n \in DOMAIN file.lines : n \in 1 .. pos - 1 /\ n <= Len(file.lines)
      BY <3>1, <3>2
    <3> DEFINE entries == {n \in DOMAIN file.lines : file.lines[n].kind # "skip"}
    <3>4. \A n \in entries : HoldsEntry(n)
      BY <3>1, <3>3 DEF AllHold
    <3>5. PICK e : Members(safe_mode_entry) = {e}
      <4>1. Len(safe_mode_entry) = 1 /\ safe_mode_entry \in Seq(EntryRecord)
        BY <2>1, <2>3 DEF AcceptInv, InittabInv, TypeOK
      <4>2. Members(safe_mode_entry) = {safe_mode_entry[1]}
        BY <4>1 DEF Members
      <4>3. QED
        BY <4>2
    <3>6. EntriesOf({"SAFE_MODE"}) = {e}
      BY Zenon, <3>1, <3>5 DEF Collected
    <3>7. \A n : Parsed(Own(n), n).line = n
      BY DEF Parsed
    <3>8. PICK n \in DOMAIN file.lines : /\ HoldsEntry(n) /\ e = Parsed(Own(n), n)
                                        /\ Parsed(Own(n), n).type = "SAFE_MODE"
      <4>1. e \in EntriesOf({"SAFE_MODE"})
        BY Zenon, <3>6
      <4>2. QED
        BY <3>2, <4>1 DEF EntriesOf
    <3>9. \A m \in entries : Parsed(Own(m), m).type = "SAFE_MODE" => m = n
      <4>1. SUFFICES ASSUME NEW m \in entries, Parsed(Own(m), m).type = "SAFE_MODE"
                     PROVE  m = n
        BY Zenon
      <4>2. Parsed(Own(m), m) \in EntriesOf({"SAFE_MODE"})
        BY <3>3, <3>4, <4>1 DEF EntriesOf
      <4>3. QED
        BY Zenon, <3>6, <3>7, <3>8, <4>2
    <3>10. n \in entries
      BY <3>8 DEF HoldsEntry
    <3>11. {m \in entries : Parsed(Own(m), m).type = "SAFE_MODE"} = {n}
      BY <3>8, <3>9, <3>10
    <3>12. WellFormed
      BY Zenon, <3>4, <3>10, <3>11 DEF WellFormed
    <3>13. QED
      BY <3>1, <3>12
  <2>4. QED
    BY Zenon, <2>2, <2>3
<1>2. QED
  BY <1>1, AcceptInit, AcceptStep, PTL DEF Spec

-----------------------------------------------------------------------------
(* Reading ends *)

\* While a file that ends in a newline is read, the stream is not at its end.
NotAtEnd ==
    /\ pos <= Len(file.lines) + 1
    /\ file.newline /\ pc \in {"open", "loop", "line"} => ~feof

\* Only the end of the file sets the indicator, and the loop is left then.
LEMMA NotAtEndStep == InittabInv /\ NotAtEnd /\ [Next]_vars => NotAtEnd'
<1> SUFFICES ASSUME InittabInv, NotAtEnd, [Next]_vars PROVE NotAtEnd'
  OBVIOUS
<1>1. pos \in Nat \ {0} /\ Len(file.lines) \in Nat
  BY LinesType DEF InittabInv
<1>2. CASE Open \/ OpenFails \/ AllocFails \/ AlreadyAtEnd \/ StartEntry \/ ReadFails
           \/ EndOfFile \/ Check \/ Returned \/ UNCHANGED vars
  <2>1. /\ file' = file /\ pos' = pos
        /\ pc' \in {"open", "loop", "line"} => pc \in {"open", "loop", "line"} /\ feof' = feof
    BY Zenon, <1>2 DEF Open, OpenFails, AllocFails, AlreadyAtEnd, StartEntry, ReadFails, EndOfFile,
       Check, Returned, vars
  <2>2. QED
    BY <2>1 DEF NotAtEnd
<1>3. CASE SkipLine \/ EntryRead \/ EntryRefused \/ BadLine
  <2>1. pc = "line" /\ pos <= Len(file.lines) /\ pos' = pos + 1 /\ file' = file
    BY <1>3 DEF SkipLine, EntryRead, EntryRefused, BadLine, LineLeft, NextLine
  <2>2. feof' = feof \/ (feof' => ~file.newline)
    BY Zenon, <1>3 DEF SkipLine, EntryRead, EntryRefused, BadLine, NextLine
  <2>3. pos' <= Len(file'.lines) + 1
    BY <1>1, <2>1
  <2>4. QED
    BY <2>1, <2>2, <2>3 DEF NotAtEnd
<1>4. QED
  BY <1>2, <1>3 DEF Next

\* The reader of a file that ends in a newline and can be read goes on from line to
\* line and not past the last, for every file.
THEOREM AdvancesCorrect == Spec => ReadingAdvances
<1> DEFINE Advances ==
      \/ pos' = pos + 1 /\ pos <= Len(file.lines)
      \/ pos' = pos /\ pc = "loop" /\ pc' = "line"
<1>1. NotAtEnd /\ [Next]_vars =>
        [file.newline /\ "read" \notin io /\ pc \in {"loop", "line"} /\ pc' \in {"loop", "line"}
         => Advances]_vars
  <2> SUFFICES ASSUME NotAtEnd, Next, file.newline, "read" \notin io,
                      pc \in {"loop", "line"}, pc' \in {"loop", "line"}
               PROVE  Advances
    BY Zenon
  <2>1. ~feof
    BY Zenon DEF NotAtEnd
  <2>2. QED
    BY Zenon, <2>1 DEF Next, Open, OpenFails, AllocFails, AlreadyAtEnd, StartEntry, SkipLine,
       EntryRead, EntryRefused, BadLine, ReadFails, EndOfFile, Check, Returned, LineLeft, NextLine
<1>2. Init => NotAtEnd
  <2> SUFFICES ASSUME Init PROVE NotAtEnd
    OBVIOUS
  <2>1. Len(file.lines) \in Nat
    BY InittabInit, LinesType DEF InittabInv
  <2>2. QED
    BY <2>1 DEF Init, NotAtEnd
<1>3. QED
  BY <1>1, <1>2, InittabInit, InittabStep, NotAtEndStep, PTL DEF Spec, ReadingAdvances

=============================================================================
