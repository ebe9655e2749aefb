------------------------------- MODULE Inittab -------------------------------
(***************************************************************************)
(* Reading the inittab (src/src/inittab.c, and inittab_next_line of        *)
(* src/src/lexer.c): from the lines of the file to the three lists the     *)
(* supervisor works on, or to the refusal of the whole file.               *)
(*                                                                         *)
(* A line is the sequence of its cells, the texts between colons.  The     *)
(* lines that one call of inittab_next_line skips go through the same      *)
(* buffer as the line it returns, and a shorter line overwrites only the   *)
(* beginning of it: the model takes all cells to be of one length, so that *)
(* a line of k cells overwrites the first k and ends the k-th with a NUL.  *)
(***************************************************************************)
EXTENDS InittabEntry, Sequences

CONSTANTS Files,    \* the files tried: lines, and whether the last one ends in a newline
          IoFaults  \* what may fail: "fopen", "calloc", "read"

VARIABLES pc, file,
          io,               \* the call that may fail this time, if any
          pos,              \* the next line fscanf reads
          feof,             \* the end-of-file indicator of the stream
          buffer,           \* the buffer of inittab_parse_entry
          startup_list, shutdown_list, safe_mode_entry,
          error, result

lists == <<startup_list, shutdown_list, safe_mode_entry>>
vars == <<pc, file, io, pos, feof, buffer, lists, error, result>>

-----------------------------------------------------------------------------
(* The cells of a line, the buffer and its tokens *)

\* What the parser tells apart: an empty text, a number, the name of a type,
\* another text, and a text too long for its place in struct inittab_entry.
Cell == [kind : {"blank", "number", "type", "text", "long"},
         value : Int, type : EntryType \cup {"none"}]
Blank == [kind |-> "blank", value |-> 0, type |-> "none"]

\* A line to skip is empty (no cells) or a comment.
Line == [kind : {"skip", "too_big", "entry"}, cells : Seq(Cell)]
File == [lines : Seq(Line), newline : BOOLEAN]

ASSUME InittabAssumption ==
    /\ Files \subseteq File
    /\ IoFaults \subseteq {"fopen", "calloc", "read"}

\* fscanf writes a line over what the buffer holds; an empty line is no match and
\* leaves it alone.
Overwrite(buf, line) ==
    [i \in 1 .. IF Len(line.cells) > Len(buf) THEN Len(line.cells) ELSE Len(buf) |->
        IF i <= Len(line.cells) THEN [cell |-> line.cells[i], nul |-> i = Len(line.cells)]
                                ELSE buf[i]]

\* next_token steps over the NUL of the line as over a colon, into what follows it.
Field(buf, i) == IF i <= Len(buf) THEN buf[i].cell ELSE Blank

\* The fifth token goes up to the next NUL, colons included.
Process(buf) ==
    {i \in 5 .. Len(buf) : \A j \in 5 .. i - 1 : ~buf[j].nul}

\* Variant: a negative number is accepted.
ValidNumber_Negative(cell) == cell.kind \in {"blank", "number"}

\* What the code does with <order> and <core_id>: blank becomes -1, a number
\* must not be negative.
ValidNumber(cell) == cell.kind = "blank" \/ (cell.kind = "number" /\ cell.value >= 0)
Number(cell) == IF cell.kind = "blank" THEN -1 ELSE cell.value

\* inittab_parse_entry after the line was read: the conditions for RESULT_OK.
Valid(buf) ==
    /\ ValidNumber(Field(buf, 1))
    /\ ValidNumber(Field(buf, 2))
    /\ Field(buf, 3).kind = "type"
    /\ Number(Field(buf, 1)) = -1 => Field(buf, 3).type = "SAFE_MODE"
    /\ Field(buf, 4).kind # "long"
    /\ Process(buf) # {}
    /\ Process(buf) = {5} => buf[5].cell # Blank
    /\ \A i \in Process(buf) : buf[i].cell.kind # "long"

\* The entry it fills in; its place in the file stands for the texts.
Parsed(buf, n) ==
    [line |-> n, order |-> Number(Field(buf, 1)), type |-> Field(buf, 3).type]

-----------------------------------------------------------------------------
(* The lists *)

\* Variant: the entry goes before those of its own order.
add_entry_to_list_Before(list, entry, new) ==
    \E n \in 0 .. Len(list) :
        /\ \A i \in 1 .. n : list[i].order < entry.order
        /\ n < Len(list) => list[n + 1].order >= entry.order
        /\ new = [i \in 1 .. Len(list) + 1 |->
                     IF i <= n THEN list[i] ELSE IF i = n + 1 THEN entry ELSE list[i - 1]]

\* add_entry_to_list: the entry goes after the longest prefix of entries whose
\* order is not greater.
add_entry_to_list(list, entry, new) ==
    \E n \in 0 .. Len(list) :
        /\ \A i \in 1 .. n : list[i].order <= entry.order
        /\ n < Len(list) => list[n + 1].order > entry.order
        /\ new = [i \in 1 .. Len(list) + 1 |->
                     IF i <= n THEN list[i] ELSE IF i = n + 1 THEN entry ELSE list[i - 1]]

\* Variant: a second <safe-mode> entry is placed too.
place_entry_AnySafeMode(entry) ==
    \/ /\ is_startup_entry(entry)
       /\ add_entry_to_list(startup_list, entry, startup_list')
       /\ UNCHANGED <<shutdown_list, safe_mode_entry>>
    \/ /\ is_shutdown_entry(entry)
       /\ add_entry_to_list(shutdown_list, entry, shutdown_list')
       /\ UNCHANGED <<startup_list, safe_mode_entry>>
    \/ /\ entry.type = "SAFE_MODE"
       /\ add_entry_to_list(safe_mode_entry, entry, safe_mode_entry')
       /\ UNCHANGED <<startup_list, shutdown_list>>

\* place_entry, when it succeeds: the list is the one of the entry's type.
place_entry(entry) ==
    \/ /\ is_startup_entry(entry)
       /\ add_entry_to_list(startup_list, entry, startup_list')
       /\ UNCHANGED <<shutdown_list, safe_mode_entry>>
    \/ /\ is_shutdown_entry(entry)
       /\ add_entry_to_list(shutdown_list, entry, shutdown_list')
       /\ UNCHANGED <<startup_list, safe_mode_entry>>
    \/ /\ entry.type = "SAFE_MODE" /\ safe_mode_entry = <<>>
       /\ add_entry_to_list(safe_mode_entry, entry, safe_mode_entry')
       /\ UNCHANGED <<startup_list, shutdown_list>>

\* place_entry fails: a second <safe-mode> entry.
SecondSafeMode(entry) == entry.type = "SAFE_MODE" /\ safe_mode_entry # <<>>

-----------------------------------------------------------------------------
(* read_inittab *)

Init ==
    /\ file \in Files /\ io \in {{}} \cup {{c} : c \in IoFaults}
    /\ pc = "open" /\ pos = 1 /\ feof = FALSE /\ buffer = <<>>
    /\ startup_list = <<>> /\ shutdown_list = <<>> /\ safe_mode_entry = <<>>
    /\ error = FALSE /\ result = TRUE

Open ==
    /\ pc = "open"
    /\ pc' = "loop"
    /\ UNCHANGED <<file, io, pos, feof, buffer, lists, error, result>>

OpenFails ==
    /\ pc = "open" /\ "fopen" \in io
    /\ pc' = "done" /\ result' = FALSE
    /\ UNCHANGED <<file, io, pos, feof, buffer, lists, error>>

\* No memory for the next entry.
AllocFails ==
    /\ pc = "loop" /\ "calloc" \in io
    /\ error' = TRUE /\ pc' = "check"
    /\ UNCHANGED <<file, io, pos, feof, buffer, lists, result>>

\* RESULT_ERROR because the stream is at its end already.
AlreadyAtEnd ==
    /\ pc = "loop" /\ feof
    /\ error' = TRUE
    /\ UNCHANGED <<pc, file, io, pos, feof, buffer, lists, result>>

\* Variant: the buffer is not cleared.
StartEntry_KeepsBuffer ==
    /\ pc = "loop" /\ ~feof
    /\ pc' = "line"
    /\ UNCHANGED <<file, io, pos, feof, buffer, lists, error, result>>

\* inittab_parse_entry begins, with a cleared buffer, and calls inittab_next_line.
StartEntry ==
    /\ pc = "loop" /\ ~feof
    /\ buffer' = <<>> /\ pc' = "line"
    /\ UNCHANGED <<file, io, pos, feof, lists, error, result>>

-----------------------------------------------------------------------------
(* inittab_next_line, and the rest of an iteration *)

LineLeft(kinds) == pc = "line" /\ pos <= Len(file.lines) /\ file.lines[pos].kind \in kinds
Filled == Overwrite(buffer, file.lines[pos])

\* A comment or an empty line: the next one goes into the same buffer.
SkipLine ==
    /\ LineLeft({"skip"})
    /\ buffer' = Filled /\ pos' = pos + 1
    /\ UNCHANGED <<pc, file, io, feof, lists, error, result>>

\* Any other line is returned.  A last line without newline leaves the stream at
\* its end.
NextLine ==
    /\ pos' = pos + 1
    /\ feof' = (pos = Len(file.lines) /\ ~file.newline)

\* NEXT_LINE_OK and RESULT_OK, and the entry is placed.
EntryRead ==
    /\ LineLeft({"entry"}) /\ NextLine
    /\ Valid(Filled)
    /\ place_entry(Parsed(Filled, pos))
    /\ buffer' = Filled /\ pc' = "loop"
    /\ UNCHANGED <<file, io, error, result>>

\* RESULT_OK, but the entry cannot be placed: the loop ends.
EntryRefused ==
    /\ LineLeft({"entry"}) /\ NextLine
    /\ Valid(Filled)
    /\ SecondSafeMode(Parsed(Filled, pos))
    /\ error' = TRUE /\ buffer' = Filled /\ pc' = "check"
    /\ UNCHANGED <<file, io, lists, result>>

\* Variant: the error is not noted.
BadLine_Ignored ==
    /\ LineLeft({"too_big", "entry"}) /\ NextLine
    /\ file.lines[pos].kind = "entry" => ~Valid(Filled)
    /\ buffer' = Filled /\ pc' = "loop"
    /\ UNCHANGED <<file, io, lists, error, result>>

\* RESULT_ERROR for a line, too big or not valid: noted, and the loop goes on.
BadLine ==
    /\ LineLeft({"too_big", "entry"}) /\ NextLine
    /\ file.lines[pos].kind = "entry" => ~Valid(Filled)
    /\ error' = TRUE /\ buffer' = Filled /\ pc' = "loop"
    /\ UNCHANGED <<file, io, lists, result>>

\* NEXT_LINE_ERROR: the file cannot be read.
ReadFails ==
    /\ pc = "line" /\ "read" \in io
    /\ error' = TRUE /\ pc' = "loop"
    /\ UNCHANGED <<file, io, pos, feof, buffer, lists, result>>

\* Variant: RESULT_DONE does not leave the loop.
EndOfFile_GoesOn ==
    /\ pc = "line" /\ pos > Len(file.lines)
    /\ feof' = TRUE /\ pc' = "loop"
    /\ UNCHANGED <<file, io, pos, buffer, lists, error, result>>

\* NEXT_LINE_EOF, RESULT_DONE.
EndOfFile ==
    /\ pc = "line" /\ pos > Len(file.lines)
    /\ feof' = TRUE /\ pc' = "check"
    /\ UNCHANGED <<file, io, pos, buffer, lists, error, result>>

\* After the loop: without a <safe-mode> entry, or after any error, the file is
\* refused and the lists are freed.
Check ==
    /\ pc = "check"
    /\ error' = (error \/ safe_mode_entry = <<>>)
    /\ result' = ~error'
    /\ IF error' THEN startup_list' = <<>> /\ shutdown_list' = <<>> /\ safe_mode_entry' = <<>>
                 ELSE UNCHANGED lists
    /\ pc' = "done"
    /\ UNCHANGED <<file, io, pos, feof, buffer>>

Returned == pc = "done" /\ UNCHANGED vars

Next ==
    \/ Open \/ OpenFails \/ AllocFails \/ AlreadyAtEnd \/ StartEntry \/ SkipLine
    \/ EntryRead \/ EntryRefused \/ BadLine \/ ReadFails \/ EndOfFile \/ Check \/ Returned

Spec == Init /\ [][Next]_vars
FairSpec == Spec /\ WF_vars(Next)

-----------------------------------------------------------------------------

\* The values the reader's variables may have.
TypeOK ==
    /\ pc \in {"open", "loop", "line", "check", "done"}
    /\ file \in Files /\ io \subseteq IoFaults
    /\ pos \in Nat \ {0} /\ feof \in BOOLEAN
    /\ buffer \in Seq([cell : Cell, nul : BOOLEAN])
    /\ startup_list \in Seq(EntryRecord) /\ shutdown_list \in Seq(EntryRecord)
    /\ safe_mode_entry \in Seq(EntryRecord)
    /\ error \in BOOLEAN /\ result \in BOOLEAN

\* The list is in ascending order, entries of one order as they are in the file.
StablySorted(list) ==
    \A i, j \in DOMAIN list : i < j =>
        \/ list[i].order < list[j].order
        \/ list[i].order = list[j].order /\ list[i].line < list[j].line

\* The lists are sorted by order and stable while they grow: "if a new item with
\* same order is added, it is kept after all previous items" (inittab.c:45-47).
ListsSorted == StablySorted(startup_list) /\ StablySorted(shutdown_list)

\* An accepted file gives the supervisor what it relies on (main.c:587-672,
\* 1102-1135): lists of entries of their kind, sorted, none twice, and exactly one
\* <safe-mode> entry.
FitForSupervisor ==
    pc = "done" /\ result =>
        /\ \A i \in DOMAIN startup_list : is_startup_entry(startup_list[i])
        /\ \A i \in DOMAIN shutdown_list : is_shutdown_entry(shutdown_list[i])
        /\ \A list \in {startup_list, shutdown_list} : \A i, j \in DOMAIN list :
              i < j => list[i].order <= list[j].order /\ list[i] # list[j]
        /\ Len(safe_mode_entry) = 1 /\ safe_mode_entry[1].type = "SAFE_MODE"

\* What line n alone says.
Own(n) == Overwrite(<<>>, file.lines[n])
HoldsEntry(n) == file.lines[n].kind = "entry" /\ Valid(Own(n))

\* The lines read so far that hold a valid entry of a kind.
ReadEntries(pred(_)) ==
    {Parsed(Own(n), n) : n \in {m \in 1 .. pos - 1 :
        m <= Len(file.lines) /\ HoldsEntry(m) /\ pred(Parsed(Own(m), m))}}

\* What a comment leaves in the buffer is not taken for a part of the entry after it:
\* the entry's own line reaches the field of the process, or covers all of the comment.
CommentsHarmless ==
    \A m, n \in DOMAIN file.lines :
        /\ m < n /\ \A k \in m .. n - 1 : file.lines[k].kind = "skip"
        /\ file.lines[n].kind = "entry"
        => \/ Len(file.lines[n].cells) >= 5
           \/ Len(file.lines[m].cells) <= Len(file.lines[n].cells)

\* No valid entry is lost or put in the wrong list while the file is read and
\* when it is accepted (inittab.c:103-142, 314-353), in a file whose comments are
\* harmless; CommentsIgnored is about the others.
NothingLost ==
    CommentsHarmless /\ (pc \in {"loop", "line"} \/ (pc = "done" /\ result)) =>
        /\ {startup_list[i] : i \in DOMAIN startup_list} = ReadEntries(is_startup_entry)
        /\ {shutdown_list[i] : i \in DOMAIN shutdown_list} = ReadEntries(is_shutdown_entry)

\* A file init can work with: every line holds a valid entry and exactly one of them
\* is a <safe-mode> entry.  An entry has the five fields of the form that
\* specs/inittab-spec.txt:15 gives.  The examples of that document (lines 66-70 and 81)
\* leave the terminal's field out; the code refuses such a line (inittab.c:278-281), the
\* test data want it refused (parse_assorted_errors:17), and so it is not valid here.
WellFormed ==
    LET entries == {n \in DOMAIN file.lines : file.lines[n].kind # "skip"}
    IN  /\ \A n \in entries : HoldsEntry(n)
        /\ \E n \in entries : {m \in entries : Parsed(Own(m), m).type = "SAFE_MODE"} = {n}

\* Of the files with harmless comments read_inittab accepts exactly the well-formed
\* ones, read to their end, however many lines follow the first error; a failing call
\* only ever refuses (inittab.c:295-379).
AcceptsWellFormed ==
    CommentsHarmless /\ pc = "done" =>
        /\ result => WellFormed /\ pos > Len(file.lines)
        /\ WellFormed /\ io = {} => result

\* "Lines starting with # character are considered comment lines, so they are
\* ignored" (specs/inittab-spec.txt:77-78): an entry in a list is what its own line
\* says, whatever comment the buffer held before (lexer.c:125, inittab.c:147, 180).
CommentsIgnored ==
    \A list \in {startup_list, shutdown_list, safe_mode_entry} : \A i \in DOMAIN list :
        /\ Valid(Own(list[i].line))
        /\ list[i] = Parsed(Own(list[i].line), list[i].line)

\* A file that can be read and ends in a newline is read to its end, whatever its
\* lines are (inittab.c:314-353, lexer.c:117-156).
ReadingEnds == file.newline /\ "read" \notin io => <>(pc = "done")

\* The measure by which it ends: from one call of fscanf to the next the reader is a
\* line further, never past the end of the file, and never finds the end-of-file
\* indicator set when it starts an entry (inittab.c:156-159, 314-353).
ReadingAdvances ==
    [][file.newline /\ "read" \notin io /\ pc \in {"loop", "line"} /\ pc' \in {"loop", "line"} =>
          \/ pos' = pos + 1 /\ pos <= Len(file.lines)
          \/ pos' = pos /\ pc = "loop" /\ pc' = "line"]_vars

\* Any file that can be read is, in bounded time: "init shall finish all its work
\* in a deterministic time" (specs/requirements.txt:300; inittab.c:156-159).
ReadingAlwaysEnds == "read" \notin io => <>(pc = "done")

=============================================================================
