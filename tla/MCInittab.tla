------------------------------ MODULE MCInittab ------------------------------
(***************************************************************************)
(* All files of up to four lines over a small set of lines.                *)
(***************************************************************************)
EXTENDS Inittab

Num(n) == [Blank EXCEPT !.kind = "number", !.value = n]
Ty(t) == [Blank EXCEPT !.kind = "type", !.type = t]
Text == [Blank EXCEPT !.kind = "text"]
Long == [Blank EXCEPT !.kind = "long"]

Entry(cells) == [kind |-> "entry", cells |-> cells]
L(ord, ty) == Entry(<<ord, Blank, Ty(ty), Blank, Text>>)
Comment(n) == [kind |-> "skip", cells |-> [i \in 1 .. n |-> Text]]
TooBig == [kind |-> "too_big", cells |-> <<>>]

\* Valid entries of both lists in two orders, the safe-mode entry, an empty line,
\* and one line for each reason to refuse one.  "Four" lacks the terminal's field.
GoodLines == {L(Num(0), "ONE_SHOT"), L(Num(1), "SAFE_SERVICE"), L(Num(0), "SHUTDOWN"),
              L(Blank, "SAFE_MODE"), Comment(0)}
Four == Entry(<<Num(0), Blank, Ty("ONE_SHOT"), Text>>)
BadLines == {TooBig, Four, L(Blank, "SERVICE"), L(Num(-2), "SERVICE"),
             Entry(<<Num(0), Blank, Text, Blank, Text>>),
             Entry(<<Num(0), Blank, Ty("SHUTDOWN"), Blank, Long>>),
             Entry(<<Num(0), Text, Ty("SHUTDOWN"), Blank, Text>>),
             Entry(<<Num(0), Blank, Ty("SHUTDOWN"), Long, Text>>)}

FilesOf(lines, max, newline) ==
    [lines : UNION {[1 .. n -> lines] : n \in 0 .. max}, newline : newline]

\* A comment longer than the incomplete line that follows it.
LongComments == FilesOf({Four, L(Blank, "SAFE_MODE"), Comment(7)}, 3, {TRUE})

\* Comments longer than the complete lines that follow them, comments no longer than
\* any line, and those that show through an incomplete line.
AllFiles == FilesOf(GoodLines \cup {Comment(7)}, 4, {TRUE})
            \cup FilesOf(GoodLines \cup BadLines \cup {Comment(1)}, 2, BOOLEAN)
            \cup LongComments
AnyFiles == FilesOf(GoodLines, 2, BOOLEAN)
=============================================================================
