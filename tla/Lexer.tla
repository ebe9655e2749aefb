-------------------------------- MODULE Lexer --------------------------------
(***************************************************************************)
(* next_token (src/src/lexer.c): cutting a text into tokens inside its own *)
(* buffer.  The buffer holds the text and its NUL; a token is the offset   *)
(* where it starts, and ends at the NUL next_token writes over the         *)
(* delimiter.  Quotes are taken out of the buffer by moving the rest of it *)
(* to the left, so the size of the buffer shrinks while it is scanned.     *)
(*                                                                         *)
(* A character is a member of a small set: the delimiter, the two quotes,  *)
(* NUL and others.  Offsets are those of the code, from 0.                 *)
(***************************************************************************)
EXTENDS Integers, Sequences

VARIABLES buf, size, pos,       \* struct lexer_data
          start_pos,            \* where the token being scanned begins
          quote, quote_start    \* the quote that is open (NUL: none), and where

lexer == <<buf, size, pos>>
scan == <<start_pos, quote, quote_start>>

NUL == "nul"
Quotes == {"'", "\""}
At(p) == buf[p + 1]

\* init_lexer on a copy of text, and the first call of next_token.
init_lexer(text) ==
    /\ buf = Append(text, NUL) /\ size = Len(text) + 1 /\ pos = 0
    /\ start_pos = 0 /\ quote = NUL /\ quote_start = 0

\* Variant: the last byte is not moved along.
memmove_Left_ButLast(b, p, n) ==
    [i \in 1 .. Len(b) |-> IF i > p /\ i < n - 1 THEN b[i + 1] ELSE b[i]]

\* memmove(&b[p], &b[p + 1], n - p - 1): what follows offset p, in a buffer of
\* size n, moves one to the left; the last cell keeps its value.
memmove_Left(b, p, n) == [i \in 1 .. Len(b) |-> IF i > p /\ i < n THEN b[i + 1] ELSE b[i]]

\* The scan goes on until NUL, the end of the buffer, or an unquoted delimiter.
Scanning(delim) == pos < size /\ At(pos) # NUL /\ (quote = NUL => At(pos) # delim)

\* One character outside quotes; a quote opens if quotes have a meaning.
ScanUnquoted(delim, quoted) ==
    /\ Scanning(delim) /\ quote = NUL
    /\ IF quoted /\ At(pos) \in Quotes THEN quote' = At(pos) /\ quote_start' = pos
                                       ELSE UNCHANGED <<quote, quote_start>>
    /\ pos' = pos + 1
    /\ UNCHANGED <<buf, size, start_pos>>

\* One character inside quotes: the other quote is an ordinary character.
ScanQuoted(delim) ==
    /\ Scanning(delim) /\ quote \notin {NUL, At(pos)}
    /\ pos' = pos + 1
    /\ UNCHANGED <<buf, size, scan>>

\* Variant: the size is not adjusted after the two quotes were removed.
CloseQuote_KeepsSize(delim, remove_quotes) ==
    /\ Scanning(delim) /\ quote = At(pos) /\ quote' = NUL
    /\ IF remove_quotes
       THEN /\ buf' = memmove_Left(memmove_Left(buf, pos, size), quote_start, size - 1)
            /\ pos' = pos - 1 /\ UNCHANGED size
       ELSE pos' = pos + 1 /\ UNCHANGED <<buf, size>>
    /\ UNCHANGED <<start_pos, quote_start>>

\* The quote closes.  Removing both quotes takes the position two back, and the
\* step to the next character one forward.
CloseQuote(delim, remove_quotes) ==
    /\ Scanning(delim) /\ quote = At(pos) /\ quote' = NUL
    /\ IF remove_quotes
       THEN /\ buf' = memmove_Left(memmove_Left(buf, pos, size), quote_start, size - 1)
            /\ size' = size - 2 /\ pos' = pos - 1
       ELSE pos' = pos + 1 /\ UNCHANGED <<buf, size>>
    /\ UNCHANGED <<start_pos, quote_start>>

Scan(delim, quoted, remove_quotes) ==
    \/ ScanUnquoted(delim, quoted) \/ ScanQuoted(delim) \/ CloseQuote(delim, remove_quotes)

\* enum token_result, once the scan has stopped.
token_result ==
    CASE quote # NUL -> "UNFINISHED_QUOTE"
      [] quote = NUL /\ pos >= size -> "END"
      [] quote = NUL /\ pos < size /\ pos = start_pos -> "BLANK"
      [] OTHER -> "OK"

\* Variant: the terminating NUL is not written.
EndToken_NoNul ==
    /\ pos' = pos + 1 /\ start_pos' = pos + 1 /\ quote' = NUL
    /\ UNCHANGED <<buf, size, quote_start>>

\* next_token returns a token, and the next call begins: the delimiter becomes
\* NUL and the position goes past it.
EndToken ==
    /\ buf' = [buf EXCEPT ![pos + 1] = NUL]
    /\ pos' = pos + 1 /\ start_pos' = pos + 1 /\ quote' = NUL
    /\ UNCHANGED <<size, quote_start>>

\* The C string at an offset.
CString(p) ==
    LET end == CHOOSE i \in p + 1 .. Len(buf) :
                   buf[i] = NUL /\ \A j \in p + 1 .. i - 1 : buf[j] # NUL
    IN  SubSeq(buf, p + 1, end - 1)

=============================================================================
