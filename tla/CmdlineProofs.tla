---------------------------- MODULE CmdlineProofs ----------------------------
(***************************************************************************)
(* The in-place scan of next_token, for every text: proofs about Lexer and *)
(* Cmdline.                                                                *)
(***************************************************************************)
EXTENDS Cmdline, SequenceTheorems, TLAPS

\* The steps expand large actions: the SMT solver is given up to a minute for each.
USE SMTT(60)

\* The characters of a buffer.
Char == STRING \cup {NUL}

\* The token at offset p of buffer b ends at index e, its NUL.
EndsAt(b, p, e) == b[e] = NUL /\ \A j \in p + 1 .. e - 1 : b[j] # NUL

\* Every token handed out ends before the one being scanned begins.
Behind(list) == \A i \in DOMAIN list : \E e \in list[i] + 1 .. start_pos : EndsAt(buf, list[i], e)

LexerType ==
    /\ buf \in Seq(Char) /\ size \in Nat /\ pos \in Nat
    /\ start_pos \in Nat /\ quote_start \in Nat
    /\ args \in Seq(Nat) /\ env \in Seq(Nat)

\* The inductive invariant: the token being scanned holds no NUL so far, so that the
\* NUL written after it is its first.
ScanInv ==
    /\ LexerType
    /\ BufferBounded
    /\ \A j \in start_pos + 1 .. pos : buf[j] # NUL
    /\ Behind(args) /\ Behind(env)

-----------------------------------------------------------------------------
(* The moves *)

\* memmove_Left moves the cells after offset p, and only those.
LEMMA Moved ==
  ASSUME NEW b \in Seq(Char), NEW p \in Nat, NEW n \in Nat, n <= Len(b)
  PROVE  /\ memmove_Left(b, p, n) \in Seq(Char)
         /\ Len(memmove_Left(b, p, n)) = Len(b)
         /\ \A i \in 1 .. Len(b) :
              memmove_Left(b, p, n)[i] = IF i > p /\ i < n THEN b[i + 1] ELSE b[i]
<1>1. Len(b) \in Nat /\ \A i \in 1 .. Len(b) : b[i] \in Char
  BY LenProperties, ElementOfSeq
<1>2. \A i \in 1 .. Len(b) : i < n => i + 1 \in 1 .. Len(b)
  BY <1>1
<1>3. memmove_Left(b, p, n) \in [1 .. Len(b) -> Char]
  BY <1>1, <1>2 DEF memmove_Left
<1>4. memmove_Left(b, p, n) \in Seq(Char)
  BY <1>1, <1>3, SeqDef
<1>5. Len(memmove_Left(b, p, n)) = Len(b)
  BY <1>1, <1>3, <1>4, LenProperties
<1>6. QED
  BY <1>4, <1>5 DEF memmove_Left

\* Taking both quotes out: nothing before the opening one moves, what was between
\* them moves by one, and the NUL of the buffer moves along.
QuotesTaken(b, p, q, n) == memmove_Left(memmove_Left(b, p, n), q, n - 1)

\* Both memmoves of a quoted token (lexer.c): the text before the opening quote stays, the
\* quoted text moves by one and the NUL by two.
LEMMA QuotesOut ==
  ASSUME NEW b \in Seq(Char), NEW p \in Nat, NEW q \in Nat, NEW n \in Nat,
         q < p, p + 1 < n, n <= Len(b), b[n] = NUL
  PROVE  /\ QuotesTaken(b, p, q, n) \in Seq(Char)
         /\ Len(QuotesTaken(b, p, q, n)) = Len(b)
         /\ \A i \in 1 .. q : QuotesTaken(b, p, q, n)[i] = b[i]
         /\ \A i \in q + 1 .. p - 1 : QuotesTaken(b, p, q, n)[i] = b[i + 1]
         /\ \A i \in p .. n - 2 : QuotesTaken(b, p, q, n)[i] = b[i + 2]
         /\ QuotesTaken(b, p, q, n)[n - 2] = NUL
<1> DEFINE new == QuotesTaken(b, p, q, n)
<1> DEFINE one == memmove_Left(b, p, n)
<1>1. /\ one \in Seq(Char) /\ Len(one) = Len(b) /\ Len(b) \in Nat
      /\ \A i \in 1 .. Len(b) : one[i] = IF i > p /\ i < n THEN b[i + 1] ELSE b[i]
  BY Moved, LenProperties
<1> HIDE DEF one
<1>2. n - 1 \in Nat /\ n - 1 <= Len(one)
  BY <1>1
<1>3. new = memmove_Left(one, q, n - 1)
  BY DEF one, QuotesTaken
<1> HIDE DEF new
<1>4. /\ new \in Seq(Char) /\ Len(new) = Len(b)
      /\ \A i \in 1 .. Len(b) : new[i] = IF i > q /\ i < n - 1 THEN one[i + 1] ELSE one[i]
  BY <1>1, <1>2, <1>3, Moved
<1>5. ASSUME NEW i \in 1 .. q PROVE new[i] = b[i]
  <2>1. i \in 1 .. Len(b) /\ ~(i > q) /\ ~(i > p)
    BY <1>1
  <2>2. QED
    BY <1>1, <1>4, <2>1
<1>6. ASSUME NEW i \in q + 1 .. p - 1 PROVE new[i] = b[i + 1]
  <2>1. i \in 1 .. Len(b) /\ i + 1 \in 1 .. Len(b) /\ i > q /\ i < n - 1 /\ ~(i + 1 > p)
    BY <1>1
  <2>2. QED
    BY <1>1, <1>4, <2>1
<1>7. ASSUME NEW i \in p .. n - 2 PROVE new[i] = b[i + 2]
  <2>1. /\ i \in 1 .. Len(b) /\ i > q /\ i < n - 1
        /\ i + 1 \in 1 .. Len(b) /\ i + 1 > p /\ i + 1 < n /\ i + 1 + 1 = i + 2
    BY <1>1
  <2>2. new[i] = one[i + 1]
    BY <1>4, <2>1
  <2>3. one[i + 1] = b[i + 1 + 1]
    BY <1>1, <2>1
  <2>4. QED
    BY <2>1, <2>2, <2>3
<1>8. new[n - 2] = NUL
  <2>1. n - 2 \in p .. n - 2 /\ n - 2 + 2 = n
    BY <1>1
  <2>2. QED
    BY <1>7, <2>1
<1>9. QED
  BY <1>4, <1>5, <1>6, <1>7, <1>8 DEF new

-----------------------------------------------------------------------------
(* Tokens *)

\* A token whose cells up to its NUL stay the same is the same string.
LEMMA SameString ==
  ASSUME NEW p \in Nat, NEW n \in Nat, NEW e \in p + 1 .. n,
         buf \in Seq(Char), buf' \in Seq(Char), n <= Len(buf), Len(buf') = Len(buf),
         EndsAt(buf, p, e), \A i \in 1 .. n : buf'[i] = buf[i]
  PROVE  EndsAt(buf', p, e) /\ CString(p)' = CString(p)
<1> DEFINE F(b, i) == b[i] = NUL /\ \A j \in p + 1 .. i - 1 : b[j] # NUL
<1>1. Len(buf) \in Nat /\ e \in p + 1 .. Len(buf)
  BY LenProperties
<1>2. EndsAt(buf', p, e)
  BY <1>1 DEF EndsAt
<1>3. \A i \in p + 1 .. Len(buf) : F(buf, i) => i = e
  <2>1. SUFFICES ASSUME NEW i \in p + 1 .. Len(buf), F(buf, i) PROVE i = e
    OBVIOUS
  <2>2. ~(i < e) /\ ~(e < i)
    BY <1>1, <2>1 DEF EndsAt
  <2>3. QED
    BY <1>1, <2>2
<1>4. \A i \in p + 1 .. Len(buf) : F(buf', i) => i = e
  <2>1. SUFFICES ASSUME NEW i \in p + 1 .. Len(buf), F(buf', i) PROVE i = e
    OBVIOUS
  <2>2. ~(i < e) /\ ~(e < i)
    BY <1>1, <1>2, <2>1 DEF EndsAt
  <2>3. QED
    BY <1>1, <2>2
<1>5. F(buf, e) /\ F(buf', e)
  BY <1>2 DEF EndsAt
<1>6. (CHOOSE i \in p + 1 .. Len(buf) : F(buf, i)) = e
  BY <1>1, <1>3, <1>5
<1>7. (CHOOSE i \in p + 1 .. Len(buf) : F(buf', i)) = e
  BY <1>1, <1>4, <1>5
<1>8. CString(p) = SubSeq(buf, p + 1, e - 1)
  BY Zenon, <1>6 DEF CString
<1>9. CString(p)' = SubSeq(buf', p + 1, e - 1)
  BY Zenon, <1>7 DEF CString
<1>10. SubSeq(buf', p + 1, e - 1) = SubSeq(buf, p + 1, e - 1)
  <2>1. \A i \in p + 1 .. e - 1 : buf'[i] = buf[i]
    BY <1>1
  <2>2. QED
    BY <1>1, <2>1
<1>11. QED
  BY <1>2, <1>8, <1>9, <1>10

\* What was handed out stays as it is when nothing before the token being scanned
\* changes.
Kept == \A list \in {args, env} : \A i \in DOMAIN list : CString(list[i])' = CString(list[i])

\* What is behind start_pos may change; the tokens handed out end before it and stay.
LEMMA TokensKept ==
  ASSUME ScanInv, buf' \in Seq(Char), Len(buf') = Len(buf),
         start_pos' \in Nat, start_pos' >= start_pos,
         \A i \in 1 .. start_pos : buf'[i] = buf[i]
  PROVE  /\ Kept
         /\ \A list \in {args, env} : \A i \in DOMAIN list :
              \E e \in list[i] + 1 .. start_pos' : EndsAt(buf', list[i], e)
<1>1. SUFFICES ASSUME NEW list \in {args, env}, NEW i \in DOMAIN list
               PROVE  /\ CString(list[i])' = CString(list[i])
                      /\ \E e \in list[i] + 1 .. start_pos' : EndsAt(buf', list[i], e)
  BY DEF Kept
<1>2. list[i] \in Nat
  <2>1. list \in Seq(Nat)
    BY DEF ScanInv, LexerType
  <2>2. QED
    BY <2>1, LenProperties, ElementOfSeq
<1>3. PICK e \in list[i] + 1 .. start_pos : EndsAt(buf, list[i], e)
  BY <1>1 DEF ScanInv, Behind
<1>4. start_pos \in Nat /\ buf \in Seq(Char) /\ start_pos <= Len(buf)
  BY LenProperties DEF ScanInv, LexerType, BufferBounded
<1>5. EndsAt(buf', list[i], e) /\ CString(list[i])' = CString(list[i])
  BY <1>2, <1>3, <1>4, SameString
<1>6. e \in list[i] + 1 .. start_pos'
  BY <1>2, <1>3, <1>4
<1>7. QED
  BY <1>5, <1>6

-----------------------------------------------------------------------------
(* The steps of next_token *)

\* The facts a scanning step starts from.
LEMMA ScanFacts ==
  ASSUME ScanInv, Scanning(Delimiter)
  PROVE  /\ Len(buf) \in Nat /\ size <= Len(buf) /\ buf[size] = NUL
         /\ buf[pos + 1] # NUL /\ pos + 1 < size /\ start_pos <= pos
<1>1. /\ Len(buf) \in Nat /\ size \in Nat /\ pos \in Nat /\ start_pos \in Nat
      /\ pos < size /\ size <= Len(buf) /\ start_pos <= pos
  BY LenProperties DEF ScanInv, LexerType, BufferBounded, Scanning
<1>2. buf[size] = NUL
  <2>1. buf[size - 1 + 1] = NUL
    BY <1>1 DEF ScanInv, BufferBounded, At
  <2>2. size - 1 + 1 = size
    BY <1>1
  <2>3. QED
    BY <2>1, <2>2
<1>3. buf[pos + 1] # NUL
  BY DEF Scanning, At
<1>4. pos + 1 # size
  BY <1>2, <1>3
<1>5. QED
  BY <1>1, <1>2, <1>3, <1>4

\* A character is passed: the buffer stays as it is.
LEMMA Passed ==
  ASSUME ScanInv, Scanning(Delimiter), pos' = pos + 1, UNCHANGED <<buf, size, start_pos, contents>>,
         \/ UNCHANGED <<quote, quote_start>>
         \/ quote_start' = pos
  PROVE  ScanInv' /\ Kept
<1>1. /\ Len(buf) \in Nat /\ size <= Len(buf) /\ buf[size] = NUL
      /\ buf[pos + 1] # NUL /\ pos + 1 < size /\ start_pos <= pos
  BY ScanFacts
<1>2. LexerType' /\ LexerType
  BY DEF ScanInv, LexerType, contents
<1>3. BufferBounded'
  BY <1>1, <1>2 DEF ScanInv, BufferBounded, LexerType, At
<1>4. \A j \in start_pos' + 1 .. pos' : buf'[j] # NUL
  <2>1. SUFFICES ASSUME NEW j \in start_pos + 1 .. pos + 1 PROVE buf[j] # NUL
    OBVIOUS
  <2>2. j \in start_pos + 1 .. pos \/ j = pos + 1
    BY <1>2 DEF LexerType
  <2>3. QED
    BY <1>1, <2>2 DEF ScanInv
<1>5. /\ Kept
      /\ \A list \in {args, env} : \A i \in DOMAIN list :
           \E e \in list[i] + 1 .. start_pos' : EndsAt(buf', list[i], e)
  <2>1. start_pos' >= start_pos
    BY <1>2 DEF LexerType
  <2>2. QED
    BY <1>2, <2>1, TokensKept DEF LexerType
<1>6. QED
  BY <1>2, <1>3, <1>4, <1>5 DEF ScanInv, Behind, contents

\* The quotes of a token are taken out.
LEMMA Closed ==
  ASSUME ScanInv, Scanning(Delimiter), quote = At(pos), quote' = NUL,
         buf' = memmove_Left(memmove_Left(buf, pos, size), quote_start, size - 1),
         size' = size - 2, pos' = pos - 1, UNCHANGED <<start_pos, quote_start, args, env>>
  PROVE  ScanInv' /\ Kept
<1>1. /\ Len(buf) \in Nat /\ size <= Len(buf) /\ buf[size] = NUL
      /\ buf[pos + 1] # NUL /\ pos + 1 < size /\ start_pos <= pos
  BY ScanFacts
<1>2. LexerType
  BY DEF ScanInv
<1>3. start_pos <= quote_start /\ quote_start < pos
  <2>1. quote # NUL
    BY <1>1 DEF At
  <2>2. QED
    BY <2>1 DEF ScanInv, BufferBounded
<1>4. /\ buf' \in Seq(Char) /\ Len(buf') = Len(buf)
      /\ \A i \in 1 .. quote_start : buf'[i] = buf[i]
      /\ \A i \in quote_start + 1 .. pos - 1 : buf'[i] = buf[i + 1]
      /\ buf'[size - 2] = NUL
  <2>1. /\ buf \in Seq(Char) /\ pos \in Nat /\ quote_start \in Nat /\ size \in Nat
        /\ quote_start < pos /\ pos + 1 < size /\ size <= Len(buf) /\ buf[size] = NUL
    BY <1>1, <1>2, <1>3 DEF LexerType
  <2>2. buf' = QuotesTaken(buf, pos, quote_start, size)
    BY DEF QuotesTaken
  <2>3. /\ QuotesTaken(buf, pos, quote_start, size) \in Seq(Char)
        /\ Len(QuotesTaken(buf, pos, quote_start, size)) = Len(buf)
        /\ \A i \in 1 .. quote_start : QuotesTaken(buf, pos, quote_start, size)[i] = buf[i]
        /\ \A i \in quote_start + 1 .. pos - 1 :
              QuotesTaken(buf, pos, quote_start, size)[i] = buf[i + 1]
        /\ QuotesTaken(buf, pos, quote_start, size)[size - 2] = NUL
    BY <2>1, QuotesOut
  <2>4. QED
    BY <2>2, <2>3
<1>5. LexerType'
  BY <1>1, <1>2, <1>3, <1>4 DEF LexerType
<1>6. BufferBounded'
  <2>1. At(size - 1)' = NUL
    <3>1. size' - 1 + 1 = size - 2
      BY <1>2 DEF LexerType
    <3>2. QED
      BY <1>4, <3>1 DEF At
  <2>2. QED
    BY <1>1, <1>2, <1>3, <1>4, <2>1 DEF BufferBounded, LexerType
<1>7. \A j \in start_pos' + 1 .. pos' : buf'[j] # NUL
  <2>1. SUFFICES ASSUME NEW j \in start_pos + 1 .. pos - 1 PROVE buf'[j] # NUL
    OBVIOUS
  <2>2. CASE j <= quote_start
    <3>1. j \in 1 .. quote_start /\ j \in start_pos + 1 .. pos
      BY <1>2, <1>3, <2>2 DEF LexerType
    <3>2. QED
      BY <1>4, <3>1 DEF ScanInv
  <2>3. CASE j > quote_start
    <3>1. j \in quote_start + 1 .. pos - 1 /\ j + 1 \in start_pos + 1 .. pos
      BY <1>2, <1>3, <2>3 DEF LexerType
    <3>2. QED
      BY <1>4, <3>1 DEF ScanInv
  <2>4. QED
    BY <1>2, <2>2, <2>3 DEF LexerType
<1>8. /\ Kept
      /\ \A list \in {args, env} : \A i \in DOMAIN list :
           \E e \in list[i] + 1 .. start_pos' : EndsAt(buf', list[i], e)
  <2>1. \A i \in 1 .. start_pos : i \in 1 .. quote_start
    BY <1>2, <1>3 DEF LexerType
  <2>2. start_pos' \in Nat /\ start_pos' >= start_pos
    BY <1>2 DEF LexerType
  <2>3. QED
    BY <1>4, <2>1, <2>2, TokensKept
<1>9. QED
  BY <1>5, <1>6, <1>7, <1>8 DEF ScanInv, Behind

\* The token ends: the NUL written after it is its first, and all before it stays.
LEMMA TokenEnded ==
  ASSUME ScanInv, Token("OK"), EndToken
  PROVE  /\ LexerType' \/ ~(args' \in Seq(Nat) /\ env' \in Seq(Nat))
         /\ BufferBounded'
         /\ \A j \in start_pos' + 1 .. pos' : buf'[j] # NUL
         /\ Kept
         /\ \A list \in {args, env} : \A i \in DOMAIN list :
              \E e \in list[i] + 1 .. start_pos' : EndsAt(buf', list[i], e)
         /\ \E e \in start_pos + 1 .. start_pos' : EndsAt(buf', start_pos, e)
<1>1. LexerType /\ Len(buf) \in Nat /\ start_pos <= pos /\ size <= Len(buf)
  BY LenProperties DEF ScanInv, BufferBounded, LexerType
<1>2. quote = NUL /\ pos < size
  <2>1. quote # NUL => token_result = "UNFINISHED_QUOTE"
    BY DEF token_result
  <2>2. ~(pos < size) <=> pos >= size
    BY <1>1 DEF LexerType
  <2>3. quote = NUL /\ pos >= size => token_result = "END"
    BY <2>2 DEF token_result
  <2>4. token_result = "OK"
    BY DEF Token
  <2>5. QED
    BY <2>1, <2>2, <2>3, <2>4
<1>3. pos + 1 \in 1 .. Len(buf) /\ NUL \in Char
  <2>1. pos + 1 \in 1 .. Len(buf)
    BY <1>1, <1>2 DEF LexerType
  <2>2. NUL \in Char
    BY DEF Char
  <2>3. QED
    BY <2>1, <2>2
<1>4. /\ buf' \in Seq(Char) /\ Len(buf') = Len(buf)
      /\ \A j \in 1 .. Len(buf) : buf'[j] = IF j = pos + 1 THEN NUL ELSE buf[j]
  <2>1. buf \in Seq(Char) /\ buf' = [buf EXCEPT ![pos + 1] = NUL]
    BY <1>1, <1>2 DEF LexerType, EndToken
  <2>2. QED
    BY <1>3, <2>1, ExceptSeq
<1>5. pos' = pos + 1 /\ start_pos' = pos + 1 /\ quote' = NUL /\ size' = size /\ quote_start' = quote_start
  BY DEF EndToken
<1>6. BufferBounded'
  <2>1. At(size - 1)' = NUL
    <3>1. size \in 1 .. Len(buf) /\ size' - 1 + 1 = size /\ size - 1 + 1 = size /\ size > 0
      BY <1>1, <1>2, <1>5 DEF LexerType
    <3>2. buf[size] = NUL
      BY <3>1 DEF ScanInv, BufferBounded, At
    <3>3. QED
      BY <1>4, <3>1, <3>2 DEF At
  <2>2. QED
    BY <1>1, <1>2, <1>4, <1>5, <2>1 DEF BufferBounded, LexerType
<1>7. \A j \in start_pos' + 1 .. pos' : buf'[j] # NUL
  BY <1>1, <1>2, <1>5 DEF LexerType
<1>8. EndsAt(buf', start_pos, pos + 1) /\ pos + 1 \in start_pos + 1 .. start_pos'
  <2>1. ASSUME NEW j \in start_pos + 1 .. pos + 1 - 1 PROVE buf'[j] # NUL
    <3>1. j \in start_pos + 1 .. pos /\ j \in 1 .. Len(buf) /\ j # pos + 1
      BY <1>1, <1>2 DEF LexerType
    <3>2. QED
      BY <1>4, <3>1 DEF ScanInv
  <2>2. buf'[pos + 1] = NUL
    BY <1>3, <1>4
  <2>3. QED
    BY <1>1, <1>2, <1>5, <2>1, <2>2 DEF EndsAt, LexerType
<1>9. /\ Kept
      /\ \A list \in {args, env} : \A i \in DOMAIN list :
           \E e \in list[i] + 1 .. start_pos' : EndsAt(buf', list[i], e)
  <2>1. \A i \in 1 .. start_pos : i \in 1 .. Len(buf) /\ i # pos + 1
    BY <1>1, <1>2 DEF LexerType
  <2>2. start_pos' \in Nat /\ start_pos' >= start_pos
    BY <1>1, <1>2, <1>5 DEF LexerType
  <2>3. QED
    BY <1>4, <2>1, <2>2, TokensKept
<1>10. args' \in Seq(Nat) /\ env' \in Seq(Nat) => LexerType'
  BY <1>1, <1>2, <1>4, <1>5 DEF LexerType
<1>11. QED
  BY <1>6, <1>7, <1>8, <1>9, <1>10

\* A list with the token just ended as its last.
LEMMA Appended ==
  ASSUME NEW list \in Seq(Nat), start_pos \in Nat,
         \A i \in DOMAIN list : \E e \in list[i] + 1 .. start_pos' : EndsAt(buf', list[i], e),
         \E e \in start_pos + 1 .. start_pos' : EndsAt(buf', start_pos, e)
  PROVE  /\ Append(list, start_pos) \in Seq(Nat)
         /\ \A i \in DOMAIN Append(list, start_pos) :
              \E e \in Append(list, start_pos)[i] + 1 .. start_pos' :
                 EndsAt(buf', Append(list, start_pos)[i], e)
<1>1. /\ Append(list, start_pos) \in Seq(Nat) /\ Len(list) \in Nat
      /\ DOMAIN list = 1 .. Len(list)
      /\ DOMAIN Append(list, start_pos) = 1 .. Len(list) + 1
  BY LenProperties, AppendProperties
<1>2. SUFFICES ASSUME NEW i \in 1 .. Len(list) + 1
               PROVE  \E e \in Append(list, start_pos)[i] + 1 .. start_pos' :
                         EndsAt(buf', Append(list, start_pos)[i], e)
  BY <1>1
<1>3. CASE i = Len(list) + 1
  <2>1. Append(list, start_pos)[i] = start_pos
    BY <1>3, AppendProperties
  <2>2. QED
    BY <2>1
<1>4. CASE i # Len(list) + 1
  <2>1. i \in DOMAIN list
    BY <1>1, <1>4
  <2>2. Append(list, start_pos)[i] = list[i]
    BY <1>1, <2>1, AppendProperties
  <2>3. QED
    BY <2>1, <2>2
<1>5. QED
  BY <1>3, <1>4

-----------------------------------------------------------------------------
(* The steps of parse_cmdline, and what comes after *)

\* Every step of the scan and of the callers keeps the invariant and the tokens.
LEMMA CmdlineStep == ScanInv /\ [Next]_vars => ScanInv' /\ Kept
<1> SUFFICES ASSUME ScanInv, [Next]_vars PROVE ScanInv' /\ Kept
  OBVIOUS
<1>1. CASE UNCHANGED <<buf, size, pos, start_pos, quote, quote_start, args, env>>
  <2>1. ScanInv'
    BY <1>1 DEF ScanInv, LexerType, BufferBounded, At, Behind
  <2>2. Kept
    BY <1>1 DEF Kept, CString
  <2>3. QED
    BY <2>1, <2>2
<1>2. CASE ScanStep
  <2>1. UNCHANGED contents
    BY <1>2 DEF ScanStep
  <2>2. CASE Scanning(Delimiter) /\ pos' = pos + 1 /\ UNCHANGED <<buf, size, start_pos>>
             /\ (UNCHANGED <<quote, quote_start>> \/ quote_start' = pos)
    BY <2>1, <2>2, Passed
  <2>3. CASE /\ Scanning(Delimiter) /\ quote = At(pos) /\ quote' = NUL
             /\ buf' = memmove_Left(memmove_Left(buf, pos, size), quote_start, size - 1)
             /\ size' = size - 2 /\ pos' = pos - 1 /\ UNCHANGED <<start_pos, quote_start>>
    BY <2>1, <2>3, Closed DEF contents
  <2>4. QED
    BY <1>2, <2>2, <2>3 DEF ScanStep, Scan, ScanUnquoted, ScanQuoted, CloseQuote, scan
<1>3. ASSUME Token("OK"), EndToken,
             \/ env' = Append(env, start_pos) /\ args' = args
             \/ args' = Append(args, start_pos) /\ env' = env
      PROVE  ScanInv' /\ Kept
  <2>1. /\ LexerType' \/ ~(args' \in Seq(Nat) /\ env' \in Seq(Nat))
        /\ BufferBounded'
        /\ \A j \in start_pos' + 1 .. pos' : buf'[j] # NUL
        /\ Kept
        /\ \A list \in {args, env} : \A i \in DOMAIN list :
              \E e \in list[i] + 1 .. start_pos' : EndsAt(buf', list[i], e)
        /\ \E e \in start_pos + 1 .. start_pos' : EndsAt(buf', start_pos, e)
    BY <1>3, TokenEnded
  <2>2. args \in Seq(Nat) /\ env \in Seq(Nat) /\ start_pos \in Nat
    BY DEF ScanInv, LexerType
  <2>3. ASSUME NEW list \in {args, env}
        PROVE  /\ Append(list, start_pos) \in Seq(Nat)
               /\ \A i \in DOMAIN Append(list, start_pos) :
                    \E e \in Append(list, start_pos)[i] + 1 .. start_pos' :
                       EndsAt(buf', Append(list, start_pos)[i], e)
    <3>1. list \in Seq(Nat)
      BY <2>2
    <3>2. \A i \in DOMAIN list : \E e \in list[i] + 1 .. start_pos' : EndsAt(buf', list[i], e)
      BY <2>1
    <3>3. QED
      BY Zenon, <2>1, <2>2, <3>1, <3>2, Appended
  <2>4. args' \in Seq(Nat) /\ env' \in Seq(Nat)
    BY Zenon, <1>3, <2>2, <2>3
  <2>5. Behind(args)' /\ Behind(env)'
    BY Zenon, <1>3, <2>1, <2>3 DEF Behind
  <2>6. QED
    BY <2>1, <2>4, <2>5 DEF ScanInv
<1>4. CASE AddEnv \/ AddArg
  BY <1>3, <1>4 DEF AddEnv, AddArg
<1>5. CASE Strdup \/ StrdupFails \/ ParseFails \/ ParseEnds \/ Exec \/ ExecFails \/ Ended
  BY Zenon, <1>1, <1>5 DEF Strdup, StrdupFails, ParseFails, ParseEnds, Exec, ExecFails, Ended,
     vars, lexer, scan, contents
<1>6. CASE UNCHANGED vars
  BY <1>1, <1>6 DEF vars, lexer, scan, contents
<1>7. QED
  BY <1>2, <1>4, <1>5, <1>6 DEF Next

\* The invariant holds when the scan of a line begins.
LEMMA CmdlineInit == Init => ScanInv
<1> SUFFICES ASSUME Init PROVE ScanInv
  OBVIOUS
<1>1. text \in Seq(Char) /\ NUL \in Char
  <2>1. text \in Seq(STRING \ {NUL})
    BY Zenon, CmdlineAssumption DEF Init
  <2>2. STRING \ {NUL} \subseteq Char /\ NUL \in Char
    BY Zenon DEF Char
  <2>3. QED
    BY <2>1, <2>2, SeqMonotonic
<1>2. /\ buf = Append(text, NUL) /\ size = Len(text) + 1 /\ pos = 0
      /\ start_pos = 0 /\ quote = NUL /\ quote_start = 0 /\ args = <<>> /\ env = <<>>
  BY DEF Init, init_lexer
<1>3. /\ buf \in Seq(Char) /\ Len(buf) = Len(text) + 1 /\ Len(text) \in Nat
      /\ buf[Len(text) + 1] = NUL
  BY <1>1, <1>2, AppendProperties, LenProperties
<1>4. LexerType
  BY <1>2, <1>3 DEF LexerType
<1>5. BufferBounded
  <2>1. size - 1 + 1 = Len(text) + 1
    BY <1>2, <1>3
  <2>2. At(size - 1) = NUL
    BY <1>3, <2>1 DEF At
  <2>3. QED
    BY <1>2, <1>3, <2>2 DEF BufferBounded
<1>6. QED
  BY <1>2, <1>4, <1>5 DEF ScanInv, Behind

-----------------------------------------------------------------------------

\* The scan stays inside the copy and keeps it terminated, whatever the text is.
THEOREM BufferCorrect == Spec => []BufferBounded
BY CmdlineInit, CmdlineStep, PTL DEF Spec, ScanInv

\* No token handed out is changed by the scan of a later one, whatever the text is.
THEOREM TokensCorrect == Spec => TokensStable
<1>1. ScanInv /\ [Next]_vars =>
        [\A list \in {args, env} : \A i \in DOMAIN list : CString(list[i])' = CString(list[i])]_vars
  BY CmdlineStep DEF Kept
<1>2. QED
  BY <1>1, CmdlineInit, CmdlineStep, PTL DEF Spec, TokensStable

\* Cutting a line takes a step for each of its characters, whatever the text is.
THEOREM CharactersCorrect == Spec => EachCharacterOnce
<1>1. ScanInv /\ [Next]_vars =>
        [{pc, pc'} \subseteq {"env", "args"} => size' - pos' = size - pos - 1]_vars
  <2> SUFFICES ASSUME ScanInv, Next, pc \in {"env", "args"}, pc' \in {"env", "args"}
               PROVE  size' - pos' = size - pos - 1
    BY DEF vars
  <2>1. size \in Nat /\ pos \in Nat
    BY DEF ScanInv, LexerType
  <2>2. CASE ScanStep
    <3>1. (pos' = pos + 1 /\ size' = size) \/ (pos' = pos - 1 /\ size' = size - 2)
      BY <2>2 DEF ScanStep, Scan, ScanUnquoted, ScanQuoted, CloseQuote
    <3>2. QED
      BY <2>1, <3>1
  <2>3. CASE AddEnv \/ AddArg
    BY <2>1, <2>3 DEF AddEnv, AddArg, EndToken
  <2>4. CASE Strdup \/ StrdupFails \/ ParseFails \/ ParseEnds \/ Exec \/ ExecFails \/ Ended
    BY <2>4 DEF Strdup, StrdupFails, ParseFails, ParseEnds, Exec, ExecFails, Ended
  <2>5. QED
    BY <2>2, <2>3, <2>4 DEF Next
<1>2. QED
  BY <1>1, CmdlineInit, CmdlineStep, PTL DEF Spec, EachCharacterOnce

=============================================================================
