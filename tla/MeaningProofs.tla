---------------------------- MODULE MeaningProofs ----------------------------
(***************************************************************************)
(* What parse_cmdline makes of a command line, for every text: proofs      *)
(* about Cmdline.  The scan of next_token, inside a buffer whose quotes    *)
(* move out, keeps up with Reading, which takes the text character by      *)
(* character; so what is executed is what the line means.                  *)
(***************************************************************************)
EXTENDS CmdlineProofs, WellFoundedInduction

USE SMTT(60)

-----------------------------------------------------------------------------
(* Induction over numbers *)

\* Every set of numbers that is not empty has a least one: the form of induction used
\* below, with the numbers a statement fails for as the set.
LEMMA LeastNumber ==
  ASSUME NEW S, S \subseteq Nat, S # {}
  PROVE  \E m \in S : \A n \in S : m <= n
<1> DEFINE R == {ss \in Nat \X Nat : ss[1] < ss[2]}
<1>1. IsWellFoundedOn(R, Nat)
  BY Zenon, NatLessThanWellFounded DEF OpToRel
<1> HIDE DEF R
<1>2. PICK m \in S : \A n \in S : ~(<<n, m>> \in R)
  BY Zenon, <1>1, WFMin
<1>3. ASSUME NEW n \in S PROVE m <= n
  <2>1. m \in Nat /\ n \in Nat /\ ~(<<n, m>> \in R)
    BY Zenon, <1>2
  <2>2. <<n, m>> \in Nat \X Nat /\ <<n, m>>[1] = n /\ <<n, m>>[2] = m
    BY <2>1
  <2>3. ~(n < m)
    BY Zenon, <2>1, <2>2 DEF R
  <2>4. QED
    BY <2>1, <2>3
<1>4. QED
  BY Zenon, <1>3

\* A set of numbers with 0 that has the successor of each of its members below a bound
\* has all numbers up to the bound.
LEMMA UpTo ==
  ASSUME NEW S, NEW N \in Nat, 0 \in S, \A n \in 0 .. N - 1 : n \in S => n + 1 \in S
  PROVE  \A n \in 0 .. N : n \in S
<1> DEFINE Missing == {n \in 0 .. N : n \notin S}
<1>1. SUFFICES ASSUME Missing # {} PROVE FALSE
  BY Zenon
<1>2. Missing \subseteq Nat
  OBVIOUS
<1> HIDE DEF Missing
<1>3. PICK m \in Missing : \A n \in Missing : m <= n
  BY Zenon, <1>1, <1>2, LeastNumber
<1>4. m \in 0 .. N /\ m \notin S /\ m # 0
  BY Zenon, <1>3 DEF Missing
<1>5. m - 1 \in 0 .. N - 1 /\ m - 1 + 1 = m /\ ~(m <= m - 1) /\ m - 1 \in 0 .. N
  BY <1>4
<1>6. m - 1 \notin Missing
  BY Zenon, <1>3, <1>5
<1>7. m - 1 \in S
  BY Zenon, <1>5, <1>6 DEF Missing
<1>8. QED
  BY Zenon, <1>4, <1>5, <1>7

-----------------------------------------------------------------------------
(* What a line means *)

\* The function read of Reading, for the first n characters of a line.
Reads(f, line, n) ==
    f = [k \in 0 .. n |-> IF k = 0 THEN Nothing ELSE ReadChar(f[k - 1], line[k])]

\* It exists for every n: the reading of n characters extends to one of n + 1.
LEMMA ReadsExists ==
  ASSUME NEW line, NEW N \in Nat
  PROVE  \E f : Reads(f, line, N)
<1> DEFINE S == {n \in Nat : \E f : Reads(f, line, n)}
<1>1. 0 \in S
  <2>1. PICK f : f = [k \in 0 .. 0 |-> Nothing]
    BY Zenon
  <2>2. f = [k \in 0 .. 0 |-> IF k = 0 THEN Nothing ELSE ReadChar(f[k - 1], line[k])]
    BY <2>1
  <2>3. QED
    BY Zenon, <2>2 DEF Reads
<1>2. ASSUME NEW n \in 0 .. N - 1, n \in S PROVE n + 1 \in S
  <2>1. PICK f : Reads(f, line, n)
    BY Zenon, <1>2
  <2>2. PICK g : g = [k \in 0 .. n + 1 |->
                         IF k = n + 1 THEN ReadChar(f[n], line[n + 1]) ELSE f[k]]
    BY Zenon
  <2>3. ASSUME NEW k \in 0 .. n + 1
        PROVE  g[k] = IF k = 0 THEN Nothing ELSE ReadChar(g[k - 1], line[k])
    <3>1. CASE k = n + 1
      <4>1. g[k] = ReadChar(f[n], line[n + 1]) /\ k # 0 /\ k - 1 = n /\ n \in 0 .. n + 1 /\ n # n + 1
        BY <2>2, <3>1
      <4>2. g[n] = f[n]
        BY Zenon, <2>2, <4>1
      <4>3. QED
        BY Zenon, <3>1, <4>1, <4>2
    <3>2. CASE k # n + 1
      <4>1. k \in 0 .. n /\ (k # 0 => k - 1 \in 0 .. n + 1 /\ k - 1 # n + 1)
        BY <3>2
      <4>2. g[k] = f[k] /\ (k # 0 => g[k - 1] = f[k - 1])
        BY Zenon, <2>2, <3>2, <4>1
      <4>3. f[k] = IF k = 0 THEN Nothing ELSE ReadChar(f[k - 1], line[k])
        BY Zenon, <2>1, <4>1 DEF Reads
      <4>4. QED
        BY Zenon, <4>2, <4>3
    <3>3. QED
      BY Zenon, <3>1, <3>2
  <2>4. g = [k \in 0 .. n + 1 |-> g[k]]
    BY Zenon, <2>2
  <2>5. Reads(g, line, n + 1)
    BY Zenon, <2>3, <2>4 DEF Reads
  <2>6. n + 1 \in Nat
    OBVIOUS
  <2>7. QED
    BY Zenon, <2>5, <2>6
<1> HIDE DEF S
<1>3. N \in S
  <2>1. N \in 0 .. N
    OBVIOUS
  <2>2. QED
    BY Zenon, <1>1, <1>2, <2>1, UpTo
<1>4. QED
  BY Zenon, <1>3 DEF S

\* So Reading, what a command line means character by character, begins with nothing and
\* takes one character at each step.
LEMMA ReadingSteps ==
  ASSUME NEW line, Len(line) \in Nat
  PROVE  /\ Reading(line)[0] = Nothing
         /\ \A k \in 0 .. Len(line) - 1 :
              Reading(line)[k + 1] = ReadChar(Reading(line)[k], line[k + 1])
<1>1. Reads(Reading(line), line, Len(line))
  <2>1. PICK f : Reads(f, line, Len(line))
    BY Zenon, ReadsExists
  <2>2. f = [k \in 0 .. Len(line) |-> IF k = 0 THEN Nothing ELSE ReadChar(f[k - 1], line[k])]
    BY Zenon, <2>1 DEF Reads
  <2>3. Reading(line) = [k \in 0 .. Len(line) |->
                            IF k = 0 THEN Nothing ELSE ReadChar(Reading(line)[k - 1], line[k])]
    BY Zenon, <2>2 DEF Reading
  <2>4. QED
    BY Zenon, <2>3 DEF Reads
<1>2. \A k \in 0 .. Len(line) : Reading(line)[k] =
         IF k = 0 THEN Nothing ELSE ReadChar(Reading(line)[k - 1], line[k])
  BY Zenon, <1>1 DEF Reads
<1>3. 0 \in 0 .. Len(line)
  OBVIOUS
<1>4. \A j \in 0 .. Len(line) : j # 0 => Reading(line)[j] = ReadChar(Reading(line)[j - 1], line[j])
  BY Zenon, <1>2
<1>5. ASSUME NEW k \in 0 .. Len(line) - 1
      PROVE  Reading(line)[k + 1] = ReadChar(Reading(line)[k], line[k + 1])
  <2>1. PICK j \in 0 .. Len(line) : j = k + 1 /\ j # 0 /\ j - 1 = k
    OBVIOUS
  <2>2. Reading(line)[j] = ReadChar(Reading(line)[j - 1], line[j])
    BY Zenon, <1>4, <2>1
  <2>3. QED
    BY Zenon, <2>1, <2>2
<1>6. QED
  BY Zenon, <1>2, <1>3, <1>5

\* What a reading is.
Read == [words : Seq(Seq(STRING)), word : Seq(STRING), open : Char]

\* The four things a character of a command line can do: end a word, open a quote, close
\* it, or belong to the word.
LEMMA ReadCases ==
  ASSUME NEW r \in Read, NEW c \in STRING
  PROVE  /\ r.open = NUL /\ c = " " =>
               ReadChar(r, c) = [words |-> Append(r.words, r.word), word |-> <<>>, open |-> NUL]
         /\ r.open = NUL /\ c \in Quotes =>
               ReadChar(r, c) = [words |-> r.words, word |-> r.word, open |-> c]
         /\ r.open # NUL /\ r.open = c =>
               ReadChar(r, c) = [words |-> r.words, word |-> r.word, open |-> NUL]
         /\ (r.open = NUL /\ c # " " /\ c \notin Quotes) \/ (r.open # NUL /\ r.open # c) =>
               ReadChar(r, c) = [words |-> r.words, word |-> Append(r.word, c), open |-> r.open]
<1>1. " " \notin Quotes
  BY Zenon DEF Quotes
<1>2. PICK ws, w, p : r = [words |-> ws, word |-> w, open |-> p]
  BY Zenon DEF Read
<1>3. ASSUME NEW o PROVE [r EXCEPT !.open = o] = [words |-> r.words, word |-> r.word, open |-> o]
  BY <1>2
<1>4. [r EXCEPT !.word = Append(@, c)] =
        [words |-> r.words, word |-> Append(r.word, c), open |-> r.open]
  BY <1>2
<1>5. ASSUME r.open = NUL, c = " "
      PROVE  ReadChar(r, c) = [words |-> Append(r.words, r.word), word |-> <<>>, open |-> NUL]
  BY Zenon, <1>1, <1>5 DEF ReadChar
<1>6. ASSUME r.open = NUL, c \in Quotes
      PROVE  ReadChar(r, c) = [words |-> r.words, word |-> r.word, open |-> c]
  <2>1. c # " "
    BY Zenon, <1>1, <1>6
  <2>2. ReadChar(r, c) = [r EXCEPT !.open = c]
    BY Zenon, <1>6, <2>1 DEF ReadChar
  <2>3. QED
    BY Zenon, <1>3, <2>2
<1>7. ASSUME r.open # NUL, r.open = c
      PROVE  ReadChar(r, c) = [words |-> r.words, word |-> r.word, open |-> NUL]
  <2>1. ReadChar(r, c) = [r EXCEPT !.open = NUL]
    BY Zenon, <1>7 DEF ReadChar
  <2>2. QED
    BY Zenon, <1>3, <2>1
<1>8. ASSUME (r.open = NUL /\ c # " " /\ c \notin Quotes) \/ (r.open # NUL /\ r.open # c)
      PROVE  ReadChar(r, c) = [words |-> r.words, word |-> Append(r.word, c), open |-> r.open]
  <2>1. ReadChar(r, c) = [r EXCEPT !.word = Append(@, c)]
    BY Zenon, <1>8 DEF ReadChar
  <2>2. QED
    BY Zenon, <1>4, <2>1
<1>9. QED
  BY Zenon, <1>5, <1>6, <1>7, <1>8

\* A character makes a reading of a reading, and at most adds the word to those that are
\* over.
LEMMA ReadType ==
  ASSUME NEW r \in Read, NEW c \in STRING
  PROVE  /\ ReadChar(r, c) \in Read
         /\ ReadChar(r, c).words \in {r.words, Append(r.words, r.word)}
<1>1. /\ r.words \in Seq(Seq(STRING)) /\ r.word \in Seq(STRING) /\ r.open \in Char
      /\ NUL \in Char /\ c \in Char
  BY Zenon DEF Read, Char
<1>2. /\ Append(r.words, r.word) \in Seq(Seq(STRING)) /\ Append(r.word, c) \in Seq(STRING)
      /\ <<>> \in Seq(STRING)
  BY <1>1, AppendProperties, EmptySeq
<1>3. \A ws \in Seq(Seq(STRING)), w \in Seq(STRING), o \in Char :
         LET d == [words |-> ws, word |-> w, open |-> o] IN d \in Read /\ d.words = ws
  BY Zenon DEF Read
<1>4. \E ws \in {r.words, Append(r.words, r.word)}, w \in Seq(STRING), o \in Char :
         ReadChar(r, c) = [words |-> ws, word |-> w, open |-> o]
  <2>1. CASE r.open = NUL /\ c = " "
    BY Zenon, <1>1, <1>2, <2>1, ReadCases
  <2>2. CASE r.open = NUL /\ c \in Quotes
    BY Zenon, <1>1, <1>2, <2>2, ReadCases
  <2>3. CASE r.open # NUL /\ r.open = c
    BY Zenon, <1>1, <1>2, <2>3, ReadCases
  <2>4. CASE (r.open = NUL /\ c # " " /\ c \notin Quotes) \/ (r.open # NUL /\ r.open # c)
    BY Zenon, <1>1, <1>2, <2>4, ReadCases
  <2>5. QED
    BY Zenon, <2>1, <2>2, <2>3, <2>4
<1>5. PICK ws \in {r.words, Append(r.words, r.word)}, w \in Seq(STRING), o \in Char :
         ReadChar(r, c) = [words |-> ws, word |-> w, open |-> o]
  BY Zenon, <1>4
<1>6. ws \in Seq(Seq(STRING))
  BY Zenon, <1>1, <1>2
<1>7. [words |-> ws, word |-> w, open |-> o] \in Read /\ [words |-> ws, word |-> w, open |-> o].words = ws
  BY Zenon, <1>3, <1>6
<1>8. QED
  BY Zenon, <1>5, <1>7

\* The first characters of a command line come to a reading, however many they are.
LEMMA ReadingType ==
  ASSUME NEW line \in Seq(STRING)
  PROVE  \A k \in 0 .. Len(line) : Reading(line)[k] \in Read
<1> DEFINE S == {k \in 0 .. Len(line) : Reading(line)[k] \in Read}
<1>1. Len(line) \in Nat /\ \A k \in 1 .. Len(line) : line[k] \in STRING
  BY LenProperties, ElementOfSeq
<1>2. /\ Reading(line)[0] = Nothing
      /\ \A k \in 0 .. Len(line) - 1 :
           Reading(line)[k + 1] = ReadChar(Reading(line)[k], line[k + 1])
  BY Zenon, <1>1, ReadingSteps
<1>3. 0 \in S
  <2>1. <<>> \in Seq(Seq(STRING)) /\ <<>> \in Seq(STRING) /\ NUL \in Char
    BY EmptySeq DEF Char
  <2>2. Nothing \in Read
    BY Zenon, <2>1 DEF Nothing, Read
  <2>3. 0 \in 0 .. Len(line)
    BY <1>1
  <2>4. QED
    BY Zenon, <1>2, <2>2, <2>3
<1>4. ASSUME NEW k \in 0 .. Len(line) - 1, k \in S PROVE k + 1 \in S
  <2>1. k + 1 \in 1 .. Len(line) /\ k + 1 \in 0 .. Len(line)
    BY <1>1
  <2>2. ReadChar(Reading(line)[k], line[k + 1]) \in Read
    BY Zenon, <1>1, <1>4, <2>1, ReadType
  <2>3. QED
    BY Zenon, <1>2, <2>1, <2>2
<1> HIDE DEF S
<1>5. \A k \in 0 .. Len(line) : k \in S
  BY Zenon, <1>1, <1>3, <1>4, UpTo
<1>6. QED
  BY Zenon, <1>5 DEF S

\* The words that are over stay: the whole line begins with them.
LEMMA WordsGrow ==
  ASSUME NEW line \in Seq(STRING), NEW j \in 0 .. Len(line)
  PROVE  LET ws == Reading(line)[j].words
             all == Reading(line)[Len(line)].words
         IN  Len(ws) <= Len(all) /\ \A i \in 1 .. Len(ws) : all[i] = ws[i]
<1> DEFINE W(k) == Reading(line)[k].words
<1> DEFINE Good(k) == Len(W(j)) <= Len(W(k)) /\ \A i \in 1 .. Len(W(j)) : W(k)[i] = W(j)[i]
<1> DEFINE S == {n \in 0 .. Len(line) - j : Good(j + n)}
<1>1. /\ Len(line) \in Nat /\ Len(line) - j \in Nat
      /\ \A k \in 1 .. Len(line) : line[k] \in STRING
  BY LenProperties, ElementOfSeq
<1>2. \A k \in 0 .. Len(line) : W(k) \in Seq(Seq(STRING)) /\ Len(W(k)) \in Nat
  <2>1. SUFFICES ASSUME NEW k \in 0 .. Len(line) PROVE W(k) \in Seq(Seq(STRING)) /\ Len(W(k)) \in Nat
    BY Zenon
  <2>2. Reading(line)[k] \in Read
    BY Zenon, ReadingType
  <2>3. Reading(line)[k].words \in Seq(Seq(STRING))
    BY Zenon, <2>2 DEF Read
  <2>4. QED
    BY <2>3, LenProperties
<1>3. ASSUME NEW k \in 0 .. Len(line) - 1
      PROVE  W(k + 1) = W(k) \/ \E w \in Seq(STRING) : W(k + 1) = Append(W(k), w)
  <2>1. k \in 0 .. Len(line) /\ k + 1 \in 1 .. Len(line)
    BY <1>1
  <2>2. Reading(line)[k] \in Read /\ line[k + 1] \in STRING
    BY Zenon, <1>1, <2>1, ReadingType
  <2>3. Reading(line)[k + 1] = ReadChar(Reading(line)[k], line[k + 1])
    BY Zenon, <1>1, ReadingSteps
  <2>4. Reading(line)[k].word \in Seq(STRING)
    BY Zenon, <2>2 DEF Read
  <2>5. ReadChar(Reading(line)[k], line[k + 1]).words
           \in {Reading(line)[k].words, Append(Reading(line)[k].words, Reading(line)[k].word)}
    BY Zenon, <2>2, ReadType
  <2>6. QED
    BY Zenon, <2>3, <2>4, <2>5
<1> HIDE DEF W
<1>4. 0 \in S
  BY <1>1, <1>2
<1>5. ASSUME NEW n \in 0 .. Len(line) - j - 1, n \in S PROVE n + 1 \in S
  <2>1. /\ j + n \in 0 .. Len(line) - 1 /\ j + n \in 0 .. Len(line) /\ j + (n + 1) = j + n + 1
        /\ n + 1 \in 0 .. Len(line) - j
    BY <1>1
  <2>2. Good(j + n)
    BY Zenon, <1>5
  <2>3. CASE W(j + n + 1) = W(j + n)
    BY Zenon, <2>1, <2>2, <2>3
  <2>4. ASSUME NEW w \in Seq(STRING), W(j + n + 1) = Append(W(j + n), w)
        PROVE  n + 1 \in S
    <3>1. /\ W(j + n) \in Seq(Seq(STRING)) /\ Len(W(j + n)) \in Nat /\ Len(W(j)) \in Nat
      BY Zenon, <1>2, <2>1
    <3>2. LET a == Append(W(j + n), w)
          IN  Len(a) = Len(W(j + n)) + 1 /\ \A i \in 1 .. Len(W(j + n)) : a[i] = W(j + n)[i]
      BY <3>1, AppendProperties
    <3>3. /\ Len(W(j + n + 1)) = Len(W(j + n)) + 1
          /\ \A i \in 1 .. Len(W(j + n)) : W(j + n + 1)[i] = W(j + n)[i]
      BY Zenon, <2>4, <3>2
    <3>4. Good(j + n + 1)
      BY <2>2, <3>1, <3>3
    <3>5. QED
      BY Zenon, <2>1, <3>4
  <2>5. QED
    BY Zenon, <1>3, <2>1, <2>3, <2>4
<1> HIDE DEF S
<1>6. Len(line) - j \in S
  <2>1. Len(line) - j \in 0 .. Len(line) - j
    BY <1>1
  <2>2. QED
    BY Zenon, <1>1, <1>4, <1>5, <2>1, UpTo
<1>7. j + (Len(line) - j) = Len(line)
  BY <1>1
<1>8. QED
  BY Zenon, <1>6, <1>7 DEF S, W

-----------------------------------------------------------------------------
(* The scan follows the text *)

\* The quotes next_token took out of the buffer so far, and the characters of the text
\* it has passed.
Gone == Len(text) + 1 - size
Consumed == pos + Gone

\* The token being scanned, without the quote that is open, is the word w.
Gathered(w) ==
    /\ Len(w) = pos - start_pos - (IF quote = NUL THEN 0 ELSE 1)
    /\ \A i \in 1 .. Len(w) :
          w[i] = buf[start_pos + i + (IF quote # NUL /\ start_pos + i > quote_start THEN 1 ELSE 0)]

\* The C string at an offset of a buffer.
StringIn(b, p) ==
    LET end == CHOOSE i \in p + 1 .. Len(b) : b[i] = NUL /\ \A j \in p + 1 .. i - 1 : b[j] # NUL
    IN  SubSeq(b, p + 1, end - 1)

\* The words are those parse_cmdline was handed, environment first.
Given(words) ==
    /\ Len(words) = Len(env) + Len(args)
    /\ \A i \in 1 .. Len(env) : words[i] = StringIn(buf, env[i])
    /\ \A i \in 1 .. Len(args) : words[Len(env) + i] = StringIn(buf, args[i])

\* They are sorted into tables with room for a NULL: the variables have an equals sign,
\* the program has none.
Sorted(words) ==
    /\ Len(env) < ENV_MAX /\ Len(args) < ARGS_MAX
    /\ \A i \in 1 .. Len(words) : words[i] # <<>>
    /\ \A i \in 1 .. Len(env) : Equals(words[i])
    /\ Len(args) > 0 => ~Equals(words[Len(env) + 1])

\* The scan is as far in the buffer as Reading is in the text: what is ahead of it is the
\* rest of the text, the token being scanned is the word being read, and the tokens handed
\* out are the words that are over.
Here == Reading(text)[Consumed]
Follows ==
    /\ size <= Len(text) + 1
    /\ \A i \in pos + 1 .. size - 1 : buf[i] = text[i + Gone]
    /\ pos < size => Here.open = quote /\ Gathered(Here.word) /\ Given(Here.words) /\ Sorted(Here.words)
    /\ pos = size => Open(text) = NUL /\ quote = NUL /\ Given(Words(text)) /\ Sorted(Words(text))

\* A C string holds no NUL before its end.
TextType == text \in Seq(STRING \ {NUL})

\* The text parse_cmdline gets, as a sequence of characters.
LEMMA TextFacts ==
  ASSUME TextType
  PROVE  /\ text \in Seq(STRING) /\ Len(text) \in Nat
         /\ \A i \in 1 .. Len(text) : text[i] \in STRING /\ text[i] # NUL
<1>1. STRING \ {NUL} \subseteq STRING
  BY Zenon
<1>2. text \in Seq(STRING) /\ Len(text) \in Nat
  BY <1>1, SeqMonotonic, LenProperties DEF TextType
<1>3. \A i \in 1 .. Len(text) : text[i] \in STRING \ {NUL}
  BY ElementOfSeq DEF TextType
<1>4. QED
  BY Zenon, <1>2, <1>3

\* Before the end of the buffer the scan is at a reading, and ahead of it is a character
\* of the text, or the NUL at the end.
LEMMA HereType ==
  ASSUME ScanInv, TextType, Follows, pos < size
  PROVE  /\ Consumed \in 0 .. Len(text) /\ Here \in Read
         /\ Here.open = quote /\ Here.word \in Seq(STRING) /\ Here.words \in Seq(Seq(STRING))
         /\ Gathered(Here.word) /\ Given(Here.words) /\ Sorted(Here.words)
         /\ (Consumed = Len(text) <=> pos + 1 = size)
         /\ pos + 1 < size => /\ Consumed \in 0 .. Len(text) - 1
                              /\ text[Consumed + 1] = buf[pos + 1]
                              /\ buf[pos + 1] \in STRING /\ buf[pos + 1] # NUL
<1>1. /\ text \in Seq(STRING) /\ Len(text) \in Nat
      /\ \A i \in 1 .. Len(text) : text[i] \in STRING /\ text[i] # NUL
  BY TextFacts
<1>2. size \in Nat /\ pos \in Nat /\ size <= Len(text) + 1
  BY DEF ScanInv, LexerType, Follows
<1>3. /\ Consumed \in 0 .. Len(text)
      /\ Consumed = Len(text) <=> pos + 1 = size
  BY <1>1, <1>2 DEF Consumed, Gone
<1>4. Here \in Read
  BY Zenon, <1>1, <1>3, ReadingType DEF Here
<1>5. Here.word \in Seq(STRING) /\ Here.words \in Seq(Seq(STRING))
  BY Zenon, <1>4 DEF Read
<1>6. Here.open = quote /\ Gathered(Here.word) /\ Given(Here.words) /\ Sorted(Here.words)
  BY Zenon DEF Follows
<1>7. ASSUME pos + 1 < size
      PROVE  /\ Consumed \in 0 .. Len(text) - 1
             /\ text[Consumed + 1] = buf[pos + 1]
             /\ buf[pos + 1] \in STRING /\ buf[pos + 1] # NUL
  <2>1. /\ Consumed \in 0 .. Len(text) - 1 /\ pos + 1 + Gone = Consumed + 1
        /\ Consumed + 1 \in 1 .. Len(text) /\ pos + 1 \in pos + 1 .. size - 1
    BY <1>1, <1>2, <1>7 DEF Consumed, Gone
  <2>2. buf[pos + 1] = text[pos + 1 + Gone]
    BY Zenon, <2>1 DEF Follows
  <2>3. text[Consumed + 1] = buf[pos + 1]
    BY Zenon, <2>1, <2>2
  <2>4. text[Consumed + 1] \in STRING /\ text[Consumed + 1] # NUL
    BY Zenon, <1>1, <2>1
  <2>5. QED
    BY Zenon, <2>1, <2>3, <2>4
<1>8. QED
  BY Zenon, <1>3, <1>4, <1>5, <1>6, <1>7

\* Passing the character under the position is reading one character more.
LEMMA NextRead ==
  ASSUME ScanInv, TextType, Follows, pos + 1 < size
  PROVE  Reading(text)[Consumed + 1] = ReadChar(Here, buf[pos + 1])
<1>1. pos < size
  BY DEF ScanInv, LexerType
<1>2. Consumed \in 0 .. Len(text) - 1 /\ text[Consumed + 1] = buf[pos + 1]
  BY Zenon, <1>1, HereType
<1>3. Len(text) \in Nat
  BY Zenon, TextFacts
<1>4. Reading(text)[Consumed + 1] = ReadChar(Reading(text)[Consumed], text[Consumed + 1])
  BY Zenon, <1>2, <1>3, ReadingSteps
<1>5. QED
  BY Zenon, <1>2, <1>4 DEF Here

\* A step of next_token that hands nothing out leaves the words in the tables as they are.
LEMMA GivenKept ==
  ASSUME NEW ws, Given(ws), Sorted(ws), Kept, UNCHANGED contents,
         args \in Seq(Nat), env \in Seq(Nat)
  PROVE  Given(ws)' /\ Sorted(ws)'
<1>1. args' = args /\ env' = env
  BY Zenon DEF contents
<1>2. \A list \in {args, env} : \A i \in DOMAIN list : StringIn(buf', list[i]) = StringIn(buf, list[i])
  BY Zenon DEF Kept, CString, StringIn
<1>3. DOMAIN env = 1 .. Len(env) /\ DOMAIN args = 1 .. Len(args)
  BY LenProperties
<1>4. /\ \A i \in 1 .. Len(env) : StringIn(buf', env[i]) = StringIn(buf, env[i])
      /\ \A i \in 1 .. Len(args) : StringIn(buf', args[i]) = StringIn(buf, args[i])
  BY Zenon, <1>2, <1>3
<1>5. QED
  BY Zenon, <1>1, <1>4 DEF Given, Sorted

\* What a step of next_token must do for the buffer to keep up with the text.
LEMMA FollowsNext ==
  ASSUME NEW ws, NEW w, text' = text, pos' < size', size' <= Len(text) + 1,
         \A i \in pos' + 1 .. size' - 1 : buf'[i] = text[i + Gone'],
         pos' \in Nat, size' \in Nat,
         Here' = [words |-> ws, word |-> w, open |-> quote'], Gathered(w)', Given(ws)', Sorted(ws)'
  PROVE  Follows'
<1>1. Here'.words = ws /\ Here'.word = w /\ Here'.open = quote'
  BY Zenon
<1>2. Gathered(Here.word)' /\ Given(Here.words)' /\ Sorted(Here.words)'
  BY Zenon, <1>1 DEF Gathered, Given, Sorted
<1>3. pos' # size'
  OBVIOUS
<1>4. QED
  BY Zenon, <1>1, <1>2, <1>3 DEF Follows

\* t is the sequence s with one more element, x.
Extended(s, x, t) ==
    /\ Len(s) \in Nat /\ Len(t) = Len(s) + 1
    /\ \A i \in 1 .. Len(s) : t[i] = s[i]
    /\ t[Len(s) + 1] = x

\* Append, for a word with one more character and a table with one more token.
LEMMA OneMore ==
  ASSUME NEW S, NEW s \in Seq(S), NEW x \in S
  PROVE  Extended(s, x, Append(s, x))
BY AppendProperties, LenProperties DEF Extended

\* Passing a character, next_token keeps up with the text: a quote opens, or the word
\* grows (lexer.c, the loop of next_token).
LEMMA FollowsPassed ==
  ASSUME ScanInv, TextType, Follows, Kept, Scanning(Delimiter), pos' = pos + 1,
         UNCHANGED <<buf, size, start_pos, contents, text>>,
         \/ quote = NUL /\ At(pos) \in Quotes /\ quote' = At(pos) /\ quote_start' = pos
         \/ quote = NUL /\ At(pos) \notin Quotes /\ UNCHANGED <<quote, quote_start>>
         \/ quote # NUL /\ quote # At(pos) /\ UNCHANGED <<quote, quote_start>>
  PROVE  Follows'
<1>1. /\ buf[pos + 1] # NUL /\ pos + 1 < size /\ start_pos <= pos
      /\ pos \in Nat /\ size \in Nat /\ start_pos \in Nat /\ quote_start \in Nat
      /\ args \in Seq(Nat) /\ env \in Seq(Nat) /\ pos < size
  BY ScanFacts DEF ScanInv, LexerType
<1>2. PICK c : c = buf[pos + 1]
  BY Zenon
<1>3. /\ Here \in Read /\ Here.open = quote /\ c \in STRING
      /\ Here.word \in Seq(STRING) /\ Gathered(Here.word) /\ Given(Here.words) /\ Sorted(Here.words)
  BY Zenon, <1>1, <1>2, HereType
<1>4. Here' = ReadChar(Here, c)
  <2>1. Consumed' = Consumed + 1
    <3>1. Len(text) \in Nat
      BY Zenon, TextFacts
    <3>2. QED
      BY <1>1, <3>1 DEF Consumed, Gone
  <2>2. QED
    BY Zenon, <1>1, <1>2, <2>1, NextRead DEF Here
<1>5. PICK ws, w : ws = Here.words /\ w = Here.word
  BY Zenon
<1>6. Given(ws) /\ Sorted(ws) /\ Gathered(w) /\ w \in Seq(STRING)
  BY Zenon, <1>3, <1>5
<1>7. Given(ws)' /\ Sorted(ws)'
  BY Zenon, <1>1, <1>6, GivenKept
<1>8. /\ text' = text /\ pos' < size' /\ size' <= Len(text) + 1 /\ pos' \in Nat /\ size' \in Nat
      /\ \A i \in pos' + 1 .. size' - 1 : buf'[i] = text[i + Gone']
  <2>1. size' <= Len(text) + 1 /\ Gone' = Gone
    BY Zenon DEF Follows, Gone
  <2>2. \A i \in pos' + 1 .. size' - 1 : i \in pos + 1 .. size - 1
    BY <1>1
  <2>3. \A i \in pos' + 1 .. size' - 1 : buf'[i] = text[i + Gone']
    BY Zenon, <2>1, <2>2 DEF Follows
  <2>4. QED
    BY <1>1, <2>1, <2>3
<1>9. At(pos) = c
  BY Zenon, <1>2 DEF At
<1>10. /\ Len(w) \in Nat /\ Len(Append(w, c)) = Len(w) + 1
       /\ \A i \in 1 .. Len(w) : Append(w, c)[i] = w[i]
       /\ Append(w, c)[Len(w) + 1] = c
  <2>1. Extended(w, c, Append(w, c))
    BY Zenon, <1>3, <1>6, OneMore
  <2>2. QED
    BY Zenon, <2>1 DEF Extended
<1>11. CASE quote = NUL /\ At(pos) \in Quotes /\ quote' = At(pos) /\ quote_start' = pos
  <2>1. Here' = [words |-> ws, word |-> w, open |-> quote']
    BY Zenon, <1>3, <1>4, <1>5, <1>9, <1>11, ReadCases
  <2>2. Gathered(w)'
    <3>1. quote' # NUL /\ start_pos' = start_pos /\ buf' = buf
      BY Zenon, <1>1, <1>2, <1>9, <1>11
    <3>2. Len(w) = pos - start_pos /\ \A i \in 1 .. Len(w) : w[i] = buf[start_pos + i]
      BY <1>1, <1>6, <1>11 DEF Gathered
    <3>3. /\ Len(w) = pos' - start_pos - 1
          /\ \A i \in 1 .. Len(w) : ~(start_pos + i > quote_start') /\ start_pos + i + 0 = start_pos + i
      BY <1>1, <1>11, <3>2
    <3>4. QED
      BY Zenon, <3>1, <3>2, <3>3 DEF Gathered
  <2>3. QED
    BY Zenon, <1>7, <1>8, <2>1, <2>2, FollowsNext
<1>12. CASE quote = NUL /\ At(pos) \notin Quotes /\ UNCHANGED <<quote, quote_start>>
  <2>1. Here' = [words |-> ws, word |-> Append(w, c), open |-> quote']
    <3>1. c # " "
      BY Zenon, <1>9, <1>12 DEF Scanning, Delimiter
    <3>2. QED
      BY Zenon, <1>3, <1>4, <1>5, <1>9, <1>12, <3>1, ReadCases
  <2>2. Gathered(Append(w, c))'
    <3>1. quote' = NUL /\ start_pos' = start_pos /\ buf' = buf
      BY Zenon, <1>12
    <3>2. Len(w) = pos - start_pos /\ \A i \in 1 .. Len(w) : w[i] = buf[start_pos + i]
      BY <1>1, <1>6, <1>12 DEF Gathered
    <3>3. /\ Len(Append(w, c)) = pos' - start_pos - 0 /\ start_pos + (Len(w) + 1) = pos + 1
          /\ \A i \in 1 .. Len(Append(w, c)) :
               (i \in 1 .. Len(w) \/ i = Len(w) + 1) /\ start_pos + i + 0 = start_pos + i
      BY <1>1, <1>10, <1>12, <3>2
    <3>4. \A i \in 1 .. Len(Append(w, c)) : Append(w, c)[i] = buf[start_pos + i]
      BY Zenon, <1>2, <1>10, <3>2, <3>3
    <3>5. QED
      BY Zenon, <3>1, <3>3, <3>4 DEF Gathered
  <2>3. QED
    BY Zenon, <1>7, <1>8, <2>1, <2>2, FollowsNext
<1>13. CASE quote # NUL /\ quote # At(pos) /\ UNCHANGED <<quote, quote_start>>
  <2>1. Here' = [words |-> ws, word |-> Append(w, c), open |-> quote']
    BY Zenon, <1>3, <1>4, <1>5, <1>9, <1>13, ReadCases
  <2>2. Gathered(Append(w, c))'
    <3>1. quote' # NUL /\ start_pos' = start_pos /\ buf' = buf /\ quote_start' = quote_start
      BY Zenon, <1>13
    <3>2. quote_start < pos
      BY Zenon, <1>13 DEF ScanInv, BufferBounded
    <3>3. /\ Len(w) = pos - start_pos - 1
          /\ \A i \in 1 .. Len(w) : w[i] = buf[start_pos + i + (IF start_pos + i > quote_start THEN 1 ELSE 0)]
      BY Zenon, <1>6, <1>13 DEF Gathered
    <3>4. /\ Len(Append(w, c)) = pos' - start_pos - 1 /\ start_pos + (Len(w) + 1) + 1 = pos + 1
          /\ start_pos + (Len(w) + 1) > quote_start
          /\ \A i \in 1 .. Len(Append(w, c)) : i \in 1 .. Len(w) \/ i = Len(w) + 1
      BY <1>1, <1>10, <3>2, <3>3
    <3>5. \A i \in 1 .. Len(Append(w, c)) :
             Append(w, c)[i] = buf[start_pos + i + (IF start_pos + i > quote_start THEN 1 ELSE 0)]
      BY Zenon, <1>2, <1>10, <3>3, <3>4
    <3>6. QED
      BY Zenon, <3>1, <3>4, <3>5 DEF Gathered
  <2>3. QED
    BY Zenon, <1>7, <1>8, <2>1, <2>2, FollowsNext
<1>14. QED
  BY Zenon, <1>11, <1>12, <1>13

\* Taking the two quotes out of the buffer is reading the closing one: the word stays,
\* and what is ahead moves with the position (both memmoves of lexer.c).
LEMMA FollowsClosed ==
  ASSUME ScanInv, TextType, Follows, Kept, Scanning(Delimiter), quote = At(pos), quote' = NUL,
         buf' = memmove_Left(memmove_Left(buf, pos, size), quote_start, size - 1),
         size' = size - 2, pos' = pos - 1, UNCHANGED <<start_pos, quote_start, contents, text>>
  PROVE  Follows'
<1>1. /\ buf[pos + 1] # NUL /\ pos + 1 < size /\ start_pos <= pos /\ size <= Len(buf) /\ buf[size] = NUL
      /\ pos \in Nat /\ size \in Nat /\ start_pos \in Nat /\ quote_start \in Nat /\ buf \in Seq(Char)
      /\ args \in Seq(Nat) /\ env \in Seq(Nat) /\ pos < size
  BY ScanFacts DEF ScanInv, LexerType
<1>2. PICK c : c = buf[pos + 1] /\ c = quote /\ c # NUL
  BY Zenon, <1>1 DEF At
<1>3. start_pos <= quote_start /\ quote_start < pos
  BY Zenon, <1>2 DEF ScanInv, BufferBounded
<1>4. /\ \A i \in 1 .. quote_start : buf'[i] = buf[i]
      /\ \A i \in quote_start + 1 .. pos - 1 : buf'[i] = buf[i + 1]
      /\ \A i \in pos .. size - 2 : buf'[i] = buf[i + 2]
  <2>1. buf' = QuotesTaken(buf, pos, quote_start, size)
    BY Zenon DEF QuotesTaken
  <2>2. /\ \A i \in 1 .. quote_start : QuotesTaken(buf, pos, quote_start, size)[i] = buf[i]
        /\ \A i \in quote_start + 1 .. pos - 1 :
              QuotesTaken(buf, pos, quote_start, size)[i] = buf[i + 1]
        /\ \A i \in pos .. size - 2 : QuotesTaken(buf, pos, quote_start, size)[i] = buf[i + 2]
    BY <1>1, <1>3, QuotesOut
  <2>3. QED
    BY Zenon, <2>1, <2>2
<1>5. /\ Here \in Read /\ Here.open = quote /\ c \in STRING
      /\ Here.word \in Seq(STRING) /\ Gathered(Here.word) /\ Given(Here.words) /\ Sorted(Here.words)
  BY Zenon, <1>1, <1>2, HereType
<1>6. Len(text) \in Nat /\ size <= Len(text) + 1
  BY Zenon, TextFacts DEF Follows
<1>7. Here' = ReadChar(Here, c)
  <2>1. Consumed' = Consumed + 1
    BY <1>1, <1>6 DEF Consumed, Gone
  <2>2. QED
    BY Zenon, <1>1, <1>2, <2>1, NextRead DEF Here
<1>8. PICK ws, w : ws = Here.words /\ w = Here.word
  BY Zenon
<1>9. Given(ws) /\ Sorted(ws) /\ Gathered(w) /\ w \in Seq(STRING)
  BY Zenon, <1>5, <1>8
<1>10. Given(ws)' /\ Sorted(ws)'
  BY Zenon, <1>1, <1>9, GivenKept
<1>11. Here' = [words |-> ws, word |-> w, open |-> quote']
  BY Zenon, <1>2, <1>5, <1>7, <1>8, ReadCases
<1>12. Gathered(w)'
  <2>1. /\ Len(w) = pos - start_pos - 1
        /\ \A i \in 1 .. Len(w) : w[i] = buf[start_pos + i + (IF start_pos + i > quote_start THEN 1 ELSE 0)]
    BY Zenon, <1>2, <1>9 DEF Gathered
  <2>2. ASSUME NEW i \in 1 .. Len(w) PROVE w[i] = buf'[start_pos + i + 0]
    <3>1. CASE start_pos + i > quote_start
      <4>1. start_pos + i \in quote_start + 1 .. pos - 1 /\ start_pos + i + 0 = start_pos + i
        BY <1>1, <2>1, <3>1
      <4>2. QED
        BY Zenon, <1>4, <2>1, <3>1, <4>1
    <3>2. CASE ~(start_pos + i > quote_start)
      <4>1. start_pos + i \in 1 .. quote_start /\ start_pos + i + 0 = start_pos + i
        BY <1>1, <2>1, <3>2
      <4>2. QED
        BY Zenon, <1>4, <2>1, <3>2, <4>1
    <3>3. QED
      BY Zenon, <3>1, <3>2
  <2>3. Len(w) = pos' - start_pos' - 0
    BY <1>1, <2>1
  <2>4. QED
    BY Zenon, <2>2, <2>3 DEF Gathered
<1>13. /\ pos' < size' /\ size' <= Len(text) + 1 /\ pos' \in Nat /\ size' \in Nat
       /\ Gone' = Gone + 2 /\ Gone \in Int
  BY <1>1, <1>3, <1>6 DEF Gone
<1>14. ASSUME NEW i \in pos' + 1 .. size' - 1 PROVE buf'[i] = text[i + Gone']
  <2>1. i \in pos .. size - 2 /\ i + 2 \in pos + 1 .. size - 1 /\ i + 2 + Gone = i + Gone'
    BY <1>1, <1>3, <1>13
  <2>2. buf'[i] = buf[i + 2] /\ buf[i + 2] = text[i + 2 + Gone]
    BY Zenon, <1>4, <2>1 DEF Follows
  <2>3. QED
    BY Zenon, <2>1, <2>2
<1>15. QED
  BY Zenon, <1>10, <1>11, <1>12, <1>13, <1>14, FollowsNext

\* The scan of a token stops at the end of the text or at a blank outside quotes.
LEMMA Stopped ==
  ASSUME ScanInv, TextType, Follows, ~Scanning(Delimiter), pos < size
  PROVE  \/ buf[pos + 1] = NUL /\ pos + 1 = size /\ Consumed = Len(text)
         \/ quote = NUL /\ buf[pos + 1] = " " /\ pos + 1 < size
<1>1. /\ pos \in Nat /\ size \in Nat /\ (size > 0 => At(size - 1) = NUL)
      /\ pos + 1 = size \/ pos + 1 < size
  BY DEF ScanInv, LexerType, BufferBounded
<1>2. size - 1 + 1 = size /\ size > 0
  BY <1>1
<1>3. buf[size] = NUL
  BY Zenon, <1>1, <1>2 DEF At
<1>4. CASE pos + 1 = size
  BY Zenon, <1>3, <1>4, HereType
<1>5. CASE pos + 1 < size
  BY Zenon, <1>5, HereType DEF Scanning, At, Delimiter
<1>6. QED
  BY Zenon, <1>1, <1>4, <1>5

\* When it stops outside quotes, the word being read is a word of the line, and follows
\* those handed out.
LEMMA TokenRead ==
  ASSUME ScanInv, TextType, Follows, ~Scanning(Delimiter), pos < size, quote = NUL
  PROVE  /\ Len(Here.words) \in Nat
         /\ Len(Words(text)) \in Nat /\ Len(Here.words) < Len(Words(text))
         /\ \A i \in 1 .. Len(Here.words) : Words(text)[i] = Here.words[i]
         /\ Words(text)[Len(Here.words) + 1] = Here.word
         /\ pos + 1 = size => Words(text) = Append(Here.words, Here.word) /\ Open(text) = NUL
<1>1. /\ text \in Seq(STRING) /\ Len(text) \in Nat
  BY Zenon, TextFacts
<1>2. /\ Consumed \in 0 .. Len(text) /\ Here \in Read /\ Here.open = quote
      /\ Here.word \in Seq(STRING) /\ Here.words \in Seq(Seq(STRING))
      /\ (Consumed = Len(text) <=> pos + 1 = size)
  BY Zenon, HereType
<1> DEFINE last == Reading(text)[Len(text)]
<1>3. last \in Read
  <2>1. Len(text) \in 0 .. Len(text)
    BY <1>1
  <2>2. QED
    BY Zenon, <1>1, <2>1, ReadingType
<1>4. last.words \in Seq(Seq(STRING)) /\ last.word \in Seq(STRING)
  BY Zenon, <1>3 DEF Read
<1>5. Words(text) = Append(last.words, last.word) /\ Open(text) = last.open
  BY Zenon DEF Words, Open
<1> HIDE DEF last
<1>6. /\ Len(last.words) \in Nat /\ Len(Append(last.words, last.word)) = Len(last.words) + 1
      /\ \A i \in 1 .. Len(last.words) : Append(last.words, last.word)[i] = last.words[i]
      /\ Append(last.words, last.word)[Len(last.words) + 1] = last.word
  <2>1. Extended(last.words, last.word, Append(last.words, last.word))
    BY Zenon, <1>4, OneMore
  <2>2. QED
    BY Zenon, <2>1 DEF Extended
<1>7. /\ Len(Here.words) \in Nat /\ Len(Append(Here.words, Here.word)) = Len(Here.words) + 1
      /\ \A i \in 1 .. Len(Here.words) : Append(Here.words, Here.word)[i] = Here.words[i]
      /\ Append(Here.words, Here.word)[Len(Here.words) + 1] = Here.word
  <2>1. Extended(Here.words, Here.word, Append(Here.words, Here.word))
    BY Zenon, <1>2, OneMore
  <2>2. QED
    BY Zenon, <2>1 DEF Extended
<1>8. CASE pos + 1 = size
  <2>1. last = Here
    BY Zenon, <1>2, <1>8 DEF last, Here
  <2>2. Len(Here.words) < Len(Here.words) + 1 /\ Len(Here.words) + 1 \in Nat
    BY <1>7
  <2>3. QED
    BY Zenon, <1>2, <1>5, <1>6, <2>1, <2>2
<1>9. CASE pos + 1 < size
  <2>1. buf[pos + 1] = " " /\ pos + 1 # size
    <3>1. pos + 1 # size
      BY <1>9 DEF ScanInv, LexerType
    <3>2. QED
      BY Zenon, <3>1, Stopped
  <2>2. buf[pos + 1] \in STRING /\ Consumed \in 0 .. Len(text) - 1
    BY Zenon, <1>9, HereType
  <2>3. Reading(text)[Consumed + 1] = [words |-> Append(Here.words, Here.word), word |-> <<>>, open |-> NUL]
    <3>1. Reading(text)[Consumed + 1] = ReadChar(Here, buf[pos + 1])
      BY Zenon, <1>9, NextRead
    <3>2. Here.open = NUL
      BY Zenon, <1>2
    <3>3. QED
      BY Zenon, <1>2, <2>1, <2>2, <3>1, <3>2, ReadCases
  <2>4. Reading(text)[Consumed + 1].words = Append(Here.words, Here.word)
    BY <2>3
  <2>5. Consumed + 1 \in 0 .. Len(text)
    BY <1>1, <2>2
  <2>6. /\ Len(Append(Here.words, Here.word)) <= Len(last.words)
        /\ \A i \in 1 .. Len(Append(Here.words, Here.word)) :
             last.words[i] = Append(Here.words, Here.word)[i]
    <3>1. /\ Len(Reading(text)[Consumed + 1].words) <= Len(Reading(text)[Len(text)].words)
          /\ \A i \in 1 .. Len(Reading(text)[Consumed + 1].words) :
               Reading(text)[Len(text)].words[i] = Reading(text)[Consumed + 1].words[i]
      BY Zenon, <1>1, <2>5, WordsGrow
    <3>2. QED
      BY Zenon, <2>4, <3>1 DEF last
  <2>7. /\ Len(Here.words) < Len(last.words) + 1 /\ Len(last.words) + 1 \in Nat
        /\ \A i \in 1 .. Len(Here.words) :
             i \in 1 .. Len(Append(Here.words, Here.word)) /\ i \in 1 .. Len(last.words)
        /\ Len(Here.words) + 1 \in 1 .. Len(Append(Here.words, Here.word))
        /\ Len(Here.words) + 1 \in 1 .. Len(last.words)
    BY <1>6, <1>7, <2>6
  <2>8. QED
    BY Zenon, <1>5, <1>6, <1>7, <2>1, <2>6, <2>7
<1>10. QED
  BY Zenon, <1>8, <1>9, Stopped

-----------------------------------------------------------------------------
(* A token is handed out *)

\* The string next_token hands out, up to the NUL it writes over the delimiter, is the
\* word that was read.
LEMMA TokenIsWord ==
  ASSUME ScanInv, NEW w \in Seq(STRING), Gathered(w), quote = NUL, pos < size, EndToken
  PROVE  StringIn(buf', start_pos) = w
<1>1. /\ buf \in Seq(Char) /\ Len(buf) \in Nat /\ pos \in Nat /\ size \in Nat /\ start_pos \in Nat
      /\ start_pos <= pos /\ size <= Len(buf)
  BY LenProperties DEF ScanInv, BufferBounded, LexerType
<1>2. pos + 1 \in 1 .. Len(buf) /\ pos + 1 \in start_pos + 1 .. Len(buf) /\ NUL \in Char
  BY <1>1 DEF Char
<1>3. /\ buf' \in Seq(Char) /\ Len(buf') = Len(buf)
      /\ \A j \in 1 .. Len(buf) : buf'[j] = IF j = pos + 1 THEN NUL ELSE buf[j]
  <2>1. buf' = [buf EXCEPT ![pos + 1] = NUL]
    BY Zenon DEF EndToken
  <2>2. QED
    BY <1>1, <1>2, <2>1, ExceptSeq
<1>4. \A j \in start_pos + 1 .. pos : buf'[j] = buf[j] /\ buf[j] # NUL
  <2>1. \A j \in start_pos + 1 .. pos : j \in 1 .. Len(buf) /\ j # pos + 1
    BY <1>1, <1>2
  <2>2. QED
    BY Zenon, <1>3, <2>1 DEF ScanInv
<1> DEFINE F(i) == buf'[i] = NUL /\ \A j \in start_pos + 1 .. i - 1 : buf'[j] # NUL
<1>5. PICK e : e = pos + 1 /\ e - 1 = pos /\ e \in Nat
  BY <1>1
<1>6. F(e)
  <2>1. buf'[e] = NUL
    BY Zenon, <1>2, <1>3, <1>5
  <2>2. \A j \in start_pos + 1 .. e - 1 : buf'[j] # NUL
    BY Zenon, <1>4, <1>5
  <2>3. QED
    BY Zenon, <2>1, <2>2
<1>7. \A i \in start_pos + 1 .. Len(buf') : F(i) => i = e
  <2>1. SUFFICES ASSUME NEW i \in start_pos + 1 .. Len(buf'), F(i) PROVE i = e
    BY Zenon
  <2>2. ~(i < e)
    <3>1. i < e => i \in start_pos + 1 .. pos
      BY <1>1, <1>3, <1>5
    <3>2. QED
      BY Zenon, <1>4, <2>1, <3>1
  <2>3. ~(e < i)
    <3>1. e < i => e \in start_pos + 1 .. i - 1
      BY <1>1, <1>3, <1>5
    <3>2. QED
      BY Zenon, <1>6, <2>1, <3>1
  <2>4. QED
    BY <1>1, <1>3, <1>5, <2>2, <2>3
<1>8. (CHOOSE i \in start_pos + 1 .. Len(buf') : F(i)) = e
  <2>1. e \in start_pos + 1 .. Len(buf')
    BY Zenon, <1>2, <1>3, <1>5
  <2> HIDE DEF F
  <2>2. QED
    BY Zenon, <1>6, <1>7, <2>1
<1>9. StringIn(buf', start_pos) = SubSeq(buf', start_pos + 1, pos)
  <2>1. StringIn(buf', start_pos) = SubSeq(buf', start_pos + 1, e - 1)
    BY Zenon, <1>8 DEF StringIn
  <2>2. QED
    BY Zenon, <1>5, <2>1
<1>10. /\ Len(w) = pos - start_pos
      /\ \A i \in 1 .. Len(w) : w[i] = buf[start_pos + i]
  BY <1>1 DEF Gathered
<1>11. SubSeq(buf', start_pos + 1, pos) = [i \in 1 .. Len(w) |-> buf'[start_pos + i]]
  BY <1>1, <1>2, <1>3, <1>10, SubSeqProperties
<1>12. w = [i \in 1 .. Len(w) |-> w[i]]
  BY LenProperties
<1>13. \A i \in 1 .. Len(w) : buf'[start_pos + i] = w[i]
  <2>1. \A i \in 1 .. Len(w) : start_pos + i \in start_pos + 1 .. pos
    BY <1>1, <1>10
  <2>2. QED
    BY Zenon, <1>4, <1>10, <2>1
<1>14. QED
  BY Zenon, <1>9, <1>11, <1>12, <1>13

\* add_env and add_arg put the word where it belongs: an argument behind the others, a
\* variable only as long as there is no argument.
LEMMA GivenMore ==
  ASSUME ScanInv, Kept, NEW ws \in Seq(Seq(STRING)), NEW w \in Seq(STRING), Given(ws),
         StringIn(buf', start_pos) = w,
         \/ args = <<>> /\ args' = args /\ env' = Append(env, start_pos)
         \/ env' = env /\ args' = Append(args, start_pos)
  PROVE  Given(Append(ws, w))'
<1>1. args \in Seq(Nat) /\ env \in Seq(Nat) /\ start_pos \in Nat
  BY DEF ScanInv, LexerType
<1>2. Extended(ws, w, Append(ws, w)) /\ Extended(env, start_pos, Append(env, start_pos))
      /\ Extended(args, start_pos, Append(args, start_pos))
  BY Zenon, <1>1, OneMore
<1>3. DOMAIN env = 1 .. Len(env) /\ DOMAIN args = 1 .. Len(args) /\ Len(env) \in Nat /\ Len(args) \in Nat
  BY <1>1, LenProperties
<1>4. /\ \A i \in 1 .. Len(env) : StringIn(buf', env[i]) = StringIn(buf, env[i])
      /\ \A i \in 1 .. Len(args) : StringIn(buf', args[i]) = StringIn(buf, args[i])
  <2>1. \A list \in {args, env} : \A i \in DOMAIN list : StringIn(buf', list[i]) = StringIn(buf, list[i])
    BY Zenon DEF Kept, CString, StringIn
  <2>2. QED
    BY Zenon, <1>3, <2>1
<1> DEFINE more == Append(ws, w)
<1>5. PICK m : m = more
  BY Zenon
<1>6. Extended(ws, w, m)
  BY Zenon, <1>2, <1>5
<1>7. /\ Len(ws) = Len(env) + Len(args)
      /\ \A i \in 1 .. Len(env) : ws[i] = StringIn(buf, env[i])
      /\ \A i \in 1 .. Len(args) : ws[Len(env) + i] = StringIn(buf, args[i])
  BY Zenon DEF Given
<1>8. ASSUME args = <<>>, args' = args, env' = Append(env, start_pos)
      PROVE  Given(m)'
  <2>1. Len(args) = 0 /\ Len(args') = 0
    BY <1>8
  <2>2. Len(m) = Len(env') + Len(args')
    BY <1>2, <1>3, <1>6, <1>7, <1>8, <2>1 DEF Extended
  <2>3. ASSUME NEW i \in 1 .. Len(env') PROVE m[i] = StringIn(buf', env'[i])
    <3>1. /\ i \in 1 .. Len(env) \/ i = Len(env) + 1
          /\ Len(ws) = Len(env)
          /\ i \in 1 .. Len(env) => i \in 1 .. Len(ws)
      BY <1>2, <1>3, <1>7, <1>8, <2>1 DEF Extended
    <3>2. CASE i \in 1 .. Len(env)
      <4>1. m[i] = ws[i] /\ env'[i] = env[i]
        BY Zenon, <1>2, <1>6, <1>8, <3>1, <3>2 DEF Extended
      <4>2. QED
        BY Zenon, <1>4, <1>7, <3>2, <4>1
    <3>3. CASE i = Len(env) + 1
      <4>1. m[i] = w /\ env'[i] = start_pos
        BY Zenon, <1>2, <1>6, <1>8, <3>1, <3>3 DEF Extended
      <4>2. QED
        BY Zenon, <4>1
    <3>4. QED
      BY Zenon, <3>1, <3>2, <3>3
  <2>4. \A i \in 1 .. Len(args') : m[Len(env') + i] = StringIn(buf', args'[i])
    <3>1. ~\E i \in 1 .. Len(args') : TRUE
      BY <2>1
    <3>2. QED
      BY Zenon, <3>1
  <2>5. QED
    BY Zenon, <2>2, <2>3, <2>4 DEF Given
<1>9. ASSUME env' = env, args' = Append(args, start_pos)
      PROVE  Given(m)'
  <2>1. Len(m) = Len(env') + Len(args') /\ Len(args') = Len(args) + 1
    BY <1>2, <1>3, <1>6, <1>7, <1>9 DEF Extended
  <2>2. ASSUME NEW i \in 1 .. Len(env') PROVE m[i] = StringIn(buf', env'[i])
    <3>1. i \in 1 .. Len(env) /\ i \in 1 .. Len(ws)
      BY <1>3, <1>7, <1>9
    <3>2. m[i] = ws[i]
      BY Zenon, <1>6, <3>1 DEF Extended
    <3>3. QED
      BY Zenon, <1>4, <1>7, <1>9, <3>1, <3>2
  <2>3. ASSUME NEW i \in 1 .. Len(args') PROVE m[Len(env') + i] = StringIn(buf', args'[i])
    <3>1. /\ i \in 1 .. Len(args) \/ i = Len(args) + 1
          /\ i \in 1 .. Len(args) => Len(env) + i \in 1 .. Len(ws)
          /\ i = Len(args) + 1 => Len(env) + i = Len(ws) + 1
      BY <1>3, <1>7, <2>1
    <3>2. CASE i \in 1 .. Len(args)
      <4>1. m[Len(env) + i] = ws[Len(env) + i] /\ args'[i] = args[i]
        BY Zenon, <1>2, <1>6, <1>9, <3>1, <3>2 DEF Extended
      <4>2. QED
        BY Zenon, <1>4, <1>7, <1>9, <3>2, <4>1
    <3>3. CASE i = Len(args) + 1
      <4>1. m[Len(env) + i] = w /\ args'[i] = start_pos
        BY Zenon, <1>2, <1>6, <1>9, <3>1, <3>3 DEF Extended
      <4>2. QED
        BY Zenon, <1>9, <4>1
    <3>4. QED
      BY Zenon, <3>1, <3>2, <3>3
  <2>4. QED
    BY Zenon, <2>1, <2>2, <2>3 DEF Given
<1>10. Given(m)'
  BY Zenon, <1>8, <1>9
<1>11. QED
  BY Zenon, <1>5, <1>10

\* With it the tables stay sorted, and within their sizes.
LEMMA SortedMore ==
  ASSUME ScanInv, NEW ws \in Seq(Seq(STRING)), NEW w \in Seq(STRING), Given(ws), Sorted(ws), w # <<>>,
         \/ /\ args = <<>> /\ args' = args /\ env' = Append(env, start_pos)
            /\ Equals(w) /\ Fits(env, ENV_MAX)
         \/ /\ env' = env /\ args' = Append(args, start_pos)
            /\ Fits(args, ARGS_MAX) /\ (args = <<>> => ~Equals(w))
  PROVE  Sorted(Append(ws, w))'
<1>1. args \in Seq(Nat) /\ env \in Seq(Nat) /\ start_pos \in Nat
  BY DEF ScanInv, LexerType
<1>2. PICK m : m = Append(ws, w)
  BY Zenon
<1>3. Extended(ws, w, m) /\ Extended(env, start_pos, Append(env, start_pos))
      /\ Extended(args, start_pos, Append(args, start_pos))
  BY Zenon, <1>1, <1>2, OneMore
<1>4. /\ Len(env) \in Nat /\ Len(args) \in Nat /\ Len(ws) \in Nat /\ Len(m) = Len(ws) + 1
      /\ Len(Append(env, start_pos)) = Len(env) + 1 /\ Len(Append(args, start_pos)) = Len(args) + 1
      /\ \A i \in 1 .. Len(ws) : m[i] = ws[i]
      /\ m[Len(ws) + 1] = w
  BY Zenon, <1>3 DEF Extended
<1>5. /\ Len(ws) = Len(env) + Len(args) /\ Len(env) < ENV_MAX /\ Len(args) < ARGS_MAX
      /\ \A i \in 1 .. Len(ws) : ws[i] # <<>>
      /\ \A i \in 1 .. Len(env) : Equals(ws[i])
      /\ Len(args) > 0 => ~Equals(ws[Len(env) + 1])
  BY Zenon DEF Given, Sorted
<1>6. ENV_MAX \in Nat /\ ARGS_MAX \in Nat
  BY CmdlineAssumption
<1>7. \A i \in 1 .. Len(m) : m[i] # <<>>
  <2>1. \A i \in 1 .. Len(m) : i \in 1 .. Len(ws) \/ i = Len(ws) + 1
    BY <1>4
  <2>2. QED
    BY Zenon, <1>4, <1>5, <2>1
<1>8. ASSUME args = <<>>, args' = args, env' = Append(env, start_pos), Equals(w), Fits(env, ENV_MAX)
      PROVE  Sorted(m)'
  <2>1. Len(args) = 0 /\ ~(Len(args') > 0)
    BY <1>8
  <2>2. Len(env') < ENV_MAX /\ Len(args') < ARGS_MAX
    BY <1>4, <1>5, <1>6, <1>8, <2>1 DEF Fits
  <2>3. \A i \in 1 .. Len(env') : (i \in 1 .. Len(env) /\ i \in 1 .. Len(ws)) \/ i = Len(ws) + 1
    BY <1>4, <1>5, <1>8, <2>1
  <2>4. \A i \in 1 .. Len(env') : Equals(m[i])
    BY Zenon, <1>4, <1>5, <1>8, <2>3
  <2>5. QED
    BY Zenon, <1>7, <2>1, <2>2, <2>4 DEF Sorted
<1>9. ASSUME env' = env, args' = Append(args, start_pos), Fits(args, ARGS_MAX), args = <<>> => ~Equals(w)
      PROVE  Sorted(m)'
  <2>1. Len(env') < ENV_MAX /\ Len(args') < ARGS_MAX
    BY <1>4, <1>5, <1>6, <1>9 DEF Fits
  <2>2. \A i \in 1 .. Len(env') : i \in 1 .. Len(env) /\ i \in 1 .. Len(ws)
    BY <1>4, <1>5, <1>9
  <2>3. \A i \in 1 .. Len(env') : Equals(m[i])
    BY Zenon, <1>4, <1>5, <2>2
  <2>4. ~Equals(m[Len(env') + 1])
    <3>1. CASE args = <<>>
      <4>1. Len(env') + 1 = Len(ws) + 1
        BY <1>4, <1>5, <1>9, <3>1
      <4>2. QED
        BY Zenon, <1>4, <1>9, <3>1, <4>1
    <3>2. CASE args # <<>>
      <4>1. Len(args) # 0
        BY <1>1, <3>2, EmptySeq
      <4>2. Len(args) > 0 /\ Len(env') + 1 \in 1 .. Len(ws) /\ Len(env') + 1 = Len(env) + 1
        BY <1>4, <1>5, <1>9, <4>1
      <4>3. QED
        BY Zenon, <1>4, <1>5, <4>2
    <3>3. QED
      BY Zenon, <3>1, <3>2
  <2>5. QED
    BY Zenon, <1>7, <2>1, <2>3, <2>4 DEF Sorted
<1>10. Sorted(m)'
  BY Zenon, <1>8, <1>9
<1>11. QED
  BY Zenon, <1>2, <1>10

\* What next_token returns says where its scan stopped.
LEMMA Results ==
  ASSUME ScanInv
  PROVE  /\ token_result = "OK" => quote = NUL /\ pos < size /\ pos # start_pos
         /\ token_result = "BLANK" => quote = NUL /\ pos < size /\ pos = start_pos
         /\ token_result = "UNFINISHED_QUOTE" => quote # NUL /\ pos < size
         /\ token_result = "END" => quote = NUL /\ pos = size
<1>1. /\ (pos >= size <=> ~(pos < size)) /\ (pos >= size <=> pos = size)
      /\ quote # NUL => pos < size
  BY DEF ScanInv, LexerType, BufferBounded
<1>2. CASE quote # NUL
  <2>1. token_result = "UNFINISHED_QUOTE"
    BY Zenon, <1>2 DEF token_result
  <2>2. QED
    BY Zenon, <1>1, <1>2, <2>1
<1>3. CASE quote = NUL /\ pos >= size
  <2>1. token_result = "END"
    BY Zenon, <1>1, <1>3 DEF token_result
  <2>2. QED
    BY Zenon, <1>1, <1>3, <2>1
<1>4. CASE quote = NUL /\ pos < size /\ pos = start_pos
  <2>1. token_result = "BLANK"
    BY Zenon, <1>1, <1>4 DEF token_result
  <2>2. QED
    BY Zenon, <1>4, <2>1
<1>5. CASE quote = NUL /\ pos < size /\ pos # start_pos
  <2>1. token_result = "OK"
    BY Zenon, <1>1, <1>5 DEF token_result
  <2>2. QED
    BY Zenon, <1>5, <2>1
<1>6. QED
  BY Zenon, <1>1, <1>2, <1>3, <1>4, <1>5

\* parse_cmdline finds an equals sign in the token if the word has one, and next_token
\* calls the token blank if the word is empty.
LEMMA SameEquals ==
  ASSUME ScanInv, NEW w \in Seq(STRING), Gathered(w), quote = NUL
  PROVE  (HasEquals <=> Equals(w)) /\ (pos = start_pos <=> w = <<>>)
<1>1. pos \in Nat /\ start_pos \in Nat /\ start_pos <= pos
  BY DEF ScanInv, LexerType, BufferBounded
<1>2. DOMAIN w = 1 .. Len(w) /\ Len(w) \in Nat /\ (w = <<>> <=> Len(w) = 0)
  BY LenProperties, EmptySeq
<1>3. Len(w) = pos - start_pos /\ \A i \in 1 .. Len(w) : w[i] = buf[start_pos + i]
  BY <1>1 DEF Gathered
<1>4. ASSUME NEW i \in start_pos + 1 .. pos, buf[i] = "=" PROVE Equals(w)
  <2>1. i - start_pos \in 1 .. Len(w) /\ start_pos + (i - start_pos) = i
    BY <1>1, <1>3
  <2>2. QED
    BY Zenon, <1>2, <1>3, <1>4, <2>1 DEF Equals
<1>5. ASSUME NEW i \in 1 .. Len(w), w[i] = "=" PROVE HasEquals
  <2>1. start_pos + i \in start_pos + 1 .. pos
    BY <1>1, <1>3
  <2>2. QED
    BY Zenon, <1>3, <1>5, <2>1 DEF HasEquals
<1>6. HasEquals <=> Equals(w)
  BY Zenon, <1>2, <1>4, <1>5 DEF HasEquals, Equals
<1>7. pos = start_pos <=> w = <<>>
  BY <1>1, <1>2, <1>3
<1>8. QED
  BY Zenon, <1>6, <1>7

\* Handing out a token, next_token keeps up with the text: at a blank a new word begins, at
\* the end the tokens are the words of the line.
LEMMA FollowsToken ==
  ASSUME ScanInv, TextType, Follows, Kept, Token("OK"), EndToken, text' = text,
         \/ /\ args = <<>> /\ args' = args /\ env' = Append(env, start_pos)
            /\ HasEquals /\ Fits(env, ENV_MAX)
         \/ /\ env' = env /\ args' = Append(args, start_pos)
            /\ Fits(args, ARGS_MAX) /\ (args = <<>> => ~HasEquals)
  PROVE  Follows'
<1>1. ~Scanning(Delimiter) /\ quote = NUL /\ pos < size /\ pos # start_pos
  BY Zenon, Results DEF Token
<1>2. /\ Here \in Read /\ Here.open = quote /\ Here.word \in Seq(STRING)
      /\ Here.words \in Seq(Seq(STRING)) /\ Gathered(Here.word)
      /\ Given(Here.words) /\ Sorted(Here.words)
  BY Zenon, <1>1, HereType
<1>3. PICK ws, w : ws = Here.words /\ w = Here.word
  BY Zenon
<1>4. /\ w \in Seq(STRING) /\ ws \in Seq(Seq(STRING)) /\ Gathered(w) /\ Given(ws) /\ Sorted(ws)
  BY Zenon, <1>2, <1>3
<1>5. StringIn(buf', start_pos) = w
  BY Zenon, <1>1, <1>4, TokenIsWord
<1>6. (HasEquals <=> Equals(w)) /\ w # <<>>
  BY Zenon, <1>1, <1>4, SameEquals
<1>7. PICK m : m = Append(ws, w)
  BY Zenon
<1>8. Given(m)' /\ Sorted(m)'
  <2>1. Given(Append(ws, w))'
    BY Zenon, <1>4, <1>5, GivenMore
  <2>2. Sorted(Append(ws, w))'
    BY Zenon, <1>4, <1>6, SortedMore
  <2>3. QED
    BY Zenon, <1>7, <2>1, <2>2
<1>9. /\ pos' = pos + 1 /\ start_pos' = pos + 1 /\ quote' = NUL /\ size' = size
      /\ buf' = [buf EXCEPT ![pos + 1] = NUL]
  BY Zenon DEF EndToken
<1>10. /\ pos \in Nat /\ size \in Nat /\ start_pos \in Nat /\ buf \in Seq(Char) /\ Len(text) \in Nat
       /\ size <= Len(text) + 1 /\ size <= Len(buf) /\ Len(buf) \in Nat
  BY TextFacts, LenProperties DEF ScanInv, LexerType, BufferBounded, Follows
<1>11. /\ Gone' = Gone /\ Consumed' = Consumed + 1
  BY <1>9, <1>10 DEF Gone, Consumed
<1>12. CASE pos + 1 < size
  <2>1. buf[pos + 1] = " " /\ buf[pos + 1] \in STRING
    <3>1. pos + 1 # size
      BY <1>10, <1>12
    <3>2. QED
      BY Zenon, <1>1, <1>12, <3>1, Stopped, HereType
  <2>2. Reading(text)[Consumed + 1] = ReadChar(Here, buf[pos + 1])
    BY Zenon, <1>12, NextRead
  <2>3. ReadChar(Here, buf[pos + 1]) = [words |-> Append(Here.words, Here.word), word |-> <<>>, open |-> NUL]
    <3>1. Here.open = NUL
      BY Zenon, <1>1, <1>2
    <3>2. QED
      BY Zenon, <1>2, <2>1, <3>1, ReadCases
  <2>4. Here' = Reading(text)[Consumed + 1]
    BY Zenon, <1>11 DEF Here
  <2>5. Here' = [words |-> m, word |-> <<>>, open |-> quote']
    BY Zenon, <1>3, <1>7, <1>9, <2>2, <2>3, <2>4
  <2>6. Gathered(<<>>)'
    <3>1. Len(<<>>) = pos' - start_pos' - 0 /\ ~\E i \in 1 .. Len(<<>>) : TRUE
      BY <1>9, <1>10
    <3>2. QED
      BY Zenon, <1>9, <3>1 DEF Gathered
  <2>7. \A i \in pos' + 1 .. size' - 1 : buf'[i] = text[i + Gone']
    <3>1. SUFFICES ASSUME NEW i \in pos' + 1 .. size' - 1 PROVE buf'[i] = text[i + Gone']
      BY Zenon
    <3>2. i \in pos + 1 .. size - 1 /\ i # pos + 1 /\ i \in 1 .. Len(buf)
      BY <1>9, <1>10
    <3>3. buf'[i] = buf[i]
      <4>1. DOMAIN buf = 1 .. Len(buf)
        BY <1>10, LenProperties
      <4>2. QED
        BY Zenon, <1>9, <3>2, <4>1
    <3>4. buf[i] = text[i + Gone]
      BY Zenon, <3>2 DEF Follows
    <3>5. QED
      BY Zenon, <1>11, <3>3, <3>4
  <2>8. pos' < size' /\ size' <= Len(text) + 1 /\ pos' \in Nat /\ size' \in Nat
    BY <1>9, <1>10, <1>12
  <2>9. QED
    BY Zenon, <1>8, <2>5, <2>6, <2>7, <2>8, FollowsNext
<1>13. CASE pos + 1 = size
  <2>1. Words(text) = m /\ Open(text) = NUL
    BY Zenon, <1>1, <1>3, <1>7, <1>13, TokenRead
  <2>2. Words(text') = m /\ Open(text') = NUL
    BY Zenon, <2>1
  <2>3. Given(Words(text))' /\ Sorted(Words(text))'
    BY Zenon, <1>8, <2>2 DEF Given, Sorted
  <2>4. ~(pos' < size') /\ size' <= Len(text') + 1 /\ ~\E i \in pos' + 1 .. size' - 1 : TRUE
    BY <1>9, <1>10, <1>13
  <2>5. QED
    BY Zenon, <1>9, <2>2, <2>3, <2>4 DEF Follows
<1>14. QED
  BY Zenon, <1>1, <1>12, <1>13, Stopped

-----------------------------------------------------------------------------
(* What the line means, and what is made of it *)

\* How many words come before the program.
Envs(line) == CHOOSE n \in 0 .. Len(Words(line)) : Leading(Words(line), n)

\* Every line has such a number: that of the first word without an equals sign.
LEMMA EnvsFacts ==
  ASSUME Len(Words(text)) \in Nat
  PROVE  Envs(text) \in 0 .. Len(Words(text)) /\ Leading(Words(text), Envs(text))
<1> DEFINE ws == Words(text)
<1> DEFINE S == {n \in 0 .. Len(ws) : n < Len(ws) => ~Equals(ws[n + 1])}
<1>1. S \subseteq Nat /\ Len(ws) \in S
  BY SMT
<1>2. PICK m \in S : \A n \in S : m <= n
  BY Zenon, <1>1, LeastNumber
<1>3. m \in 0 .. Len(ws) /\ (m < Len(ws) => ~Equals(ws[m + 1]))
  BY Zenon
<1>4. ASSUME NEW i \in 1 .. m PROVE Equals(ws[i])
  <2>1. i - 1 \in 0 .. Len(ws) /\ i - 1 + 1 = i /\ ~(m <= i - 1)
    BY <1>3
  <2>2. i - 1 \notin S
    BY Zenon, <1>2, <2>1
  <2>3. QED
    BY Zenon, <2>1, <2>2
<1>5. Leading(ws, m)
  BY Zenon, <1>3, <1>4 DEF Leading
<1>6. QED
  BY Zenon, <1>3, <1>5 DEF Envs

\* It is at least the number of words found to have an equals sign, and exactly that if the
\* next one has none.
LEMMA EnvsBounds ==
  ASSUME Len(Words(text)) \in Nat, NEW n \in 0 .. Len(Words(text)),
         \A i \in 1 .. n : Equals(Words(text)[i])
  PROVE  /\ Envs(text) \in Nat /\ n <= Envs(text) /\ Envs(text) <= Len(Words(text))
         /\ n < Len(Words(text)) /\ ~Equals(Words(text)[n + 1]) => Envs(text) = n
<1>1. Envs(text) \in 0 .. Len(Words(text)) /\ Leading(Words(text), Envs(text))
  BY Zenon, EnvsFacts
<1>2. n <= Envs(text)
  <2>1. ~(Envs(text) < n)
    <3>1. Envs(text) < n => Envs(text) < Len(Words(text)) /\ Envs(text) + 1 \in 1 .. n
      BY <1>1
    <3>2. QED
      BY Zenon, <1>1, <3>1 DEF Leading
  <2>2. QED
    BY <1>1, <2>1
<1>3. ASSUME n < Len(Words(text)), ~Equals(Words(text)[n + 1]) PROVE Envs(text) = n
  <2>1. ~(n < Envs(text))
    <3>1. n < Envs(text) => n + 1 \in 1 .. Envs(text)
      BY <1>1
    <3>2. QED
      BY Zenon, <1>1, <1>3, <3>1 DEF Leading
  <2>2. QED
    BY <1>1, <1>2, <2>1
<1>4. Envs(text) \in Nat /\ Envs(text) <= Len(Words(text))
  BY <1>1
<1>5. QED
  BY Zenon, <1>2, <1>3, <1>4

\* What makes a line valid.
Valid(line) ==
    /\ Open(line) = NUL /\ Envs(line) < Len(Words(line))
    /\ \A i \in DOMAIN Words(line) : Words(line)[i] # <<>>
    /\ Envs(line) < ENV_MAX /\ Len(Words(line)) - Envs(line) < ARGS_MAX

\* The meaning of the line, with the number of variables named.
LEMMA MeaningIs ==
  ASSUME NEW line
  PROVE  /\ Meaning(line).valid = Valid(line)
         /\ Meaning(line).env = SubSeq(Words(line), 1, Envs(line))
         /\ Meaning(line).args = SubSeq(Words(line), Envs(line) + 1, Len(Words(line)))
<1>1. Meaning(line).valid = Valid(line)
  BY Zenon DEF Meaning, Envs, Valid
<1>2. Meaning(line).env = SubSeq(Words(line), 1, Envs(line))
  BY Zenon DEF Meaning, Envs
<1>3. Meaning(line).args = SubSeq(Words(line), Envs(line) + 1, Len(Words(line)))
  BY Zenon DEF Meaning, Envs
<1>4. QED
  BY Zenon, <1>1, <1>2, <1>3

\* The words of a command line are a sequence of words.
LEMMA WordsType ==
  ASSUME TextType
  PROVE  /\ Words(text) \in Seq(Seq(STRING)) /\ Len(Words(text)) \in Nat
         /\ DOMAIN Words(text) = 1 .. Len(Words(text))
<1>1. text \in Seq(STRING) /\ Len(text) \in Nat
  BY Zenon, TextFacts
<1>2. Len(text) \in 0 .. Len(text)
  BY <1>1
<1>3. Reading(text)[Len(text)] \in Read
  BY Zenon, <1>1, <1>2, ReadingType
<1>4. /\ Reading(text)[Len(text)].words \in Seq(Seq(STRING))
      /\ Reading(text)[Len(text)].word \in Seq(STRING)
  BY Zenon, <1>3 DEF Read
<1>5. Append(Reading(text)[Len(text)].words, Reading(text)[Len(text)].word) \in Seq(Seq(STRING))
  BY <1>4, AppendProperties
<1>6. Words(text) \in Seq(Seq(STRING))
  BY Zenon, <1>5 DEF Words
<1>7. QED
  BY <1>6, LenProperties

\* The token parse_cmdline is about to take is the word of the line behind those it took.
LEMMA TokenPlace ==
  ASSUME ScanInv, TextType, Follows, ~Scanning(Delimiter), pos < size, quote = NUL
  PROVE  LET W == Words(text)
             n == Len(env) + Len(args)
         IN  /\ Len(W) \in Nat /\ Len(env) \in Nat /\ Len(args) \in Nat /\ n < Len(W)
             /\ Len(env) < ENV_MAX /\ Len(args) < ARGS_MAX
             /\ \A i \in 1 .. Len(env) : Equals(W[i])
             /\ Len(args) > 0 => ~Equals(W[Len(env) + 1])
             /\ HasEquals <=> Equals(W[n + 1])
             /\ pos = start_pos => W[n + 1] = <<>>
<1>1. /\ Here.word \in Seq(STRING) /\ Gathered(Here.word)
      /\ Given(Here.words) /\ Sorted(Here.words)
  BY Zenon, HereType
<1>2. /\ Len(Words(text)) \in Nat /\ Len(Here.words) < Len(Words(text))
      /\ \A i \in 1 .. Len(Here.words) : Words(text)[i] = Here.words[i]
      /\ Words(text)[Len(Here.words) + 1] = Here.word
  BY Zenon, TokenRead
<1>3. Len(env) \in Nat /\ Len(args) \in Nat
  BY LenProperties DEF ScanInv, LexerType
<1>4. /\ Len(Here.words) = Len(env) + Len(args) /\ Len(env) < ENV_MAX /\ Len(args) < ARGS_MAX
      /\ \A i \in 1 .. Len(env) : Equals(Here.words[i])
      /\ Len(args) > 0 => ~Equals(Here.words[Len(env) + 1])
  BY Zenon, <1>1 DEF Given, Sorted
<1>5. /\ \A i \in 1 .. Len(env) : i \in 1 .. Len(Here.words)
      /\ Len(args) > 0 => Len(env) + 1 \in 1 .. Len(Here.words)
  BY <1>3, <1>4
<1>6. (HasEquals <=> Equals(Here.word)) /\ (pos = start_pos <=> Here.word = <<>>)
  BY Zenon, <1>1, SameEquals
<1>7. QED
  BY Zenon, <1>2, <1>3, <1>4, <1>5, <1>6

\* A line parse_cmdline returns false for has no meaning: an environment or an argument too
\* many, an open quote, a blank token, or no program (cmdline.c, parse_cmdline).
LEMMA RefusedMeans ==
  ASSUME ScanInv, TextType, Follows, Refused, pc \in {"env", "args"},
         pc = "env" <=> args = <<>>
  PROVE  ~Meaning(text).valid
<1> DEFINE W == Words(text)
<1>1. W \in Seq(Seq(STRING)) /\ Len(W) \in Nat /\ DOMAIN W = 1 .. Len(W)
  BY Zenon, WordsType
<1>2. Meaning(text).valid = Valid(text)
  BY Zenon, MeaningIs
<1>3. ENV_MAX \in Nat /\ ARGS_MAX \in Nat
  BY CmdlineAssumption
<1>4. args \in Seq(Nat) /\ Len(args) \in Nat /\ (args = <<>> <=> Len(args) = 0) /\ Len(env) \in Nat
  <2>1. args \in Seq(Nat) /\ env \in Seq(Nat)
    BY DEF ScanInv, LexerType
  <2>2. QED
    BY <2>1, LenProperties, EmptySeq
<1> DEFINE n == Len(env) + Len(args)
<1>5. ASSUME ~Scanning(Delimiter), pos < size, quote = NUL
      PROVE  /\ n < Len(W) /\ Len(env) < ENV_MAX /\ Len(args) < ARGS_MAX
             /\ \A i \in 1 .. Len(env) : Equals(W[i])
             /\ Len(args) > 0 => ~Equals(W[Len(env) + 1])
             /\ HasEquals <=> Equals(W[n + 1])
             /\ pos = start_pos => W[n + 1] = <<>>
  BY Zenon, <1>5, TokenPlace
<1> HIDE DEF W
<1>6. CASE Token("OK") /\ IsEnv /\ ~Fits(env, ENV_MAX)
  <2>1. ~Scanning(Delimiter) /\ pos < size /\ quote = NUL
    BY Zenon, <1>6, Results DEF Token
  <2>2. Len(args) = 0 /\ HasEquals
    BY Zenon, <1>4, <1>6 DEF IsEnv
  <2>3. Len(env) + 1 \in 0 .. Len(W) /\ n = Len(env) /\ Len(env) + 1 = ENV_MAX
        /\ \A i \in 1 .. Len(env) + 1 : i \in 1 .. Len(env) \/ i = n + 1
    BY <1>1, <1>3, <1>4, <1>5, <1>6, <2>1, <2>2 DEF Fits
  <2>4. \A i \in 1 .. Len(env) + 1 : Equals(W[i])
    BY Zenon, <1>5, <2>1, <2>2, <2>3
  <2>5. Envs(text) \in Nat /\ Len(env) + 1 <= Envs(text)
    BY Zenon, <1>1, <2>3, <2>4, EnvsBounds DEF W
  <2>6. ~(Envs(text) < ENV_MAX)
    BY <1>3, <2>3, <2>5
  <2>7. QED
    BY Zenon, <1>2, <2>6 DEF Valid, W
<1>7. CASE Token("OK") /\ ~IsEnv /\ ~Fits(args, ARGS_MAX)
  <2>1. ~Scanning(Delimiter) /\ pos < size /\ quote = NUL
    BY Zenon, <1>7, Results DEF Token
  <2>2. Len(args) = 0 => ~HasEquals
    BY Zenon, <1>4, <1>7 DEF IsEnv
  <2>3. /\ Len(env) \in 0 .. Len(W) /\ Len(env) < Len(W) /\ Len(args) + 1 = ARGS_MAX
        /\ Len(args) > 0 \/ (Len(args) = 0 /\ n + 1 = Len(env) + 1)
    BY <1>1, <1>3, <1>4, <1>5, <1>7, <2>1 DEF Fits
  <2>4. ~Equals(W[Len(env) + 1]) /\ \A i \in 1 .. Len(env) : Equals(W[i])
    BY Zenon, <1>5, <2>1, <2>2, <2>3
  <2>5. Envs(text) = Len(env)
    BY Zenon, <1>1, <2>3, <2>4, EnvsBounds DEF W
  <2>6. ~(Len(W) - Envs(text) < ARGS_MAX)
    BY <1>1, <1>3, <1>4, <1>5, <2>1, <2>3, <2>5
  <2>7. QED
    BY Zenon, <1>2, <2>6 DEF Valid, W
<1>8. CASE Token("UNFINISHED_QUOTE")
  <2>1. ~Scanning(Delimiter) /\ pos < size /\ quote # NUL
    BY Zenon, <1>8, Results DEF Token
  <2>2. Consumed = Len(text) /\ Here.open = quote
    BY Zenon, <2>1, Stopped, HereType
  <2>3. Open(text) # NUL
    BY Zenon, <2>1, <2>2 DEF Open, Here
  <2>4. QED
    BY Zenon, <1>2, <2>3 DEF Valid
<1>9. CASE Token("BLANK")
  <2>1. ~Scanning(Delimiter) /\ pos < size /\ quote = NUL /\ pos = start_pos
    BY Zenon, <1>9, Results DEF Token
  <2>2. n + 1 \in 1 .. Len(W)
    BY <1>1, <1>4, <1>5, <2>1
  <2>3. W[n + 1] = <<>>
    BY Zenon, <1>5, <2>1
  <2>4. QED
    BY Zenon, <1>1, <1>2, <2>2, <2>3 DEF Valid, W
<1>10. CASE pc = "env" /\ Token("END")
  <2>1. pos = size
    BY Zenon, <1>10, Results DEF Token
  <2>2. Given(W) /\ Sorted(W)
    BY Zenon, <2>1 DEF Follows, W
  <2>3. Len(W) = Len(env) + Len(args) /\ Len(args) = 0 /\ \A i \in 1 .. Len(env) : Equals(W[i])
    BY Zenon, <1>4, <1>10, <2>2 DEF Given, Sorted
  <2>4. Len(env) \in 0 .. Len(W) /\ Len(env) = Len(W)
    BY <1>4, <2>3
  <2>5. Envs(text) \in Nat /\ Len(env) <= Envs(text)
    BY Zenon, <1>1, <2>3, <2>4, EnvsBounds DEF W
  <2>6. ~(Envs(text) < Len(W))
    BY <1>4, <2>4, <2>5
  <2>7. QED
    BY Zenon, <1>2, <2>6 DEF Valid, W
<1>11. QED
  BY Zenon, <1>6, <1>7, <1>8, <1>9, <1>10 DEF Refused

\* safe_mode_wait replaces the arguments that are tags by what the program is to be told.
LEMMA SubstitutedTold ==
  ASSUME NEW strings, role = "placeholder", "strdup" \notin fails, "execvpe" \notin fails,
         fails \in {{}} \cup {{c} : c \in CallFaults}
  PROVE  Substituted(strings) = [i \in DOMAIN strings |-> Told(strings[i])]
<1>1. "asprintf" \notin fails <=> fails = {}
  <2>1. CallFaults \subseteq {"strdup", "asprintf", "execvpe"}
    BY Zenon, CmdlineAssumption
  <2>2. QED
    BY Zenon, <2>1
<1>2. <<Proc>> # <<ExitCode>>
  <2>1. Proc # ExitCode
    BY Zenon DEF Proc, ExitCode
  <2>2. QED
    BY <2>1
<1> DEFINE C(s) == CASE s = <<Proc>> -> ReportedName
                     [] s = <<ExitCode>> /\ "asprintf" \notin fails -> ReportedSignal
                     [] OTHER -> s
<1>3. ASSUME NEW s PROVE C(s) = Told(s)
  <2>1. CASE s = <<Proc>>
    <3>1. s # <<ExitCode>>
      BY Zenon, <1>2, <2>1
    <3>2. QED
      BY Zenon, <2>1, <3>1 DEF Told
  <2>2. CASE s = <<ExitCode>> /\ "asprintf" \notin fails
    <3>1. s # <<Proc>>
      BY Zenon, <1>2, <2>2
    <3>2. QED
      BY Zenon, <1>1, <2>2, <3>1 DEF Told
  <2>3. CASE s # <<Proc>> /\ ~(s = <<ExitCode>> /\ "asprintf" \notin fails)
    BY Zenon, <1>1, <2>3 DEF Told
  <2>4. QED
    BY Zenon, <2>1, <2>2, <2>3
<1>4. Substituted(strings) = [i \in DOMAIN strings |-> C(strings[i])]
  BY Zenon DEF Substituted
<1> HIDE DEF C
<1>5. QED
  BY Zenon, <1>3, <1>4

\* A child of init tells the program the words as they are.
LEMMA ToldChild ==
  ASSUME NEW strings, role # "placeholder"
  PROVE  [i \in DOMAIN strings |-> Told(strings[i])] = [i \in DOMAIN strings |-> strings[i]]
BY Zenon DEF Told

\* The strings at the offsets of the two tables are the words, cut where the program begins.
LEMMA StringsAre ==
  ASSUME NEW W \in Seq(Seq(STRING)), Given(W), env \in Seq(Nat), args \in Seq(Nat)
  PROVE  /\ Strings(env) = SubSeq(W, 1, Len(env))
         /\ Strings(args) = SubSeq(W, Len(env) + 1, Len(W))
         /\ DOMAIN Strings(args) = DOMAIN args
<1>1. /\ Len(W) = Len(env) + Len(args) /\ Len(env) \in Nat /\ Len(args) \in Nat
      /\ DOMAIN env = 1 .. Len(env) /\ DOMAIN args = 1 .. Len(args)
  BY LenProperties DEF Given
<1>2. Strings(env) = [i \in 1 .. Len(env) |-> StringIn(buf, env[i])]
      /\ Strings(args) = [i \in 1 .. Len(args) |-> StringIn(buf, args[i])]
  BY Zenon, <1>1 DEF Strings, CString, StringIn
<1>3. Strings(env) = [i \in 1 .. Len(env) |-> W[i]]
      /\ Strings(args) = [i \in 1 .. Len(args) |-> W[Len(env) + i]]
  BY Zenon, <1>2 DEF Given
<1>4. SubSeq(W, 1, Len(env)) = [i \in 1 .. Len(env) |-> W[i]]
  BY <1>1
<1>5. SubSeq(W, Len(env) + 1, Len(W)) = [i \in 1 .. Len(args) |-> W[Len(env) + i]]
  BY <1>1
<1>6. QED
  BY Zenon, <1>1, <1>2, <1>3, <1>4, <1>5

\* What execvpe gets is what the line means.
LEMMA ExecMeans ==
  ASSUME ScanInv, TextType, Follows, pos = size, args # <<>>, Exec,
         "strdup" \notin fails, fails \in {{}} \cup {{c} : c \in CallFaults}
  PROVE  /\ Meaning(text).valid
         /\ envp' = Meaning(text).env
         /\ argv' = [i \in DOMAIN Meaning(text).args |-> Told(Meaning(text).args[i])]
<1> DEFINE W == Words(text)
<1>1. W \in Seq(Seq(STRING)) /\ Len(W) \in Nat /\ DOMAIN W = 1 .. Len(W)
  BY Zenon, WordsType
<1>2. /\ Meaning(text).valid = Valid(text)
      /\ Meaning(text).env = SubSeq(W, 1, Envs(text))
      /\ Meaning(text).args = SubSeq(W, Envs(text) + 1, Len(W))
  BY Zenon, MeaningIs
<1>3. Given(W) /\ Sorted(W) /\ Open(text) = NUL
  BY Zenon DEF Follows
<1> HIDE DEF W
<1>4. args \in Seq(Nat) /\ env \in Seq(Nat)
  BY DEF ScanInv, LexerType
<1>5. Len(args) \in Nat /\ Len(env) \in Nat /\ Len(args) # 0
  BY <1>4, LenProperties, EmptySeq
<1>6. /\ Len(W) = Len(env) + Len(args)
      /\ Len(env) < ENV_MAX /\ Len(args) < ARGS_MAX
      /\ \A i \in 1 .. Len(W) : W[i] # <<>>
      /\ \A i \in 1 .. Len(env) : Equals(W[i])
      /\ Len(args) > 0 => ~Equals(W[Len(env) + 1])
  BY Zenon, <1>3 DEF Given, Sorted
<1>7. /\ Len(env) \in 0 .. Len(W) /\ Len(env) < Len(W) /\ Len(args) > 0
      /\ Len(W) - Len(env) = Len(args)
  BY <1>5, <1>6
<1>8. Envs(text) = Len(env)
  BY Zenon, <1>1, <1>6, <1>7, EnvsBounds DEF W
<1>9. Meaning(text).valid
  BY Zenon, <1>1, <1>2, <1>3, <1>6, <1>7, <1>8 DEF Valid, W
<1>10. Strings(env) = Meaning(text).env /\ Strings(args) = Meaning(text).args
  <2>1. Strings(env) = SubSeq(W, 1, Len(env)) /\ Strings(args) = SubSeq(W, Len(env) + 1, Len(W))
    BY Zenon, <1>1, <1>3, <1>4, StringsAre
  <2>2. QED
    BY Zenon, <1>2, <1>8, <2>1
<1>11. /\ argv' = IF role = "placeholder" THEN Substituted(Strings(args)) ELSE Strings(args)
       /\ envp' = Strings(env) /\ "execvpe" \notin fails
  BY Zenon DEF Exec
<1>12. argv' = [i \in DOMAIN Strings(args) |-> Told(Strings(args)[i])]
  <2>1. CASE role = "placeholder"
    BY Zenon, <1>11, <2>1, SubstitutedTold
  <2>2. CASE role # "placeholder"
    <3>1. Strings(args) = [i \in DOMAIN Strings(args) |-> Strings(args)[i]]
      BY Zenon DEF Strings
    <3>2. QED
      BY Zenon, <1>11, <2>2, <3>1, ToldChild
  <2>3. QED
    BY Zenon, <2>1, <2>2
<1>13. QED
  BY Zenon, <1>9, <1>10, <1>11, <1>12

-----------------------------------------------------------------------------
(* The invariant, step by step *)

\* The inductive invariant: until it is done the parser follows the text, and knows the
\* program once it is past the environment.
MeanInv ==
    /\ TextType
    /\ fails \in {{}} \cup {{c} : c \in CallFaults}
    /\ pc \in {"start", "env", "args", "parsed"} => Follows
    /\ pc \in {"start", "env"} => args = <<>>
    /\ pc \in {"args", "parsed"} => args # <<>>
    /\ pc = "parsed" => pos = size
    /\ pc = "start" => dup = "none"
    /\ pc \in {"env", "args", "parsed"} => dup = "live" /\ "strdup" \notin fails
    /\ ExecMeansLine

\* What leaves the lexer and the tables alone leaves the parser where it is.
LEMMA FollowsSame ==
  ASSUME Follows, UNCHANGED <<lexer, scan, contents, text>>
  PROVE  Follows'
<1>1. /\ buf' = buf /\ size' = size /\ pos' = pos /\ start_pos' = start_pos /\ quote' = quote
      /\ quote_start' = quote_start /\ args' = args /\ env' = env /\ text' = text
  BY Zenon DEF lexer, scan, contents
<1>2. Gone' = Gone /\ Here' = Here
  BY Zenon, <1>1 DEF Gone, Here, Consumed
<1>3. ASSUME NEW w PROVE Gathered(w)' = Gathered(w) /\ Given(w)' = Given(w) /\ Sorted(w)' = Sorted(w)
  BY Zenon, <1>1 DEF Gathered, Given, Sorted
<1>4. PICK h, ws : h = Here /\ ws = Words(text)
  BY Zenon
<1>5. /\ size <= Len(text) + 1
      /\ \A i \in pos + 1 .. size - 1 : buf[i] = text[i + Gone]
      /\ pos < size => h.open = quote /\ Gathered(h.word)' /\ Given(h.words)' /\ Sorted(h.words)'
      /\ pos = size => Open(text) = NUL /\ quote = NUL /\ Given(ws)' /\ Sorted(ws)'
  BY Zenon, <1>3, <1>4 DEF Follows
<1>6. h = Here' /\ ws = Words(text')
  BY Zenon, <1>1, <1>2, <1>4
<1>7. /\ Gathered(h.word)' => Gathered(Here.word)'
      /\ Given(h.words)' => Given(Here.words)'
      /\ Sorted(h.words)' => Sorted(Here.words)'
      /\ Given(ws)' => Given(Words(text))'
      /\ Sorted(ws)' => Sorted(Words(text))'
  BY Zenon, <1>6 DEF Gathered, Given, Sorted
<1>8. QED
  BY Zenon, <1>1, <1>2, <1>5, <1>6, <1>7 DEF Follows

\* A step of next_token keeps up with the text.
LEMMA FollowsScan ==
  ASSUME ScanInv, TextType, Follows, Kept, ScanStep
  PROVE  Follows'
<1>1. text' = text /\ UNCHANGED contents
  BY Zenon DEF ScanStep, call
<1>2. CASE ScanUnquoted(Delimiter, TRUE)
  <2>1. CASE At(pos) \in Quotes
    BY Zenon, <1>1, <1>2, <2>1, FollowsPassed DEF ScanUnquoted
  <2>2. CASE At(pos) \notin Quotes
    BY Zenon, <1>1, <1>2, <2>2, FollowsPassed DEF ScanUnquoted
  <2>3. QED
    BY Zenon, <2>1, <2>2
<1>3. CASE ScanQuoted(Delimiter)
  BY Zenon, <1>1, <1>3, FollowsPassed DEF ScanQuoted, scan
<1>4. CASE CloseQuote(Delimiter, TRUE)
  BY Zenon, <1>1, <1>4, FollowsClosed DEF CloseQuote
<1>5. QED
  BY Zenon, <1>2, <1>3, <1>4 DEF ScanStep, Scan

\* The line, who parses it and what fails stay the same, and with them what the line means
\* and what the program is to be told.
LEMMA SameCall ==
  ASSUME UNCHANGED call
  PROVE  /\ text' = text /\ role' = role /\ fails' = fails /\ Meaning(text') = Meaning(text)
         /\ TextType' = TextType
         /\ \A s : [i \in DOMAIN s |-> Told(s[i])]' = [i \in DOMAIN s |-> Told(s[i])]
<1>1. text' = text /\ role' = role /\ fails' = fails
  BY Zenon DEF call
<1>2. \A w : Told(w)' = Told(w)
  BY Zenon, <1>1 DEF Told
<1>3. QED
  BY Zenon, <1>1, <1>2 DEF TextType

\* Every step of parse_cmdline and of its callers keeps the invariant.
LEMMA MeanStep == ScanInv /\ MeanInv /\ [Next]_vars => MeanInv'
<1> SUFFICES ASSUME ScanInv, MeanInv, [Next]_vars PROVE MeanInv'
  BY Zenon
<1>1. Kept
  BY Zenon, CmdlineStep
<1>2. UNCHANGED call
  BY Zenon DEF Next, Strdup, StrdupFails, ScanStep, AddEnv, AddArg, ParseFails, ParseEnds, Exec,
     ExecFails, Ended, vars
<1>3. /\ text' = text /\ role' = role /\ fails' = fails /\ Meaning(text') = Meaning(text)
      /\ TextType' = TextType
      /\ \A s : [i \in DOMAIN s |-> Told(s[i])]' = [i \in DOMAIN s |-> Told(s[i])]
  BY Zenon, <1>2, SameCall
<1>4. TextType /\ fails \in {{}} \cup {{c} : c \in CallFaults}
  BY Zenon DEF MeanInv
<1>5. CASE Strdup
  <2>1. Follows /\ args = <<>>
    BY Zenon, <1>5 DEF MeanInv, Strdup
  <2>2. Follows'
    BY Zenon, <1>3, <1>5, <2>1, FollowsSame DEF Strdup
  <2>3. args' = args /\ pc' = "env" /\ dup' = "live" /\ "strdup" \notin fails
    BY Zenon, <1>5 DEF Strdup, contents
  <2>4. ExecMeansLine'
    BY Zenon, <2>3 DEF ExecMeansLine
  <2>5. QED
    BY Zenon, <1>3, <1>4, <2>1, <2>2, <2>3, <2>4 DEF MeanInv
<1>6. CASE StrdupFails
  <2>1. pc' = "failed" /\ dup' = "none" /\ fails # {}
    BY Zenon, <1>6 DEF StrdupFails, MeanInv
  <2>2. ExecMeansLine'
    BY Zenon, <1>3, <2>1 DEF ExecMeansLine
  <2>3. QED
    BY Zenon, <1>3, <1>4, <2>1, <2>2 DEF MeanInv
<1>7. CASE ScanStep
  <2>1. pc' = pc /\ pc \in {"env", "args"} /\ dup' = dup /\ args' = args
    BY Zenon, <1>7 DEF ScanStep, contents
  <2>2. Follows'
    BY Zenon, <1>1, <1>4, <1>7, <2>1, FollowsScan DEF MeanInv
  <2>3. ExecMeansLine'
    BY Zenon, <2>1 DEF ExecMeansLine
  <2>4. QED
    BY Zenon, <1>3, <1>4, <2>1, <2>2, <2>3 DEF MeanInv
<1>8. CASE AddEnv
  <2>1. /\ pc' = pc /\ pc = "env" /\ dup' = dup /\ args' = args /\ Token("OK") /\ EndToken
        /\ HasEquals /\ Fits(env, ENV_MAX) /\ env' = Append(env, start_pos)
    BY Zenon, <1>8 DEF AddEnv, IsEnv
  <2>2. args = <<>> /\ Follows /\ dup = "live" /\ "strdup" \notin fails
    BY Zenon, <2>1 DEF MeanInv
  <2>3. Follows'
    BY Zenon, <1>1, <1>3, <1>4, <2>1, <2>2, FollowsToken
  <2>4. ExecMeansLine'
    BY Zenon, <2>1 DEF ExecMeansLine
  <2>5. QED
    BY Zenon, <1>3, <1>4, <2>1, <2>2, <2>3, <2>4 DEF MeanInv
<1>9. CASE AddArg
  <2>1. /\ pc' = "args" /\ pc \in {"env", "args"} /\ dup' = dup /\ env' = env /\ Token("OK") /\ EndToken
        /\ (pc = "env" => ~HasEquals) /\ Fits(args, ARGS_MAX) /\ args' = Append(args, start_pos)
    BY Zenon, <1>9 DEF AddArg, IsEnv
  <2>2. Follows /\ dup = "live" /\ "strdup" \notin fails /\ (args = <<>> => pc = "env")
    BY Zenon, <2>1 DEF MeanInv
  <2>3. Follows'
    BY Zenon, <1>1, <1>3, <1>4, <2>1, <2>2, FollowsToken
  <2>4. args' # <<>>
    <3>1. args \in Seq(Nat) /\ start_pos \in Nat
      BY DEF ScanInv, LexerType
    <3>2. QED
      BY <2>1, <3>1, AppendProperties
  <2>5. ExecMeansLine'
    BY Zenon, <2>1 DEF ExecMeansLine
  <2>6. QED
    BY Zenon, <1>3, <1>4, <2>1, <2>2, <2>3, <2>4, <2>5 DEF MeanInv
<1>10. CASE ParseFails
  <2>1. pc' = "failed" /\ dup' = "freed" /\ pc \in {"env", "args"} /\ Refused
    BY Zenon, <1>10 DEF ParseFails
  <2>2. Follows /\ (pc = "env" <=> args = <<>>)
    BY Zenon, <2>1 DEF MeanInv
  <2>3. ~Meaning(text).valid
    BY Zenon, <1>4, <2>1, <2>2, RefusedMeans
  <2>4. ExecMeansLine'
    BY Zenon, <1>3, <2>1, <2>3 DEF ExecMeansLine
  <2>5. QED
    BY Zenon, <1>3, <1>4, <2>1, <2>4 DEF MeanInv
<1>11. CASE ParseEnds
  <2>1. /\ pc' = "parsed" /\ pc = "args" /\ dup' = dup /\ args' = args /\ Token("END")
        /\ pos' = pos /\ size' = size
    BY Zenon, <1>11 DEF ParseEnds, contents, lexer
  <2>2. Follows /\ args # <<>> /\ dup = "live" /\ "strdup" \notin fails
    BY Zenon, <2>1 DEF MeanInv
  <2>3. Follows'
    BY Zenon, <1>3, <1>11, <2>2, FollowsSame DEF ParseEnds
  <2>4. pos' = size'
    BY Zenon, <2>1, Results DEF Token
  <2>5. ExecMeansLine'
    BY Zenon, <2>1 DEF ExecMeansLine
  <2>6. QED
    BY Zenon, <1>3, <1>4, <2>1, <2>2, <2>3, <2>4, <2>5 DEF MeanInv
<1>12. CASE Exec
  <2>1. pc' = "exec" /\ pc = "parsed" /\ dup' = dup
    BY Zenon, <1>12 DEF Exec
  <2>2. Follows /\ args # <<>> /\ dup = "live" /\ "strdup" \notin fails /\ pos = size
    BY Zenon, <2>1 DEF MeanInv
  <2>3. /\ Meaning(text).valid
        /\ envp' = Meaning(text).env
        /\ argv' = [i \in DOMAIN Meaning(text).args |-> Told(Meaning(text).args[i])]
    BY Zenon, <1>4, <1>12, <2>2, ExecMeans
  <2>4. PICK m : m = Meaning(text)
    BY Zenon
  <2>5. argv' = [i \in DOMAIN m.args |-> Told(m.args[i])]'
    BY Zenon, <1>3, <2>3, <2>4
  <2>6. ExecMeansLine'
    BY Zenon, <1>3, <2>1, <2>2, <2>3, <2>4, <2>5 DEF ExecMeansLine
  <2>7. QED
    BY Zenon, <1>3, <1>4, <2>1, <2>6 DEF MeanInv
<1>13. CASE ExecFails
  <2>1. pc' = "failed" /\ fails # {} /\ (role = "child" => dup' = "freed")
    BY Zenon, <1>13 DEF ExecFails
  <2>2. ExecMeansLine'
    BY Zenon, <1>3, <2>1 DEF ExecMeansLine
  <2>3. QED
    BY Zenon, <1>3, <1>4, <2>1, <2>2 DEF MeanInv
<1>14. CASE UNCHANGED vars
  <2>1. /\ pc' = pc /\ dup' = dup /\ args' = args /\ pos' = pos /\ size' = size
        /\ argv' = argv /\ envp' = envp
        /\ UNCHANGED <<lexer, scan, contents>>
    BY Zenon, <1>14 DEF vars, contents, lexer
  <2>2. Follows => Follows'
    BY Zenon, <1>3, <2>1, FollowsSame
  <2>3. PICK m : m = Meaning(text)
    BY Zenon
  <2>4. /\ pc = "exec" => /\ m.valid /\ dup = "live" /\ envp = m.env
                         /\ argv = [i \in DOMAIN m.args |-> Told(m.args[i])]
        /\ pc = "failed" => ~m.valid \/ fails # {}
        /\ pc = "failed" /\ role = "child" => dup # "live"
    BY Zenon, <2>3 DEF MeanInv, ExecMeansLine
  <2>5. [i \in DOMAIN m.args |-> Told(m.args[i])]' = [i \in DOMAIN m.args |-> Told(m.args[i])]
    BY Zenon, <1>3
  <2>6. ExecMeansLine'
    BY Zenon, <1>3, <2>1, <2>3, <2>4, <2>5 DEF ExecMeansLine
  <2>7. QED
    BY Zenon, <1>3, <2>1, <2>2, <2>6 DEF MeanInv
<1>15. QED
  BY Zenon, <1>5, <1>6, <1>7, <1>8, <1>9, <1>10, <1>11, <1>12, <1>13, <1>14 DEF Next, Ended

\* The invariant holds before the line is copied.
LEMMA MeanInit == Init => MeanInv
<1> SUFFICES ASSUME Init PROVE MeanInv
  BY Zenon
<1>1. TextType /\ fails \in {{}} \cup {{c} : c \in CallFaults}
  BY Zenon, CmdlineAssumption DEF Init, TextType
<1>2. /\ buf = Append(text, NUL) /\ size = Len(text) + 1 /\ pos = 0 /\ start_pos = 0 /\ quote = NUL
      /\ pc = "start" /\ dup = "none" /\ args = <<>> /\ env = <<>>
  BY Zenon DEF Init, init_lexer
<1>3. text \in Seq(STRING) /\ Len(text) \in Nat
  BY Zenon, <1>1, TextFacts
<1>4. Gone = 0 /\ Consumed = 0
  BY <1>2, <1>3 DEF Gone, Consumed
<1>5. Here = [words |-> <<>>, word |-> <<>>, open |-> NUL]
  BY Zenon, <1>3, <1>4, ReadingSteps DEF Here, Nothing
<1>6. \A i \in pos + 1 .. size - 1 : buf[i] = text[i + Gone]
  <2>1. ASSUME NEW i \in 1 .. Len(text) PROVE Append(text, NUL)[i] = text[i]
    <3>1. text \in Seq(Char) /\ NUL \in Char
      BY <1>3, SeqMonotonic DEF Char
    <3>2. QED
      BY <3>1, AppendProperties
  <2>2. \A i \in pos + 1 .. size - 1 : i \in 1 .. Len(text) /\ i + Gone = i
    BY <1>2, <1>3, <1>4
  <2>3. QED
    BY Zenon, <1>2, <2>1, <2>2
<1>7. Here.open = NUL /\ Here.words = <<>> /\ Here.word = <<>>
  BY <1>5
<1>8. Gathered(<<>>) /\ Given(<<>>) /\ Sorted(<<>>)
  <2>1. Len(<<>>) = 0 /\ ~\E i \in 1 .. Len(<<>>) : TRUE
    BY SMT
  <2>2. Len(<<>>) = pos - start_pos - 0 /\ Len(<<>>) = Len(env) + Len(args) /\ ~(Len(args) > 0)
    BY <1>2, <2>1
  <2>3. Len(env) < ENV_MAX /\ Len(args) < ARGS_MAX
    BY <1>2, <2>1, CmdlineAssumption
  <2>4. Gathered(<<>>)
    <3>1. quote = NUL
      BY Zenon, <1>2
    <3>2. QED
      BY Zenon, <2>1, <2>2, <3>1 DEF Gathered
  <2>5. Given(<<>>) /\ Sorted(<<>>)
    BY Zenon, <1>2, <2>1, <2>2, <2>3 DEF Given, Sorted
  <2>6. QED
    BY Zenon, <2>4, <2>5
<1>9. Follows
  <2>1. pos # size /\ size <= Len(text) + 1
    BY <1>2, <1>3
  <2>2. QED
    BY Zenon, <1>2, <1>6, <1>7, <1>8, <2>1 DEF Follows
<1>10. ExecMeansLine
  BY Zenon, <1>2 DEF ExecMeansLine
<1>11. QED
  BY Zenon, <1>1, <1>2, <1>9, <1>10 DEF MeanInv

\* Whatever the command line is, a program is started exactly with the words it means, tags
\* replaced, and a line that means nothing starts nothing; no child leaves a copy behind.
THEOREM ExecCorrect == Spec => []ExecMeansLine
<1>1. ScanInv /\ MeanInv /\ [Next]_vars => (ScanInv /\ MeanInv)'
  BY Zenon, CmdlineStep, MeanStep
<1>2. MeanInv => ExecMeansLine
  BY Zenon DEF MeanInv
<1>3. QED
  BY CmdlineInit, MeanInit, <1>1, <1>2, PTL DEF Spec

=============================================================================
