------------------------------- MODULE Cmdline -------------------------------
(***************************************************************************)
(* The command lines of the inittab (src/src/cmdline.c): parse_cmdline     *)
(* cuts a copy of the text with next_token, and what it found is handed to *)
(* execvpe, by a child of init as it is (run_exec of src/src/main.c), by   *)
(* the safe-mode placeholder with the tags <proc> and <exitcode> replaced  *)
(* (safe_mode_wait of src/src/safe-mode.c).                                *)
(*                                                                         *)
(* A tag, the name of the failed process and its signal are one character  *)
(* each: only whether an argument is the tag matters.                      *)
(***************************************************************************)
EXTENDS Lexer

CONSTANTS Texts,              \* the command lines tried
          ARGS_MAX, ENV_MAX,  \* the sizes of the tables, their NULL included
          CallFaults          \* the calls that may fail: "strdup", "asprintf", "execvpe"

VARIABLES pc,
          text,       \* the command line
          role,       \* who parses it: a child, or the safe-mode placeholder
          fails,      \* the calls that fail this time
          dup,        \* the copy: "none", "live" or "freed"
          args, env,  \* struct cmdline_contents: where the tokens start
          argv, envp  \* the strings execvpe gets

contents == <<args, env>>
call == <<text, role, fails>>
vars == <<lexer, scan, pc, call, dup, contents, argv, envp>>

ASSUME CmdlineAssumption ==
    /\ Texts \subseteq Seq(STRING \ {NUL})
    /\ ARGS_MAX \in Nat \ {0} /\ ENV_MAX \in Nat \ {0}
    /\ CallFaults \subseteq {"strdup", "asprintf", "execvpe"}

Proc == "<proc>"
ExitCode == "<exitcode>"
ReportedName == <<"name">>
ReportedSignal == <<"signal">>

Init ==
    /\ text \in Texts /\ role \in {"child", "placeholder"} /\ fails \in {{}} \cup {{c} : c \in CallFaults}
    /\ init_lexer(text)
    /\ pc = "start" /\ dup = "none"
    /\ args = <<>> /\ env = <<>> /\ argv = <<>> /\ envp = <<>>

\* The copy is made, and the lexer set up on it.
Strdup ==
    /\ pc = "start" /\ "strdup" \notin fails
    /\ pc' = "env" /\ dup' = "live"
    /\ UNCHANGED <<lexer, scan, call, contents, argv, envp>>

\* There is no copy to free.
StrdupFails ==
    /\ pc = "start" /\ "strdup" \in fails
    /\ pc' = "failed"
    /\ UNCHANGED <<lexer, scan, call, dup, contents, argv, envp>>

-----------------------------------------------------------------------------
(* parse_cmdline *)

\* What separates tokens outside quotes.
Delimiter == " "

ScanStep ==
    /\ pc \in {"env", "args"}
    /\ Scan(Delimiter, TRUE, TRUE)
    /\ UNCHANGED <<pc, call, dup, contents, argv, envp>>

Token(tr) == ~Scanning(Delimiter) /\ token_result = tr
HasEquals == \E i \in start_pos + 1 .. pos : buf[i] = "="

\* Before the program, a token with an equals sign is an environment variable.
IsEnv == pc = "env" /\ HasEquals

\* Variant: the last place of the table is used as well.
Fits_All(list, max) == Len(list) < max

\* add_env and add_arg: the last place of the table stays NULL.
Fits(list, max) == Len(list) < max - 1

AddEnv ==
    /\ pc \in {"env", "args"} /\ Token("OK") /\ IsEnv /\ Fits(env, ENV_MAX)
    /\ env' = Append(env, start_pos)
    /\ EndToken
    /\ UNCHANGED <<pc, call, dup, args, argv, envp>>

\* The program, then its arguments.
AddArg ==
    /\ pc \in {"env", "args"} /\ Token("OK") /\ ~IsEnv /\ Fits(args, ARGS_MAX)
    /\ args' = Append(args, start_pos)
    /\ EndToken
    /\ pc' = "args"
    /\ UNCHANGED <<call, dup, env, argv, envp>>

\* A table is full, a quote is left open, a token is blank, or no program follows
\* the environment.
Refused ==
    \/ Token("OK") /\ IsEnv /\ ~Fits(env, ENV_MAX)
    \/ Token("OK") /\ ~IsEnv /\ ~Fits(args, ARGS_MAX)
    \/ Token("UNFINISHED_QUOTE") \/ Token("BLANK")
    \/ pc = "env" /\ Token("END")

\* parse_cmdline returns false: the copy is freed.
ParseFails ==
    /\ pc \in {"env", "args"} /\ Refused
    /\ pc' = "failed" /\ dup' = "freed"
    /\ UNCHANGED <<lexer, scan, call, contents, argv, envp>>

\* parse_cmdline returns true: contents owns the copy.
ParseEnds ==
    /\ pc = "args" /\ Token("END")
    /\ pc' = "parsed"
    /\ UNCHANGED <<lexer, scan, call, dup, contents, argv, envp>>

-----------------------------------------------------------------------------
(* What becomes of it *)

Strings(offsets) == [i \in DOMAIN offsets |-> CString(offsets[i])]

\* safe_mode_wait puts the report in the place of the tags; without memory for the
\* signal's text the <exitcode> tag stays.
Substituted(strings) ==
    [i \in DOMAIN strings |->
        CASE strings[i] = <<Proc>> -> ReportedName
          [] strings[i] = <<ExitCode>> /\ "asprintf" \notin fails -> ReportedSignal
          [] OTHER -> strings[i]]

\* execvpe gets the two tables.
Exec ==
    /\ pc = "parsed" /\ "execvpe" \notin fails
    /\ argv' = IF role = "placeholder" THEN Substituted(Strings(args)) ELSE Strings(args)
    /\ envp' = Strings(env)
    /\ pc' = "exec"
    /\ UNCHANGED <<lexer, scan, call, dup, contents>>

\* execvpe returns: a child frees the contents, then both exit.
ExecFails ==
    /\ pc = "parsed" /\ "execvpe" \in fails
    /\ pc' = "failed"
    /\ dup' = IF role = "child" THEN "freed" ELSE dup
    /\ UNCHANGED <<lexer, scan, call, contents, argv, envp>>

Ended == pc \in {"exec", "failed"} /\ UNCHANGED vars

Next ==
    \/ Strdup \/ StrdupFails \/ ScanStep \/ AddEnv \/ AddArg \/ ParseFails \/ ParseEnds
    \/ Exec \/ ExecFails \/ Ended

Spec == Init /\ [][Next]_vars

-----------------------------------------------------------------------------
(* What a command line means, without buffers *)

\* One character: unquoted blanks separate words, quotes disappear, inside quotes every
\* other character counts.
ReadChar(r, c) ==
    CASE r.open = NUL /\ c = " "      -> [words |-> Append(r.words, r.word), word |-> <<>>, open |-> NUL]
      [] r.open = NUL /\ c \in Quotes -> [r EXCEPT !.open = c]
      [] r.open # NUL /\ r.open = c   -> [r EXCEPT !.open = NUL]
      [] OTHER                        -> [r EXCEPT !.word = Append(@, c)]

\* What the first characters of a line come to: the words that are over, the one that
\* is not, and the quote that is open.
Nothing == [words |-> <<>>, word |-> <<>>, open |-> NUL]
Reading(line) ==
    LET read[k \in 0 .. Len(line)] ==
            IF k = 0 THEN Nothing ELSE ReadChar(read[k - 1], line[k])
    IN  read

\* The whole of it.
Open(line) == Reading(line)[Len(line)].open
Words(line) == Append(Reading(line)[Len(line)].words, Reading(line)[Len(line)].word)

\* The first n words, and no more, have an equals sign.
Equals(word) == \E i \in DOMAIN word : word[i] = "="
Leading(words, n) ==
    /\ \A i \in 1 .. n : Equals(words[i])
    /\ n < Len(words) => ~Equals(words[n + 1])

\* "[<environ>...]<path-to-exec>[<arg>...]" (cmdline.c:62-70), for tables of the
\* given sizes.
Meaning(line) ==
    LET words == Words(line)
        envs == CHOOSE n \in 0 .. Len(words) : Leading(words, n)
    IN  [valid |-> /\ Open(line) = NUL /\ envs < Len(words)
                   /\ \A i \in DOMAIN words : words[i] # <<>>
                   /\ envs < ENV_MAX /\ Len(words) - envs < ARGS_MAX,
         env |-> SubSeq(words, 1, envs),
         args |-> SubSeq(words, envs + 1, Len(words))]

\* What the program is told in the place of a word.
Told(word) ==
    IF role = "placeholder" /\ word = <<Proc>> THEN ReportedName
    ELSE IF role = "placeholder" /\ word = <<ExitCode>> /\ fails = {} THEN ReportedSignal
    ELSE word

\* The in-place scan stays inside the copy and keeps it terminated: every offset it
\* reads or writes is below size, and the last cell holds the NUL, also after quotes
\* were moved out (lexer.c:32-97).
BufferBounded ==
    /\ 0 <= start_pos /\ start_pos <= pos /\ pos <= size /\ size <= Len(buf)
    /\ size > 0 => At(size - 1) = NUL
    /\ quote # NUL => start_pos <= quote_start /\ quote_start < pos /\ pos < size

\* Scanning later tokens never changes a token handed out before: the moves of
\* next_token begin at or after the token being scanned (lexer.c:50-66), so the
\* pointers in args and env stay good without a copy.
TokensStable ==
    [][\A list \in {args, env} : \A i \in DOMAIN list : CString(list[i])' = CString(list[i])]_vars

\* Cutting a line ends, and takes time linear in its length: although a closing quote
\* moves the position and the rest of the buffer back, every step uses up exactly one
\* character of what is left, skipping none and looking at none again (lexer.c:32-98).
EachCharacterOnce ==
    [][{pc, pc'} \subseteq {"env", "args"} => size' - pos' = size - pos - 1]_vars

\* A program is started exactly with the words of its command line, quotes resolved
\* and tags replaced, and a line without meaning starts nothing; the strings live in
\* a copy that was not freed, and a child that does not start it leaves no copy
\* (cmdline.c:47-139, safe-mode.c:83-107).
ExecMeansLine ==
    /\ pc = "exec" =>
          /\ Meaning(text).valid /\ dup = "live"
          /\ envp = Meaning(text).env
          /\ argv = [i \in DOMAIN Meaning(text).args |-> Told(Meaning(text).args[i])]
    /\ pc = "failed" => ~Meaning(text).valid \/ fails # {}
    /\ pc = "failed" /\ role = "child" => dup # "live"

=============================================================================
