----------------------------- MODULE ShellParser ----------------------------
(***************************************************************************)
(* user/sh.c: from the text of a line to the tree of commands.  A text b   *)
(* is a sequence of characters; Blank and Symbols are characters, and all  *)
(* others make words.  A word is <<q, eq>>: where it begins, and the       *)
(* position behind it.  A parser returns [cmd, s]: what it has read, and   *)
(* the position it has come to; after a panic cmd is Bad.                  *)
(***************************************************************************)
EXTENDS Integers, Sequences, SequencesExt, FiniteSets, FiniteSetsExt

CONSTANT MAXARGS

ParserAssumption == MAXARGS \in Nat \ {0}

Blank == " "
Symbols == {"<", "|", ">", "&", ";", "(", ")"}

Bad == [type |-> "bad"]
Panic(s) == [cmd |-> Bad, s |-> s]

(* The constructors; the redirections of a command are listed from the     *)
(* inside out, as they are wrapped around it.                              *)
Execcmd(argv) == [type |-> "exec", argv |-> argv]
Redircmd(cmd, file, mode) == [type |-> "redir", cmd |-> cmd, file |-> file, mode |-> mode]
Pipecmd(left, right) == [type |-> "pipe", left |-> left, right |-> right]
Listcmd(left, right) == [type |-> "list", left |-> left, right |-> right]
Backcmd(cmd) == [type |-> "back", cmd |-> cmd]

-----------------------------------------------------------------------------
Char(b, k) == IF k <= Len(b) THEN b[k] ELSE "0"
IsWord(c) == c \notin Symbols \cup {Blank, "0"}

Skip(b, s) == Min({k \in s .. Len(b) + 1 : Char(b, k) # Blank})
WordEnd(b, s) == Min({k \in s .. Len(b) + 1 : ~IsWord(Char(b, k))})

(* Slip: ">>" is two tokens.                                            *)
NoAppend(b, q) == FALSE

Append2(b, q) == Char(b, q + 1) = ">"

EndOf(b, q, c) ==
  CASE c = "0" -> q
    [] c = ">" -> IF Append2(b, q) THEN q + 2 ELSE q + 1
    [] IsWord(c) -> WordEnd(b, q)
    [] OTHER -> q + 1

TokAt(b, q, c) == CASE IsWord(c) -> "a" [] c = ">" /\ Append2(b, q) -> "+" [] OTHER -> c

Scan(b, q, eq) == [tok |-> TokAt(b, q, Char(b, q)), word |-> <<q, eq>>, s |-> Skip(b, eq)]
Token(b, q) == Scan(b, q, EndOf(b, q, Char(b, q)))
Gettoken(b, s) == Token(b, Skip(b, s))

Peek(b, s, toks) == Char(b, Skip(b, s)) \in toks

-----------------------------------------------------------------------------
Mode(tok) == CASE tok = "<" -> "read" [] tok = ">" -> "create" [] OTHER -> "append"

RECURSIVE Parseredirs(_, _, _)
Redirected(b, cmd, op, f) ==
  IF f.tok # "a" THEN Panic(f.s)
  ELSE Parseredirs(b, Redircmd(cmd, f.word, Mode(op.tok)), f.s)

RedirBy(b, cmd, op) == Redirected(b, cmd, op, Gettoken(b, op.s))

Parseredirs(b, cmd, s) ==
  IF Peek(b, s, {"<", ">"}) THEN RedirBy(b, cmd, Gettoken(b, s)) ELSE [cmd |-> cmd, s |-> s]

(* The command inside the redirections gets one more argument.             *)
RECURSIVE AddArg(_, _)
AddArg(cmd, word) ==
  IF cmd.type = "redir" THEN [cmd EXCEPT !.cmd = AddArg(cmd.cmd, word)]
                        ELSE [cmd EXCEPT !.argv = Append(@, word)]

RECURSIVE Argc(_)
Argc(cmd) == IF cmd.type = "redir" THEN Argc(cmd.cmd) ELSE Len(cmd.argv)

RedirsBehind(b, cmd, s) == Parseredirs(b, cmd, s)

(* The loop of parseexec(): arguments with redirections between them.      *)
RECURSIVE Arguments(_, _)
OneMore(b, ret, t) ==
  IF t.tok = "0" THEN [cmd |-> ret, s |-> t.s]
  ELSE IF t.tok # "a" \/ Argc(ret) + 1 >= MAXARGS THEN Panic(t.s)
  ELSE Arguments(b, RedirsBehind(b, AddArg(ret, t.word), t.s))

Arguments(b, r) ==
  IF r.cmd = Bad \/ Peek(b, r.s, {"|", ")", "&", ";"}) THEN r
  ELSE OneMore(b, r.cmd, Gettoken(b, r.s))

(* Slip: one "&" at most.                                               *)
OneBack(b, r) ==
  IF Peek(b, r.s, {"&"}) THEN [cmd |-> Backcmd(r.cmd), s |-> Gettoken(b, r.s).s] ELSE r

RECURSIVE AllBacks(_, _)
AllBacks(b, r) ==
  IF r.cmd = Bad \/ ~Peek(b, r.s, {"&"}) THEN r
  ELSE AllBacks(b, [cmd |-> Backcmd(r.cmd), s |-> Gettoken(b, r.s).s])

Backs(b, r) == AllBacks(b, r)

RECURSIVE Parseline(_, _), Parsepipe(_, _)

(* What is read behind an operator, joined to what was read before it.     *)
Join(left, rest, Op(_, _)) ==
  IF rest.cmd = Bad THEN rest ELSE [cmd |-> Op(left, rest.cmd), s |-> rest.s]

Parseblock(b, r) ==
  IF r.cmd = Bad \/ ~Peek(b, r.s, {")"}) THEN Panic(r.s)
  ELSE Parseredirs(b, r.cmd, Gettoken(b, r.s).s)

Parseexec(b, s) ==
  IF Peek(b, s, {"("}) THEN Parseblock(b, Parseline(b, Gettoken(b, s).s))
  ELSE Arguments(b, Parseredirs(b, Execcmd(<<>>), s))

Piped(b, r) ==
  IF r.cmd = Bad \/ ~Peek(b, r.s, {"|"}) THEN r
  ELSE Join(r.cmd, Parsepipe(b, Gettoken(b, r.s).s), Pipecmd)

Parsepipe(b, s) == Piped(b, Parseexec(b, s))

Listed(b, r) ==
  IF r.cmd = Bad \/ ~Peek(b, r.s, {";"}) THEN r
  ELSE Join(r.cmd, Parseline(b, Gettoken(b, r.s).s), Listcmd)

Parseline(b, s) == Listed(b, Backs(b, Parsepipe(b, s)))

(* Slip: leftovers are not looked for.                                  *)
NoLeftovers(b, s) == TRUE

AtEnd(b, s) == Skip(b, s) = Len(b) + 1

WholeLine(b, r) == IF AtEnd(b, r.s) THEN r.cmd ELSE Bad
Parsecmd(b) == WholeLine(b, Parseline(b, 1))

(* The positions where nulterminate() writes 0.                            *)
RECURSIVE Nulterminate(_)
Nulterminate(cmd) ==
  CASE cmd.type = "exec" -> {cmd.argv[k][2] : k \in DOMAIN cmd.argv}
    [] cmd.type = "redir" -> Nulterminate(cmd.cmd) \cup {cmd.file[2]}
    [] cmd.type = "back" -> Nulterminate(cmd.cmd)
    [] OTHER -> Nulterminate(cmd.left) \cup Nulterminate(cmd.right)

-----------------------------------------------------------------------------
(* The language, from the outside in: a line is split at its first ";"     *)
(* outside of parentheses, what is left of it ends in "&"s, the rest is    *)
(* split at its first "|", and a piece is a block or words with            *)
(* redirections.  Tokens are [tok, word].                                  *)

(* Where a token begins: a word behind what is none, and every second ">"  *)
(* of a row of them.                                                       *)
Before(b, k) == {j \in 1 .. k - 1 : \A m \in j .. k - 1 : b[m] = ">"}
Begins(b, k) ==
  CASE b[k] = Blank -> FALSE
    [] IsWord(b[k]) -> k = 1 \/ ~IsWord(Char(b, k - 1))
    [] b[k] = ">" -> Cardinality(Before(b, k)) % 2 = 0
    [] OTHER -> TRUE

EndFrom(b, k) == Min({j \in k + 1 .. Len(b) + 1 : j > Len(b) \/ Begins(b, j) \/ b[j] = Blank})
TokenAs(b, k, e) ==
  [tok |-> CASE IsWord(b[k]) -> "a" [] b[k] = ">" /\ e = k + 2 -> "+" [] OTHER -> b[k],
   word |-> <<k, e>>]
Numbered(b, starts) == [n \in DOMAIN starts |-> TokenAs(b, starts[n], EndFrom(b, starts[n]))]
Tokens(b) ==
  Numbered(b, SetToSortSeq({k \in DOMAIN b : Begins(b, k)}, LAMBDA x, y : x < y))

Depth(ts, k) == Cardinality({j \in 1 .. k : ts[j].tok = "("}) - Cardinality({j \in 1 .. k : ts[j].tok = ")"})
Outside(ts, tok) == {k \in DOMAIN ts : ts[k].tok = tok /\ Depth(ts, k) = 0}
Upto(ts, k) == SubSeq(ts, 1, k)
From(ts, k) == SubSeq(ts, k, Len(ts))

Both(left, right, Op(_, _)) == IF Bad \in {left, right} THEN Bad ELSE Op(left, right)
Behind(cmd, Op(_)) == IF cmd = Bad THEN Bad ELSE Op(cmd)

(* Words and redirections around a command that has been read.             *)
RECURSIVE Around(_, _, _)
Around(cmd, ts, words) ==
  IF ts = <<>> \/ cmd = Bad THEN cmd
  ELSE CASE ts[1].tok = "a" /\ words -> Around(AddArg(cmd, ts[1].word), Tail(ts), words)
         [] /\ ts[1].tok \in {"<", ">", "+"}
            /\ Len(ts) > 1 /\ ts[2].tok = "a" ->
              Around(Redircmd(cmd, ts[2].word, Mode(ts[1].tok)), From(ts, 3), words)
         [] OTHER -> Bad

RECURSIVE Line(_)

BlockOf(ts, end) ==
  IF end = {} THEN Bad ELSE Around(Line(SubSeq(ts, 2, Min(end) - 1)), From(ts, Min(end) + 1), FALSE)

Few(cmd) == IF cmd # Bad /\ Argc(cmd) >= MAXARGS THEN Bad ELSE cmd

Piece(ts) ==
  IF ts # <<>> /\ ts[1].tok = "("
  THEN BlockOf(ts, {k \in DOMAIN ts : ts[k].tok = ")" /\ Depth(ts, k) = 0})
  ELSE Few(Around(Execcmd(<<>>), ts, TRUE))

RECURSIVE Split(_, _)
Split(ts, bars) ==
  IF bars = {} THEN Piece(ts)
  ELSE LET k == Min(bars)
       IN Both(Piece(Upto(ts, k - 1)), Split(From(ts, k + 1), {j - k : j \in bars \ {k}}), Pipecmd)

RECURSIVE Background(_)
Background(ts) ==
  IF ts # <<>> /\ Last(ts).tok = "&" THEN Behind(Background(Front(ts)), Backcmd)
  ELSE Split(ts, Outside(ts, "|"))

LineFrom(ts, semis) ==
  IF semis = {} THEN Background(ts)
  ELSE Both(Background(Upto(ts, Min(semis) - 1)), Line(From(ts, Min(semis) + 1)), Listcmd)

Line(ts) == LineFrom(ts, Outside(ts, ";"))

(* The parser reads the lines of the language, as the trees they mean, and *)
(* no others; and nulterminate() ends each word where it ends.             *)
Matches(cmd, ts) ==
  /\ cmd = Line(ts)
  /\ cmd # Bad =>
       Nulterminate(cmd) = {ts[k].word[2] : k \in {j \in DOMAIN ts : ts[j].tok = "a"}}

ParsesRight(b) == Matches(Parsecmd(b), Tokens(b))

=============================================================================
