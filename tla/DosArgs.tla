------------------------------ MODULE DosArgs ------------------------------
(***************************************************************************)
(* From a command line to the values ReadArgs() stores: the shell's split  *)
(* of a line (lib/dos/CommandLine.py), items (Item.py) read from a         *)
(* character source (CSource.py), the three passes of the argument parser  *)
(* and the layout of its results (Args.py).  A character is a string; a    *)
(* template argument is a record; a result keeps its words in val.         *)
(***************************************************************************)
EXTENDS Integers, Sequences, SequencesExt, FiniteSets

CONSTANTS
    Templates,     \* templates, each a sequence of <<key, flags>>
    ArgWords,      \* words of an argument line, as sequences of characters
    MaxWords,      \* bound: words of a line
    CmdPieces,     \* pieces of a shell line behind the command
    MaxPieces      \* bound: pieces of a shell line

VARIABLES
    ar_kind,       \* "none", "args", "raised" or "shell": what was parsed
    ar_in,         \* its input
    ar_out         \* its outcome
ar_vars == <<ar_kind, ar_in, ar_out>>

-----------------------------------------------------------------------------
(* Character sources *)

Blank == {" ", "tab"}
Eol == {"eof", "nul", "nl"}
Source_(buf) == [buf |-> buf, pos |-> 0]
peek(c) == IF c.pos < Len(c.buf) THEN c.buf[c.pos + 1] ELSE "eof"
take(c) == IF c.pos < Len(c.buf) THEN [c EXCEPT !.pos = @ + 1] ELSE c
\* At the end this gives the last character back, although none was taken.
unget(c) == IF c.pos > 0 THEN [c EXCEPT !.pos = @ - 1] ELSE c
rewind(c, n) == IF c.pos >= n THEN [c EXCEPT !.pos = @ - n] ELSE c

-----------------------------------------------------------------------------
(* Items: [st, data, c, last], last the character that ended an unquoted one *)

ItemIs(st, data, c, last) == [st |-> st, data |-> data, c |-> c, last |-> last]
Escaped(ch) == CASE ch \in {"n", "N"} -> "nl" [] ch \in {"e", "E"} -> "esc" [] OTHER -> ch
RECURSIVE quoted_item(_, _, _)
quoted_item(c, res, max) ==
    LET ch == peek(c) c1 == take(c) esc == peek(c1)
    IN IF max = 0 THEN IF res = <<>> THEN ItemIs("raised", <<>>, c, "") ELSE ItemIs("error", Front(res), c, "")
       ELSE IF ch = "*" THEN IF esc \in Eol THEN ItemIs("error", res, unget(take(c1)), "")
                             ELSE quoted_item(take(c1), Append(res, Escaped(esc)), max - 1)
       ELSE IF ch \in Eol THEN ItemIs("error", res, unget(c1), "")
       ELSE IF ch = "\"" THEN ItemIs("quoted", res, c1, "")
       ELSE quoted_item(c1, Append(res, ch), max - 1)
RECURSIVE plain_item(_, _, _, _)
plain_item(c, res, max, bug) ==
    LET ch == peek(c) c1 == take(c)
    IN IF max = 0 THEN ItemIs("error", Front(res), c, "")
       ELSE IF ch \in Eol THEN ItemIs("unquoted", res, IF bug THEN unget(c1) ELSE c1, "")
       ELSE IF ch \in Blank \union {"="} THEN ItemIs("unquoted", res, c1, ch)
       ELSE plain_item(c1, Append(res, ch), max - 1, bug)
RECURSIVE skip_blanks(_)
skip_blanks(c) == IF peek(c) \in Blank THEN skip_blanks(take(c)) ELSE c
read_item(c0, max, bug) ==
    LET c == skip_blanks(c0) ch == peek(c) c1 == take(c)
    IN CASE ch \in Eol \union {";"} -> ItemIs("nothing", <<>>, unget(c1), "")
         [] ch = "=" -> ItemIs("equal", <<>>, c1, "")
         [] ch = "\"" -> quoted_item(c1, <<>>, max)
         [] OTHER -> IF max = 0 THEN ItemIs("error", <<>>, c1, "") ELSE plain_item(c1, <<ch>>, max - 1, bug)
\* The rest of the line behind an item; blanks at its end go if the item was unquoted.
StripBlanks(s) == LET solid == {i \in DOMAIN s : s[i] \notin Blank} IN SubSeq(s, 1, IF solid = {} THEN 0 ELSE Max(solid))
read_eol(it) ==
    LET rest == SubSeq(it.c.buf, it.c.pos + 1, Len(it.c.buf))
        ends == {i \in DOMAIN rest : rest[i] \in Eol \union {";"}}
        line == SubSeq(rest, 1, IF ends = {} THEN Len(rest) ELSE Min(ends) - 1)
    IN IF it.last = "" THEN line ELSE StripBlanks(<<it.last>> \o line)

-----------------------------------------------------------------------------
(* Templates *)

Upper(w) == [i \in DOMAIN w |-> CASE w[i] = "k" -> "K" [] w[i] = "f" -> "F" [] OTHER -> w[i]]
\* The type is that of the last flag that names one.
ktype(flags) ==
    LET named == SelectSeq(flags, LAMBDA fl : fl \in {"N", "S", "T", "F"})
    IN IF named = <<>> THEN "string" ELSE CASE Last(named) = "N" -> "number" [] Last(named) = "S" -> "switch" [] Last(named) = "T" -> "toggle" [] OTHER -> "full"
Flag(flags, fl) == fl \in ToSet(flags)
TemplateArg(t) ==
    [key |-> Upper(t[1]), ktype |-> ktype(t[2]), is_multi |-> Flag(t[2], "M"), is_required |-> Flag(t[2], "A"),
     is_keyword |-> \E fl \in {"S", "T", "K"} : Flag(t[2], fl)]
find_arg(tal, word) == LET at == {i \in DOMAIN tal : tal[i].key = Upper(word)} IN IF at = {} THEN 0 ELSE Min(at)
On(targ) == targ.ktype \in {"switch", "toggle"}

-----------------------------------------------------------------------------
(* ArgsParser.parse(): a result is [kind, val], val a sequence of words *)

None_ == [kind |-> "none", val |-> <<>>]
Got(kind, val) == [kind |-> kind, val |-> val]
Fail(p, e) == [p EXCEPT !.err = e, !.stop = TRUE]
\* One item for the argument at p.pos (n + 1 takes what is left over); "next" is the position to go on at.
store(p, tal, it, next) ==
    LET n == Len(tal)
        q == [p EXCEPT !.c = it.c]
    IN CASE p.pos <= n /\ tal[p.pos].ktype = "full" -> [q EXCEPT !.res[p.pos] = Got("text", <<it.data \o read_eol(it)>>), !.stop = TRUE]
         [] p.pos > n \/ (p.pos <= n /\ tal[p.pos].is_multi) -> [q EXCEPT !.multi = Append(@, it.data)]
         [] OTHER -> [q EXCEPT !.res[p.pos] = IF On(tal[p.pos]) THEN Got("on", <<>>) ELSE Got("text", <<it.data>>), !.pos = next]
\* An item that names an argument still without a result.
keyword(p, tal, it, k, max) ==
    LET v0 == read_item(it.c, max, FALSE)
        v == IF v0.st = "equal" THEN read_item(v0.c, max, FALSE) ELSE v0
        q == [p EXCEPT !.pos = k]
    IN IF On(tal[k]) THEN store(q, tal, it, p.pos)
       ELSE IF v.st \notin {"quoted", "unquoted"} THEN Fail(p, "KEY_NEEDS_ARG")
       ELSE store(q, tal, v, p.pos)
pass1_step(p, tal, max) ==
    LET it == read_item(p.c, max, FALSE)
        k == find_arg(tal, it.data)
    IN IF p.pos <= Len(tal) /\ (p.res[p.pos] # None_ \/ tal[p.pos].is_keyword) THEN [p EXCEPT !.pos = @ + 1]
       ELSE CASE it.st = "error" -> Fail(p, "LINE_TOO_LONG")
              [] it.st = "raised" -> Fail(p, "raised")
              [] it.st = "nothing" -> [p EXCEPT !.stop = TRUE]
              [] it.st = "equal" -> Fail(p, "BAD_TEMPLATE")
              [] it.st = "unquoted" /\ k # 0 /\ p.res[IF k = 0 THEN 1 ELSE k] = None_ -> keyword(p, tal, it, k, max)
              [] OTHER -> store(p, tal, it, p.pos + 1)
RECURSIVE pass1(_, _, _)
pass1(p, tal, max) == IF p.stop \/ p.pos > Len(tal) + 1 THEN p ELSE pass1(pass1_step(p, tal, max), tal, max)
\* Required arguments without a result take the last of the left overs, backwards.
require(p, tal, i) ==
    CASE p.err # "" \/ ~tal[i].is_required \/ tal[i].is_multi \/ p.res[i] # None_ -> p
      [] tal[i].is_keyword -> Fail(p, "TOO_MANY_ARGS")
      [] p.multi = <<>> -> Fail(p, "REQUIRED_ARG_MISSING")
      [] OTHER -> [p EXCEPT !.res[i] = Got("text", <<Last(p.multi)>>), !.multi = Front(@)]
pass2(p, tal) == IF p.err # "" THEN p ELSE FoldLeft(LAMBDA q, i : require(q, tal, i), p, Reverse([i \in DOMAIN tal |-> i]))
\* The first /M takes what is left; without one it must be nothing.
\* Mutant: what is left over without a /M is dropped.
assign_multi_Drops(p, tal) ==
    LET multis == {i \in DOMAIN tal : tal[i].is_multi}
        i == Min(multis)
    IN CASE p.err # "" \/ multis = {} -> p
         [] p.err = "" /\ multis # {} /\ p.multi = <<>> -> IF tal[i].is_required THEN Fail(p, "REQUIRED_ARG_MISSING") ELSE p
         [] OTHER -> [p EXCEPT !.res[i] = Got("list", p.multi), !.multi = <<>>]
assign_multi(p, tal) ==
    LET multis == {i \in DOMAIN tal : tal[i].is_multi}
        i == Min(multis)
    IN CASE p.err # "" -> p
         [] p.err = "" /\ multis = {} -> IF p.multi # <<>> /\ p.pos = Len(tal) + 1 THEN Fail(p, "TOO_MANY_ARGS") ELSE p
         [] p.err = "" /\ multis # {} /\ p.multi = <<>> -> IF tal[i].is_required THEN Fail(p, "REQUIRED_ARG_MISSING") ELSE p
         [] OTHER -> [p EXCEPT !.res[i] = Got("list", p.multi), !.multi = <<>>]
Digits == {"1", "2"}
IsNumber(w) == w # <<>> /\ ToSet(w) \subseteq Digits
convert_numbers(p, tal) ==
    IF p.err # "" \/ \A i \in DOMAIN tal : tal[i].ktype = "number" => \A j \in DOMAIN p.res[i].val : IsNumber(p.res[i].val[j])
    THEN p ELSE Fail(p, "BAD_NUMBER")
parse(tal, c, max) ==
    LET start == [c |-> c, pos |-> 1, res |-> [i \in DOMAIN tal |-> None_], multi |-> <<>>, err |-> "", stop |-> FALSE]
    IN convert_numbers(assign_multi(pass2(pass1(start, tal, max), tal), tal), tal)

-----------------------------------------------------------------------------
(* ParseResultList: the extra memory, longs first, then strings *)

Chars(words) == FoldLeft(LAMBDA n, w : n + Len(w) + 1, 0, words)
\* len() of the result of a /M argument: a list, or the text of a /M/F one.
Count(r) == IF r.kind = "text" THEN Len(r.val[1]) ELSE Len(r.val)
\* Longs and characters that a result takes: <<longs, chars>>.
Needs(targ, r) ==
    LET n == Count(r)
    IN CASE r.kind = "none" \/ (targ.is_multi /\ n = 0) -> <<0, 0>>
         [] targ.is_multi -> IF targ.ktype = "number" THEN <<2 * n + 1, 0>> ELSE <<n + 1, IF targ.ktype = "string" THEN Chars(r.val) ELSE 0>>
         [] targ.ktype \in {"string", "full"} -> <<0, Chars(r.val)>>
         [] OTHER -> <<IF targ.ktype = "number" THEN 1 ELSE 0, 0>>
calc_extra_result_size(tal, res) ==
    LET sum(k) == FoldLeft(LAMBDA n, i : n + Needs(tal[i], res[i])[k], 0, [i \in DOMAIN tal |-> i])
    IN [longs |-> sum(1), size |-> 4 * sum(1) + sum(2)]
\* The two pointers into the extra memory behind what is written, and what each
\* slot of the caller's array becomes.
Written(g, longs, chars, slot) == [long |-> g.long + 4 * longs, char |-> g.char + chars, slots |-> Append(g.slots, slot)]
generate_one(g, targ, r) ==
    LET n == Count(r)
    IN CASE r.kind = "none" \/ (targ.is_multi /\ n = 0) -> Written(g, 0, 0, IF targ.is_multi THEN "null" ELSE "kept")
         [] targ.is_multi /\ targ.ktype = "string" -> Written(g, n + 1, Chars(r.val), "pointer")
         [] targ.is_multi /\ targ.ktype = "number" -> Written(g, 2 * n + 1, 0, "pointer")
         [] targ.is_multi -> Written(g, 1, 0, "kept")
         [] targ.ktype \in {"string", "full"} -> Written(g, 0, Chars(r.val), "pointer")
         [] targ.ktype = "number" -> Written(g, 1, 0, "pointer")
         [] targ.ktype = "switch" -> Written(g, 0, 0, "on")
         [] OTHER -> Written(g, 0, 0, "flipped")
generate_result(tal, res, longs) ==
    FoldLeft(LAMBDA g, i : generate_one(g, tal[i], res[i]), [long |-> 0, char |-> 4 * longs, slots |-> <<>>], [i \in DOMAIN tal |-> i])

-----------------------------------------------------------------------------
(* ReadArgs() *)

\* want_help(): the line from here, and whether "?" asks for help.  A blank
\* counts as seen only until the end of its own step.
RECURSIVE help_from(_, _, _, _)
help_from(line, i, h, help) ==
    LET ch == line[i]
        quote == IF ch = "\"" /\ ~h.escaped THEN ~h.quoted ELSE h.quoted
        asks == ch = "?" /\ ~quote /\ h.space
        next == [escaped |-> IF ch = "*" /\ h.quoted THEN ~h.escaped ELSE h.escaped, quoted |-> quote, space |-> ch = "?" /\ ~asks /\ h.space]
    IN IF i > Len(line) \/ ch = "nl" THEN help ELSE help_from(line, i + 1, next, asks)
want_help(c) ==
    LET rest == SubSeq(c.buf, c.pos + 1, Len(c.buf))
        nls == {i \in DOMAIN rest : rest[i] = "nl"}
        line == SubSeq(rest, 1, IF nls = {} THEN Len(rest) ELSE Min(nls))
    IN [help |-> help_from(line, 1, [escaped |-> FALSE, quoted |-> FALSE, space |-> TRUE], FALSE), num |-> Len(line)]
RECURSIVE with_help(_, _, _)
\* The source at the line to parse: each "?" is answered and the next line taken.
with_help(c, lines, prompts) ==
    LET h == want_help(c)
        read == [c EXCEPT !.pos = @ + h.num]
    IN IF h.help THEN with_help([read EXCEPT !.buf = @ \o (IF lines = <<>> THEN <<>> ELSE Head(lines))], IF lines = <<>> THEN <<>> ELSE Tail(lines), prompts + 1)
       ELSE [c |-> rewind(read, h.num), prompts |-> prompts]

Line(words) == FlattenSeq([i \in DOMAIN words |-> (IF i = 1 THEN <<>> ELSE <<" ">>) \o words[i]]) \o <<"nl">>
Outcome(tal, prompts, p) ==
    LET size == calc_extra_result_size(tal, p.res)
    IN [err |-> p.err, res |-> p.res, prompts |-> prompts, size |-> size, end |-> generate_result(tal, p.res, size.longs)]
ReadArgs ==
    /\ ar_kind = "none" /\ ar_kind' = "args"
    /\ \E t \in Templates, n \in 0..MaxWords, asks \in 0..1 : \E words \in [1..n -> ArgWords] :
       \E tal \in {[i \in DOMAIN t |-> TemplateArg(t[i])]},
          src \in {with_help(Source_(IF asks = 0 THEN Line(words) ELSE <<"?", "nl">>), [i \in 1..asks |-> Line(words)], 0)} :
         /\ ar_in' = [tal |-> tal, words |-> words, lines |-> asks]
         /\ ar_out' = Outcome(tal, src.prompts, parse(tal, src.c, 256))

-----------------------------------------------------------------------------
(* CommandLine.parse_line() *)

Split(p, e) == [p EXCEPT !.st = e]
Taken(v) == v.st \in {"quoted", "unquoted"}
\* One character of the line behind the command, or a whole redirection.
line_step(p) ==
    LET ch == peek(p.c) c1 == take(p.c) two == peek(c1)
        app == ch = ">" /\ two = ">"
        \* a ">" at the very end is given back instead of what follows it
        v == read_item(CASE app -> take(c1) [] ch = ">" /\ two = "eof" -> p.c [] OTHER -> c1, 512, FALSE)
    IN CASE p.quoted /\ ch \in {"eof", "nl"} -> Split(p, "PREMATURE_END")
         [] ~p.quoted /\ ch \in {"eof", "nl", "*"} -> Split(p, "OK")
         [] ~p.quoted /\ ch = "<" -> IF p.rin # <<>> THEN Split(p, "MULTI_REDIR_IN") ELSE IF Taken(v) THEN [p EXCEPT !.c = v.c, !.rin = <<v.data>>] ELSE Split(p, "REDIR_IN_FAILED")
         [] ~p.quoted /\ ch = ">" -> IF p.rout # <<>> THEN Split(p, "MULTI_REDIR_OUT")
                                       ELSE IF Taken(v) THEN [p EXCEPT !.c = v.c, !.rout = <<v.data>>, !.append = app] ELSE Split(p, "REDIR_OUT_FAILED")
         [] OTHER -> [p EXCEPT !.c = c1, !.arg = Append(@, ch), !.quoted = IF ch = "\"" THEN ~@ ELSE @]
RECURSIVE line_run(_)
line_run(p) == IF p.st # "run" THEN p ELSE line_run(line_step(p))
parse_line(line) ==
    LET Start(cmd) == [c |-> cmd.c, quoted |-> FALSE, arg |-> <<>>, rin |-> <<>>, rout |-> <<>>, append |-> FALSE, cmd |-> cmd.data,
                       st |-> IF Taken(cmd) THEN "run" ELSE "COMMAND_ERROR"]
        Fields(p) == [st |-> p.st, cmd |-> p.cmd, arg |-> Append(p.arg, "nl"), rin |-> p.rin, rout |-> p.rout, append |-> p.append]
    IN Fields(line_run(Start(read_item(Source_(line), 512, FALSE))))

\* A line ends with a newline, without one, or with a ">" that then names itself.
LineEnds == {[src |-> <<"nl">>, pieces |-> <<>>], [src |-> <<>>, pieces |-> <<>>],
             [src |-> <<">">>, pieces |-> <<[kind |-> "out", src |-> <<">">>, name |-> <<">">>]>>]}
ShellLine ==
    /\ ar_kind = "none"
    /\ \E n \in 0..MaxPieces, end \in LineEnds : \E pieces \in [1..n -> CmdPieces] :
         /\ ar_kind' = "shell" /\ ar_in' = pieces \o end.pieces
         /\ ar_out' = parse_line(<<"c", " ">> \o FlattenSeq([i \in DOMAIN pieces |-> pieces[i].src]) \o end.src)

ArgsInit == ar_kind = "none" /\ ar_in = <<>> /\ ar_out = <<>>
ArgsNext == ReadArgs \/ ShellLine

-----------------------------------------------------------------------------
Good == ar_kind = "args" /\ ar_out.err = ""
Unquote(w) == IF w # <<>> /\ w[1] = "\"" THEN SubSeq(w, 2, Len(w) - 1) ELSE w
IsKey(tal, w) == find_arg(tal, w) # 0
\* When ReadArgs() succeeds every word of the line is in one result, whichever of
\* keyword, place, /A from the left overs or /M took it, unless a /F argument took
\* the rest of the line.  (A word that names an argument a second time is a value.)
ArgsComplete ==
    Good =>
      LET tal == ar_in.tal
          plain == SelectSeq(ar_in.words, LAMBDA w : ~IsKey(tal, w) /\ w # <<"=">>)
          got == FlattenSeq([i \in DOMAIN tal |-> ar_out.res[i].val])
      IN (\A i \in DOMAIN tal : tal[i].ktype # "full") =>
           \A w \in {x \in ToSet(got) : ~IsKey(tal, x)} \union {Unquote(x) : x \in ToSet(plain)} :
             Len(SelectSeq(got, LAMBDA x : x = w)) = Len(SelectSeq(plain, LAMBDA x : Unquote(x) = w))
\* A program that gets its arguments may use all of those marked /A.
RequiredThere == Good => \A i \in DOMAIN ar_in.tal : ar_in.tal[i].is_required => ar_out.res[i] # None_
\* What is written behind the caller's array fits into the memory taken for it,
\* and no pointer is written over a string.
ExtraFits == Good => ar_out.end.long <= 4 * ar_out.size.longs /\ ar_out.end.char <= ar_out.size.size
\* A line put together from arguments and redirections in any order comes apart
\* into them; more than one redirection of a kind is refused.
ShellSplits ==
    ar_kind = "shell" =>
      LET of(kinds) == SelectSeq(ar_in, LAMBDA x : x.kind \in kinds)
          ins == of({"in"}) outs == of({"out", "append"})
      IN /\ (ar_out.st = "OK") = (Len(ins) <= 1 /\ Len(outs) <= 1)
         /\ ar_out.st = "OK" =>
              /\ ar_out.arg = FlattenSeq([i \in DOMAIN of({"arg"}) |-> of({"arg"})[i].src]) \o <<"nl">>
              /\ ar_out.rin = [i \in DOMAIN ins |-> ins[i].name]
              /\ ar_out.rout = [i \in DOMAIN outs |-> outs[i].name]
              /\ ar_out.append = (\E i \in DOMAIN outs : outs[i].kind = "append")

\* Each word of a line ends up in one argument of the template or in the command's part
\* it belongs to (ReadArgs(), CommandLine).
ArgsRight == ArgsComplete /\ RequiredThere /\ ExtraFits /\ ShellSplits
=============================================================================
