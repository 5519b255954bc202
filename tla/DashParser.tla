---------------------------- MODULE DashParser ----------------------------
(* dash's parser, src/dash-debian/src/parser.c: from characters to words    *)
(* and from words to the tree of a command.                                 *)
(*                                                                          *)
(* A word comes out as text for expand.c: its characters with the control   *)
(* characters CTLESC (the next character is quoted), CTLQUOTEMARK (a quote  *)
(* stood here), CTLVAR subtype name = word CTLENDVAR (a substitution),      *)
(* CTLBACKQ (the next of the word's commands) and CTLARI ... CTLENDARI.     *)
(*                                                                          *)
(* Every operator takes and gives the state p of the parser: the input      *)
(* (DashInput), and                                                         *)
(*   kwd    checkkwd          back  tokpushback     tok   lasttoken         *)
(*   word   wordtext          quote quoteflag # 0   bq    backquotelist     *)
(*   redir  redirnode         here  heredoc         heres heredoclist       *)
(*   docs   the here-documents read, by the number their redirection has    *)
(*   err    a syntax error was raised: nothing is read any more             *)
(*   node   the tree the last operator built                                *)
(* Line numbers and prompts are left out.                                   *)
EXTENDS DashInput

CONSTANTS HighBytes,     \* the characters that are negative as a signed char
          SpecialBuiltins

NONE == [type |-> "NONE"]
NEOF == [type |-> "NEOF"]

Parsing(text, aliases) ==
    [files |-> <<FileOf(text)>>, aliases |-> aliases, kwd |-> {}, c |-> "",
     back |-> FALSE, tok |-> "", word |-> <<>>, quote |-> FALSE, bq |-> <<>>,
     redir |-> NONE, here |-> [id |-> 0, strip |-> FALSE], heres |-> <<>>,
     docs |-> <<>>, err |-> FALSE, node |-> NONE]

(* synerror: the error leaves the parser by longjmp. *)
synerror(p) == [p EXCEPT !.err = TRUE, !.tok = "ERR", !.node = NONE]
PushBack(p) == [p EXCEPT !.back = TRUE]

----------------------------------------------------------------------------
(* rmescapes, as the end mark of a here-document is prepared. *)
RECURSIVE rmescapes(_)
rmescapes(text) ==
    IF text = <<>> THEN <<>>
    ELSE IF text[1] = "CTLQUOTEMARK" THEN rmescapes(Tail(text))
    ELSE IF text[1] = "CTLESC" THEN <<text[2]>> \o rmescapes(Tail(Tail(text)))
    ELSE <<text[1]>> \o rmescapes(Tail(text))

Keywords == [w \in {"!", "{", "}", "case", "do", "done", "elif", "else", "esac", "fi",
                    "for", "if", "in", "then", "until", "while"} |->
               CASE w = "!" -> "TNOT" [] w = "{" -> "TBEGIN" [] w = "}" -> "TEND"
                 [] w = "case" -> "TCASE" [] w = "do" -> "TDO" [] w = "done" -> "TDONE"
                 [] w = "elif" -> "TELIF" [] w = "else" -> "TELSE" [] w = "esac" -> "TESAC"
                 [] w = "fi" -> "TFI" [] w = "for" -> "TFOR" [] w = "if" -> "TIF"
                 [] w = "in" -> "TIN" [] w = "then" -> "TTHEN" [] w = "until" -> "TUNTIL"
                 [] w = "while" -> "TWHILE"]
tokendlist == {"TEOF", "TRP", "TENDCASE", "TDO", "TDONE", "TELIF", "TELSE", "TESAC",
               "TFI", "TTHEN", "TEND"}


----------------------------------------------------------------------------
RECURSIVE list(_, _), readtoken(_), Chars(_, _), command(_)

(* readtoken1: the reading of one word.  r is [p, out, stack, quotef, bq],  *)
(* with the word so far and the syntax stack, innermost first; doc says     *)
(* what is read: a word, a prompt, or a here-document that ends at mark.    *)
Frame(syntax) == [syntax |-> syntax, innerdq |-> FALSE, varpushed |-> FALSE,
                  dblquote |-> syntax = "DQ", varnest |-> 0, parenlevel |-> 0,
                  dqvarnest |-> 0]
AWord == [kind |-> "word", mark |-> <<>>, strip |-> FALSE]
APrompt == [kind |-> "prompt", mark |-> <<>>, strip |-> FALSE]

Put(r, text) == [r EXCEPT !.out = @ \o text]
OnStack(r, s) == [r EXCEPT !.stack = <<s>> \o Tail(@)]
Push(r, s) == [r EXCEPT !.stack = <<s>> \o @]
Pop(r) == [r EXCEPT !.stack = Tail(@)]
pgetc_top(r) == [r EXCEPT !.p = IF r.stack[1].syntax = "SQ" THEN pgetc(@) ELSE pgetc_eatbnl(@)]

(* checkend: at the start of a line of a here-document, is it the mark?     *)
(* What was read of a line that is not the mark is pushed back.             *)
RECURSIVE Tabs(_), Line(_, _, _)
Tabs(p) == IF p.c = "TAB" THEN Tabs(pgetc(p)) ELSE p
Line(p, mark, got) ==
    LET all == Append(got, p.c)
        kept == IF p.c = "EOF" \/ p.c \in HighBytes THEN got ELSE all
    IN  IF mark # <<>> /\ p.c = mark[1] THEN Line(pgetc(p), Tail(mark), all)
        ELSE IF mark = <<>> /\ p.c \in {"NL", "EOF"} THEN [p EXCEPT !.c = "EOF"]
        ELSE IF Len(all) = 1 THEN p
        ELSE [IF Len(kept) > 1 THEN pushstring(p, Tail(kept), "") ELSE p
                EXCEPT !.c = all[1]]
CheckEnd(r, doc) ==
    IF doc.kind # "here" THEN r
    ELSE [r EXCEPT !.p = Line(IF doc.strip THEN Tabs(@) ELSE @, doc.mark, <<>>)]

QuoteMark(r, doc) == IF doc.kind = "word" THEN Put(r, <<"CTLQUOTEMARK">>) ELSE r
ToggleDq(r, doc) ==
    LET s == r.stack[1]
    IN  QuoteMark(OnStack(r, [s EXCEPT !.innerdq = (s.varnest > 0) # @]), doc)

(* A backslash: inside double quotes it only quotes some characters.        *)
Backslash(r, doc) ==
    LET p == pgetc(r.p)
        s == r.stack[1]
        plain == /\ s.dblquote
                 /\ p.c \notin {"\\", "BQT", "$"}
                 /\ p.c # "\"" \/ (doc.kind # "word" /\ s.varnest = 0)
                 /\ p.c # "}" \/ s.varnest = 0
    IN  IF p.c = "EOF" THEN Put([r EXCEPT !.p = pungetc(p)], <<"CTLESC", "\\">>)
        ELSE Put([r EXCEPT !.p = p, !.quotef = TRUE],
                 (IF plain THEN <<"CTLESC", "\\">> ELSE <<>>) \o <<"CTLESC", p.c>>)

EndQuote(r, doc) ==
    LET s == r.stack[1]
        q == [IF s.dqvarnest = 0
              THEN OnStack(r, [s EXCEPT !.syntax = "BASE", !.dblquote = FALSE])
              ELSE r EXCEPT !.quotef = TRUE]
    IN  IF doc.kind # "word" /\ s.varnest = 0 THEN Put(r, <<r.p.c>>)
        ELSE IF r.p.c = "\"" THEN ToggleDq(q, doc)
        ELSE QuoteMark(q, doc)

EndVar(r) ==
    LET s == r.stack[1]
        t == [s EXCEPT !.varnest = @ - 1]
    IN  IF s.innerdq \/ s.varnest = 0 THEN Put(r, <<"}">>)
        ELSE Put(IF t.varnest = 0 /\ t.varpushed THEN Pop(r)
                 ELSE OnStack(r, IF t.dqvarnest > 0 THEN [t EXCEPT !.dqvarnest = @ - 1] ELSE t),
                 <<"CTLENDVAR">>)

EndParen(r) ==
    LET s == r.stack[1]
        p == pgetc_eatbnl(r.p)
    IN  IF s.parenlevel > 0 THEN Put(OnStack(r, [s EXCEPT !.parenlevel = @ - 1]), <<")">>)
        ELSE IF p.c = ")" THEN Put(Pop([r EXCEPT !.p = p]), <<"CTLENDARI">>)
        ELSE Put([r EXCEPT !.p = pungetc(p)], <<")">>)

----------------------------------------------------------------------------
(* parsesub: what follows a dollar sign.                                    *)
RECURSIVE Name(_, _, _)
Name(p, chars, name) ==           (* the characters of a name; p.c is the next *)
    IF p.c \in chars THEN Name(pgetc_eatbnl(p), chars, Append(name, p.c))
    ELSE [p |-> p, name |-> name]
NameAt(p) ==
    IF is_name(p.c) THEN Name(p, Letters \union Digits \union {"_"}, <<>>)
    ELSE Name(p, Digits, <<>>)

(* A substitution whose name and operator are read: type and nul are the    *)
(* subtype, newsyn the syntax its word is read with.                        *)
Substitution(r, p, name, type, nul, newsyn) ==
    LET s == r.stack[1]
        syn == IF newsyn = "ARI" THEN "DQ" ELSE newsyn
        simple == type = "VSNORMAL" /\ ~nul
        q == IF (syn # s.syntax \/ s.innerdq) /\ ~simple
             THEN Push(r, [Frame(syn) EXCEPT !.varpushed = TRUE, !.dblquote = syn # "BASE"])
             ELSE r
        t == q.stack[1]
    IN  Put([IF simple THEN q
             ELSE OnStack(q, [t EXCEPT !.varnest = @ + 1,
                                       !.dqvarnest = IF t.dblquote THEN @ + 1 ELSE @])
               EXCEPT !.p = p],
            <<"CTLVAR", type, IF nul THEN "VSNUL" ELSE "">> \o name \o <<"=">>)

VarType(c) == CASE c = "}" -> "VSNORMAL" [] c = "-" -> "VSMINUS" [] c = "+" -> "VSPLUS"
                [] c = "?" -> "VSQUESTION" [] c = "=" -> "VSASSIGN" [] OTHER -> "BADSUB"

(* The operator after the name in ${name...: p.c is its first character.    *)
Operator(r, p, name) ==
    LET s == r.stack[1]
        n == pgetc_eatbnl(p)
        twice == n.c = p.c
        side == IF p.c = "#" THEN "VSTRIMLEFT" ELSE "VSTRIMRIGHT"
    IN  CASE p.c = ":" -> Substitution(r, n, name, VarType(n.c), TRUE, s.syntax)
          [] p.c \in {"%", "#"} ->
               Substitution(r, IF twice THEN n ELSE pungetc(n), name,
                            IF twice THEN side \o "MAX" ELSE side, FALSE, "BASE")
          [] OTHER -> Substitution(r, p, name, VarType(p.c), FALSE, s.syntax)

Bad(r, p, name) == Substitution(r, pungetc(p), name, "BADSUB", FALSE, r.stack[1].syntax)
LengthOf(r, p, name) ==
    Substitution(r, pungetc(p), name, IF p.c = "}" THEN "VSLENGTH" ELSE "BADSUB", FALSE,
                 r.stack[1].syntax)

(* After ${: p.c is the first character of the name.                        *)
Braced(r, p) ==
    LET named == NameAt(p)
        one == pgetc_eatbnl(p)
        two == pgetc_eatbnl(one)
        length == NameAt(one)
    IN  CASE is_name(p.c) \/ p.c \in Digits -> Operator(r, named.p, named.name)
          [] p.c = "}" -> Bad(r, p, <<>>)
          [] p.c = "#" /\ is_in_name(one.c) -> LengthOf(r, length.p, length.name)
          [] p.c = "#" /\ one.c # "}" /\ two.c = "}" ->
               IF is_special(one.c) THEN LengthOf(r, two, <<one.c>>) ELSE Bad(r, two, <<>>)
          [] p.c = "#" -> Operator(r, [pungetc(two) EXCEPT !.c = one.c], <<"#">>)
          [] OTHER -> IF is_special(p.c) THEN Operator(r, one, <<p.c>>) ELSE Bad(r, one, <<>>)

(* $name, $1 or $?.                                                         *)
Bare(r, p) ==
    LET named == IF is_name(p.c) THEN NameAt(p)
                 ELSE [p |-> pgetc_eatbnl(p), name |-> <<p.c>>]
    IN  Substitution(r, pungetc(named.p), named.name, "VSNORMAL", FALSE, r.stack[1].syntax)

----------------------------------------------------------------------------
RECURSIVE HereDocs(_, _)

(* parsebackq: `command` is read again as a string of its own, $(command)   *)
(* where it stands.  Either way its commands are a list, its here-documents *)
(* end with it, and CTLBACKQ marks its place in the word.                   *)
RECURSIVE OldText(_, _, _)
OldText(p, dblquote, text) ==           (* p with c the text up to the backquote *)
    LET q == pgetc_eatbnl(p)
        n == pgetc(q)
        kept == n.c \in {"\\", "BQT", "$"} \/ (dblquote /\ n.c = "\"")
    IN  CASE q.c = "BQT" -> setinputstring(q, text)
          [] q.c = "EOF" -> synerror(q)
          [] q.c = "\\" -> OldText(n, dblquote, text \o (IF kept THEN <<>> ELSE <<"\\">>) \o <<n.c>>)
          [] OTHER -> OldText(q, dblquote, Append(text, q.c))

ClosedBy(p, tok) == LET q == readtoken(p) IN IF q.tok = tok THEN q ELSE synerror(q)

Commands(r, p, old) ==
    LET q == list([p EXCEPT !.heres = <<>>], 2)
        closed == IF old THEN q ELSE setinputstring(ClosedBy(q, "TRP"), <<>>)
        done == popfile(HereDocs([closed EXCEPT !.heres = <<>>], closed.heres))
    IN  IF closed.err THEN [r EXCEPT !.p = closed]
        ELSE Put([r EXCEPT !.p = [done EXCEPT !.heres = p.heres, !.back = ~old /\ @],
                           !.bq = Append(@, q.node)],
                 <<"CTLBACKQ">>)

Dollar(r) ==
    LET p == pgetc_eatbnl(r.p)
        q == pgetc_eatbnl(p)
    IN  IF "CHKEOFMARK" \in p.kwd \/ ~(p.c \in {"(", "{"} \/ is_name(p.c) \/ is_special(p.c))
        THEN Put([r EXCEPT !.p = pungetc(p)], <<"$">>)
        ELSE CASE p.c = "(" /\ q.c = "(" ->
                    Put(Push([r EXCEPT !.p = q], [Frame("ARI") EXCEPT !.dblquote = TRUE]),
                        <<"CTLARI">>)
               [] p.c = "(" /\ q.c # "(" -> Commands(r, pungetc(q), FALSE)
               [] p.c = "{" -> Braced(r, q)
               [] OTHER -> Bare(r, p)

(* One character of the word, in the class its table gives it.              *)
OneChar(r, doc, class) ==
    LET s == r.stack[1]
        c == r.p.c
    IN  CASE class \in {"CNL", "CWORD", "CSPCL"} -> Put(r, <<c>>)
          [] class = "CCTL" ->
               Put(r, IF doc.kind = "word" \/ s.dblquote \/ s.varnest > 0
                      THEN <<"CTLESC", c>> ELSE <<c>>)
          [] class = "CBACK" -> Backslash(r, doc)
          [] class = "CSQUOTE" -> QuoteMark(OnStack(r, [s EXCEPT !.syntax = "SQ"]), doc)
          [] class = "CDQUOTE" ->
               ToggleDq(OnStack(r, [s EXCEPT !.syntax = "DQ", !.dblquote = TRUE]), doc)
          [] class = "CENDQUOTE" -> EndQuote(r, doc)
          [] class = "CVAR" -> Dollar(r)
          [] class = "CENDVAR" -> EndVar(r)
          [] class = "CLP" -> Put(OnStack(r, [s EXCEPT !.parenlevel = @ + 1]), <<c>>)
          [] class = "CRP" -> EndParen(r)
          [] class = "CBQUOTE" ->
               IF "CHKEOFMARK" \in r.p.kwd THEN Put(r, <<c>>)
               ELSE Commands(r, OldText(r.p, s.dblquote, <<>>), TRUE)

(* The loop of readtoken1 over lines and characters.                        *)
Chars(r, doc) ==
    LET s == r.stack[1]
        class == Syntax(s.syntax, r.p.c)
        open == s.varnest > 0
        next == pgetc_top(OneChar(r, doc, class))
    IN  CASE r.p.err -> r
          [] ~r.p.err /\ (\/ class = "CEOF"
                          \/ class = "CNL" /\ s.syntax = "BASE" /\ ~open
                          \/ class = "CSPCL" /\ ~open) -> r
          [] OTHER -> Chars(IF class = "CNL" THEN CheckEnd(next, doc) ELSE next, doc)

(* parseredir: the redirection operator that starts at p.c, for the         *)
(* descriptor the word before it names, if there is one.                    *)
Redir(p, type, fd) == [p EXCEPT !.redir = [type |-> type, fd |-> fd]]
parseredir(p, word) ==
    LET q == pgetc_eatbnl(p)
        n == pgetc_eatbnl(q)
        fd == IF word = <<>> THEN (IF p.c = ">" THEN "1" ELSE "0") ELSE word[1]
        id == Len(p.docs) + 1
    IN  CASE p.c = ">" /\ q.c = ">" -> Redir(q, "NAPPEND", fd)
          [] p.c = ">" /\ q.c = "|" -> Redir(q, "NCLOBBER", fd)
          [] p.c = ">" /\ q.c = "&" -> Redir(q, "NTOFD", fd)
          [] p.c = ">" /\ q.c \notin {">", "|", "&"} -> Redir(pungetc(q), "NTO", fd)
          [] p.c = "<" /\ q.c = "<" ->
               [Redir(IF n.c = "-" THEN n ELSE pungetc(n), "NHERE", fd) EXCEPT
                  !.here = [id |-> id, strip |-> n.c = "-"],
                  !.docs = Append(@, [text |-> <<>>, bq |-> <<>>])]
          [] p.c = "<" /\ q.c = "&" -> Redir(q, "NFROMFD", fd)
          [] p.c = "<" /\ q.c = ">" -> Redir(q, "NFROMTO", fd)
          [] OTHER -> Redir(pungetc(q), "NFROM", fd)

(* readtoken1, its first character read.                                    *)
readtoken1(p, syntax, doc) ==
    LET r == Chars(CheckEnd([p |-> p, out |-> <<>>, stack |-> <<Frame(syntax)>>,
                             quotef |-> FALSE, bq |-> <<>>], doc), doc)
        s == r.stack[1]
        q == r.p
        unended == \/ s.syntax = "ARI" \/ s.varnest > 0
                   \/ s.syntax # "BASE" /\ doc.kind = "word"
        redir == /\ doc.kind = "word" /\ q.c \in {"<", ">"} /\ ~r.quotef
                 /\ r.out = <<>> \/ (Len(r.out) = 1 /\ r.out[1] \in Digits)
    IN  CASE q.err -> q
          [] ~q.err /\ unended -> synerror(q)
          [] ~q.err /\ ~unended /\ redir -> [parseredir(q, r.out) EXCEPT !.tok = "TREDIR"]
          [] OTHER -> [IF doc.kind = "word" THEN pungetc(q) ELSE q EXCEPT
                         !.quote = r.quotef, !.bq = r.bq, !.word = r.out, !.tok = "TWORD"]

(* parseheredoc: the here-documents announced since the last newline.       *)
HereDocs(p, heres) ==
    IF p.err \/ heres = <<>> THEN p
    ELSE LET h == heres[1]
             doc == [kind |-> "here", mark |-> h.mark, strip |-> h.strip]
             q == IF h.quoted THEN readtoken1(pgetc(p), "SQ", doc)
                  ELSE readtoken1(pgetc_eatbnl(p), "DQ", doc)
         IN  HereDocs([q EXCEPT !.docs[h.id] = [text |-> q.word, bq |-> q.bq]], Tail(heres))
parseheredoc(p) == HereDocs([p EXCEPT !.heres = <<>>], p.heres)

----------------------------------------------------------------------------
(* xxreadtoken: the next token.                                             *)
RECURSIVE Comment(_), xxreadtoken(_)
Comment(p) ==
    LET q == pgetc(p) IN IF q.c \in {"NL", "EOF"} THEN pungetc(q) ELSE Comment(q)
Token(p, tok) == [p EXCEPT !.tok = tok]
Double(p, one, two) ==
    LET q == pgetc_eatbnl(p) IN IF q.c = p.c THEN Token(q, two) ELSE Token(pungetc(q), one)
xxreadtoken(p) ==
    LET q == pgetc_eatbnl(p)
        c == q.c
    IN  CASE p.err -> Token(p, "ERR")
          [] ~p.err /\ p.back -> [p EXCEPT !.back = FALSE]
          [] OTHER ->
               CASE c \in {" ", "TAB"} -> xxreadtoken(q)
                 [] c = "#" -> xxreadtoken(Comment(q))
                 [] c = "NL" -> Token(q, "TNL")
                 [] c = "EOF" -> Token(q, "TEOF")
                 [] c = "&" -> Double(q, "TBACKGND", "TAND")
                 [] c = "|" -> Double(q, "TPIPE", "TOR")
                 [] c = ";" -> Double(q, "TSEMI", "TENDCASE")
                 [] c = "(" -> Token(q, "TLP")
                 [] c = ")" -> Token(q, "TRP")
                 [] OTHER -> readtoken1(q, "BASE", AWord)

(* readtoken: newlines are passed over, and words are keywords or aliases,  *)
(* as kwd allows.                                                           *)
RECURSIVE TokenFor(_, _), SkipNewlines(_)
SkipNewlines(p) ==
    IF p.tok # "TNL" THEN p
    ELSE SkipNewlines(xxreadtoken([parseheredoc(p) EXCEPT !.kwd = {}]))
TokenFor(p, wanted) ==
    LET q == xxreadtoken(p)
        r == IF "CHKNL" \in wanted THEN SkipNewlines(q) ELSE q
        kwd == wanted \union r.kwd
        t == [r EXCEPT !.kwd = {}]
        word == r.tok = "TWORD" /\ ~r.quote
        key == "CHKKWD" \in kwd /\ Len(r.word) = 1 /\ r.word[1] \in DOMAIN Keywords
        name == r.word[1]
        val == r.aliases[name].val
    IN  CASE word /\ key -> Token(t, Keywords[name])
          [] word /\ ~key /\ "CHKALIAS" \in kwd /\ lookupalias(r, r.word) ->
               TokenFor(IF val = <<>> THEN t ELSE pushstring(t, val, name), kwd)
          [] OTHER -> t
readtoken(p) == TokenFor(p, p.kwd)

----------------------------------------------------------------------------
(* The grammar.                                                             *)
AtCommand == {"CHKNL", "CHKKWD", "CHKALIAS"}
With(p, kwd) == [p EXCEPT !.kwd = kwd]
Built(p, node) == IF p.err THEN p ELSE [p EXCEPT !.node = node]
makename(p) == [text |-> p.word, bq |-> p.bq]
dolat == [text |-> <<"CTLQUOTEMARK", "CTLVAR", "VSNORMAL", "", "@", "=", "CTLQUOTEMARK">>,
          bq |-> <<>>]

(* parsefname: what a redirection names; p.node is the redirection.         *)
parsefname(p) ==
    LET n == p.redir
        q == readtoken(IF n.type = "NHERE" THEN With(p, {"CHKEOFMARK"}) ELSE p)
        dup == n.type \in {"NTOFD", "NFROMFD"} /\ q.word \in {<<d>> : d \in Digits \union {"-"}}
        here == [id |-> q.here.id, strip |-> q.here.strip, quoted |-> q.quote,
                 mark |-> rmescapes(q.word)]
    IN  CASE q.tok # "TWORD" -> synerror(q)
          [] q.tok = "TWORD" /\ n.type = "NHERE" ->
               [Built(q, [type |-> IF q.quote THEN "NHERE" ELSE "NXHERE",
                          fd |-> n.fd, doc |-> here.id])
                  EXCEPT !.heres = Append(@, here)]
          [] q.tok = "TWORD" /\ dup -> Built(q, [type |-> n.type, fd |-> n.fd, dup |-> q.word[1]])
          [] OTHER -> Built(q, [type |-> n.type, fd |-> n.fd, name |-> makename(q)])

(* The redirections after a compound command n1, as p.node.                 *)
RECURSIVE Redirected(_, _, _)
Redirected(p, n1, redirs) ==
    LET q == readtoken(p)
        r == parsefname(q)
        n == IF redirs = <<>> THEN n1
             ELSE IF n1.type = "NSUBSHELL" THEN [n1 EXCEPT !.redirect = redirs]
             ELSE [type |-> "NREDIR", n |-> n1, redirect |-> redirs]
    IN  IF q.tok = "TREDIR" THEN Redirected(r, n1, Append(redirs, r.node))
        ELSE Built(PushBack(q), n)
Compound(p, node) == Redirected(With(p, {"CHKKWD", "CHKALIAS"}), node, <<>>)

RECURSIVE IfNode(_)
IfNode(p) ==                                         (* after if or elif *)
    LET test == list(p, 0)
        ifpart == list(ClosedBy(test, "TTHEN"), 0)
        q == readtoken(ifpart)
        elsepart == CASE q.tok = "TELIF" -> IfNode(q)
                      [] q.tok = "TELSE" -> list(q, 0)
                      [] OTHER -> Built(PushBack(q), NONE)
    IN  Built(elsepart, [type |-> "NIF", test |-> test.node, ifpart |-> ifpart.node,
                         elsepart |-> elsepart.node])

WhileNode(p) ==
    LET test == list(p, 0)
        body == list(ClosedBy(test, "TDO"), 0)
    IN  Built(body, [type |-> IF p.tok = "TWHILE" THEN "NWHILE" ELSE "NUNTIL",
                     ch1 |-> test.node, ch2 |-> body.node])

RECURSIVE ForWords(_, _)
ForWords(p, args) ==
    LET q == readtoken(p)
    IN  IF q.tok = "TWORD" THEN ForWords(q, Append(args, makename(q)))
        ELSE [IF q.tok \in {"TNL", "TSEMI"} THEN q ELSE synerror(q) EXCEPT !.node = args]
ForNode(p) ==
    LET var == readtoken(p)
        in == readtoken(With(var, AtCommand))
        words == IF in.tok = "TIN" THEN ForWords(in, <<>>)
                 ELSE [IF in.tok = "TSEMI" THEN in ELSE PushBack(in) EXCEPT !.node = <<dolat>>]
        body == list(ClosedBy(With(words, AtCommand), "TDO"), 0)
    IN  IF var.tok # "TWORD" \/ var.quote \/ ~goodname(var.word) THEN synerror(var)
        ELSE Built(body, [type |-> "NFOR", var |-> var.word, args |-> words.node,
                          body |-> body.node])

(* One alternative after another.  What is read as a pattern need not be a  *)
(* word: the text is that of the last word read.                            *)
RECURSIVE CasePatterns(_, _), Cases(_, _)
CasePatterns(p, patterns) ==
    LET all == Append(patterns, makename(p))
        q == readtoken(p)
    IN  IF q.tok = "TPIPE" THEN CasePatterns(readtoken(q), all)
        ELSE [IF q.tok = "TRP" THEN q ELSE synerror(q) EXCEPT !.node = all]
Cases(p, cases) ==
    LET q == readtoken(With(p, {"CHKNL", "CHKKWD"}))
        patterns == CasePatterns(IF q.tok = "TLP" THEN readtoken(q) ELSE q, <<>>)
        body == list(patterns, 2)
        all == Append(cases, [pattern |-> patterns.node, body |-> body.node])
        end == readtoken(With(body, {"CHKNL", "CHKKWD"}))
    IN  CASE q.tok \in {"TESAC", "ERR"} -> [q EXCEPT !.node = cases]
          [] q.tok \notin {"TESAC", "ERR"} /\ end.tok = "TESAC" -> [end EXCEPT !.node = all]
          [] q.tok \notin {"TESAC", "ERR"} /\ end.tok = "TENDCASE" -> Cases(end, all)
          [] OTHER -> synerror(end)
CaseNode(p) ==
    LET expr == readtoken(p)
        in == ClosedBy(With(expr, AtCommand), "TIN")
        cases == Cases(in, <<>>)
    IN  IF expr.tok # "TWORD" THEN synerror(expr)
        ELSE Built(cases, [type |-> "NCASE", expr |-> makename(expr), cases |-> cases.node])

(* simplecmd: assignments, words and redirections, or a function.           *)
RECURSIVE Simple(_, _, _, _, _)
Simple(p, kwd, vars, args, redirs) ==
    LET q == readtoken(With(p, kwd))
        word == makename(q)
        redir == parsefname(q)
        name == args[1]
        rp == ClosedBy(q, "TRP")
        body == command(With(rp, AtCommand))
        bad == ~goodname(name.text) \/ name.text \in {<<b>> : b \in SpecialBuiltins}
    IN  CASE q.tok = "TWORD" /\ kwd # {} /\ isassignment(q.word) ->
               Simple(q, kwd, Append(vars, word), args, redirs)
          [] q.tok = "TWORD" /\ ~(kwd # {} /\ isassignment(q.word)) ->
               Simple(q, {}, vars, Append(args, word), redirs)
          [] q.tok = "TREDIR" -> Simple(redir, kwd, vars, args, Append(redirs, redir.node))
          [] q.tok = "TLP" /\ Len(args) = 1 /\ vars = <<>> /\ redirs = <<>> ->
               IF bad THEN synerror(rp)
               ELSE Built(body, [type |-> "NDEFUN", text |-> name.text, body |-> body.node])
          [] OTHER -> Built(PushBack(q), [type |-> "NCMD", assign |-> vars, args |-> args,
                                          redirect |-> redirs])
simplecmd(p) == Simple(p, {"CHKALIAS"}, <<>>, <<>>, <<>>)

Ended(p, tok) == LET q == ClosedBy(p, tok) IN Compound(q, p.node)
command(p) ==
    LET q == readtoken(p)
        sub == list(q, 0)
    IN  CASE q.tok = "TIF" -> Ended(IfNode(q), "TFI")
          [] q.tok \in {"TWHILE", "TUNTIL"} -> Ended(WhileNode(q), "TDONE")
          [] q.tok = "TFOR" -> Ended(ForNode(q), "TDONE")
          [] q.tok = "TCASE" -> LET n == CaseNode(q) IN Compound(n, n.node)
          [] q.tok = "TLP" ->
               Ended(Built(sub, [type |-> "NSUBSHELL", n |-> sub.node, redirect |-> <<>>]), "TRP")
          [] q.tok = "TBEGIN" -> Ended(sub, "TEND")
          [] q.tok \in {"TWORD", "TREDIR"} -> simplecmd(PushBack(q))
          [] OTHER -> synerror(q)

(* pipeline: commands joined by |, perhaps behind a !.                      *)
RECURSIVE Piped(_, _)
Piped(p, cmds) ==
    LET q == command(With(p, AtCommand))
        r == readtoken(q)
        all == Append(cmds, q.node)
    IN  IF r.tok = "TPIPE" THEN Piped(r, all)
        ELSE Built(PushBack(r), [type |-> "NPIPE", backgnd |-> FALSE, cmds |-> all])
pipeline(p) ==
    LET q == readtoken(p)
        negate == q.tok = "TNOT"
        first == command(IF negate THEN With(q, {"CHKKWD", "CHKALIAS"}) ELSE PushBack(q))
        r == readtoken(first)
        all == IF r.tok = "TPIPE" THEN Piped(r, <<first.node>>)
               ELSE Built(PushBack(r), first.node)
    IN  IF negate THEN Built(all, [type |-> "NNOT", com |-> all.node]) ELSE all

RECURSIVE AndOr(_, _)
AndOr(p, n1) ==
    LET q == readtoken(p)
        n2 == pipeline(With(q, AtCommand))
    IN  IF q.tok \in {"TAND", "TOR"}
        THEN AndOr(n2, [type |-> IF q.tok = "TAND" THEN "NAND" ELSE "NOR",
                        ch1 |-> n1, ch2 |-> n2.node])
        ELSE Built(PushBack(q), n1)
andor(p) == LET n1 == pipeline(p) IN AndOr(n1, n1.node)

Background(n) ==
    CASE n.type = "NPIPE" -> [n EXCEPT !.backgnd = TRUE]
      [] n.type = "NREDIR" -> [n EXCEPT !.type = "NBACKGND"]
      [] OTHER -> [type |-> "NBACKGND", n |-> n, redirect |-> <<>>]

(* list: commands joined by ;, & and newlines.  nlflag 1 is a line of its   *)
(* own, 2 the inside of a substitution or of a case, 0 a compound command,  *)
(* which needs a first command.                                             *)
RECURSIVE Listed(_, _, _, _)
Listed(p, n1, line, empty) ==
    LET q == readtoken(With(p, {"CHKKWD", "CHKALIAS"} \union IF line THEN {} ELSE {"CHKNL"}))
        end == [parseheredoc(q) EXCEPT !.tok = "TEOF", !.back = TRUE]
        cmd == andor(PushBack(q))
        r == readtoken(cmd)
        n2 == IF r.tok = "TBACKGND" THEN Background(cmd.node) ELSE cmd.node
        n == IF n1 = NONE THEN n2 ELSE [type |-> "NSEMI", ch1 |-> n1, ch2 |-> n2]
    IN  CASE q.tok = "TNL" -> Built(parseheredoc(q), n1)
          [] q.tok = "TEOF" -> Built(end, IF n1 = NONE /\ line THEN NEOF ELSE n1)
          [] q.tok \in tokendlist \ {"TEOF"} /\ empty /\ ~line -> Built(PushBack(q), n1)
          [] q.tok = "ERR" -> q
          [] OTHER ->
               CASE r.tok = "TEOF" ->
                      Built([parseheredoc(r) EXCEPT !.tok = "TEOF", !.back = TRUE], n)
                 [] r.tok = "TNL" -> Listed(PushBack(r), n, line, TRUE)
                 [] r.tok \in {"TBACKGND", "TSEMI"} -> Listed(r, n, line, TRUE)
                 [] OTHER -> IF line THEN synerror(r) ELSE Built(PushBack(r), n)
list(p, nlflag) == Listed(p, NONE, nlflag = 1, nlflag = 2)

(* parsecmd: one line of input.                                             *)
parsecmd(p) == list([p EXCEPT !.back = FALSE, !.kwd = {}, !.heres = <<>>], 1)
============================================================================
