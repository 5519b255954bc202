------------------------------ MODULE MCTexts ------------------------------
(* Families of small programs, words, expressions, option lists, formats,   *)
(* redirections and sequences of operations on variables, each member       *)
(* worked once by the code's algorithms (those of dash, and the variables   *)
(* of dash-cpp) and compared with its meaning.  A member is chosen by its   *)
(* family and an index into it.                                             *)
EXTENDS TreeMeaning, WordMeaning, TLC

VARIABLES given,        \* [fam, i]
          answer        \* <<>>, then one record: [got, meant]
vars == <<given, answer>>

----------------------------------------------------------------------------
MCOutput(n) == IF n.args[1].text = <<"c">> THEN <<"a", " ", "b", "NL">> ELSE <<"b", "NL">>
MCNoHome == <<"no", "home">>
MCHome(user) == IF user = <<"b">> THEN <<"/", "b">> ELSE MCNoHome
MCOrder == <<".", "/", "a", "b">>
MCBody(n) == IF n = 1 THEN <<"E", "a", "NL">> ELSE <<"NL", "b", " ", "E", "NL">>
Files == [d \in {<<>>, <<"a", "/">>} |->
            IF d = <<>> THEN <<<<"b">>, <<"a">>, <<".", "a">>, <<"a", "b">>>> ELSE <<<<"b">>, <<"a">>>>]

Shell(values, params, opts) ==
    [text |-> <<>>, dest |-> <<>>, regs |-> <<>>, bq |-> <<>>, len |-> 0, vars |-> values,
     readonly |-> {<<"r">>}, params |-> params,
     special |-> [c \in {"?", "0"} |-> IF c = "?" THEN <<"0">> ELSE <<"d">>],
     opts |-> opts, err |-> FALSE]
Bound(pairs) == [n \in {pairs[i][1] : i \in 1..Len(pairs)} |->
                   pairs[CHOOSE i \in 1..Len(pairs) : pairs[i][1] = n][2]]
X == <<"x">>
Y == <<"y">>
IFS == <<"IFS">>
Blanks == <<" ", "TAB", "NL">>
Shells == <<
    Shell(Bound(<<<<X, <<>>>>, <<IFS, Blanks>>>>), <<>>, {}),
    Shell(Bound(<<<<X, <<" ", "a", " ", " ", "b">>>>, <<IFS, Blanks>>>>),
          <<<<"a", " ">>, <<>>, <<"b">>>>, {}),
    Shell(Bound(<<<<IFS, <<" ", ":">>>>>>), <<<<>>>>, {}),
    Shell(Bound(<<<<X, <<"a", ":", ":", "b", " ">>>>, <<IFS, <<":", " ">>>>>>),
          <<<<"*">>, <<"a">>>>, {}),
    Shell(Bound(<<<<X, <<"a", "*">>>>>>), <<<<>>, <<"a">>>>, {"f"}),
    Shell(Bound(<<<<X, <<"a", " ", "b">>>>, <<IFS, <<>>>>>>), <<<<"a", " ">>, <<"b">>>>, {}),
    Shell(Bound(<<<<X, <<"a", " ", "*">>>>, <<IFS, Blanks>>>>), <<>>, {}),
    Shell(Bound(<<<<IFS, <<" ", ":">>>>, <<Y, <<"/", " ", "b">>>>, <<<<"HOME">>, <<"/", " ", "b">>>>>>),
          <<>>, {}),
    Shell(Bound(<<<<X, <<"*", "a", "*", "a">>>>, <<Y, <<"?">>>>, <<<<"HOME">>, <<"*">>>>>>), <<>>, {"f"}),
    Shell(Bound(<<<<X, <<"a", "*">>>>, <<IFS, Blanks>>>>), <<>>, {}),
    Shell(Bound(<<<<X, <<"5">>>>, <<IFS, Blanks>>>>), <<>>, {}),
    Shell(Bound(<<<<X, <<"5">>>>, <<IFS, <<":">>>>>>), <<>>, {})>>

----------------------------------------------------------------------------
(* Words: a command line of words against their fields, an assignment, a    *)
(* pattern of case, and a line that read takes apart.                       *)
P(n) == Par(n, <<>>, <<>>)
Parts == <<Lit("a"), Sq(<<>>), P("x"), Dq(<<P("x")>>), P("@"), Dq(<<P("@")>>), P("*"), Dq(<<P("*")>>),
           Par("x", <<":", "-">>, <<Lit("a"), Lit(" "), Esc("b")>>), Lit("*"), Cmd("c"),
           Dq(<<Old("c")>>), Dq(<<Lit("a"), P("@")>>), Sq(<<"*">>)>>
SubParts == <<Lit("a"), Lit("*"), P("y"), Dq(<<P("x")>>), Lit("~"), Lit(" "), Cmd("c"),
              Par("y", <<":", "=">>, <<Lit("b")>>), Sq(<<"*">>), Esc("*")>>
SubOps == <<<<"-">>, <<":", "-">>, <<"+">>, <<":", "+">>, <<"=">>, <<":", "=">>, <<"?">>, <<":", "?">>,
            <<"#">>, <<"#", "#">>, <<"%">>, <<"%", "%">>>>
GlobParts == <<<<Lit("a")>>, <<Lit("b")>>, <<Lit("*")>>, <<Lit("?")>>, <<Lit("/")>>, <<Sq(<<"*">>)>>,
               <<Lit(".")>>, <<Lit("["), Lit("a"), Lit("b"), Lit("]")>>,
               <<Lit("["), Lit("!"), Lit("a"), Lit("]")>>, <<P("x")>>, <<Dq(<<P("x")>>)>>,
               <<Lit("["), Dq(<<Lit("a")>>), Lit("]")>>, <<Lit("[")>>, <<Lit("]")>>>>
TildeParts == <<Lit("~"), Lit("b"), Lit("a"), Lit("/"), Lit(":"), Lit("="), Sq(<<>>), P("x")>>
AriParts == <<Ari(<<"x", "=", "x", "+", "1">>), Dq(<<Ari(<<"x", "*", "=", "2">>)>>), P("x"),
              Par("x", <<"+">>, <<Ari(<<"x", "=", "3">>)>>), Lit("a"), Ari(<<"1", "/", "0">>)>>
ReadChars == <<"a", " ", ":", "\\">>
CaseValues == <<<<>>, <<"a">>, <<"b">>, <<"*">>, <<"a", "b">>, <<"a", "*">>, <<"/", "a">>, <<"[", "a">>,
                <<"[", "]">>, <<"[", "a", "]">>>>

Pick2(parts, i) == [k \in 1..Len(i) |-> parts[i[k]]]
RECURSIVE Flat(_)
Flat(ss) == IF ss = <<>> THEN <<>> ELSE ss[1] \o Flat(Tail(ss))
UpTo(n, m) == UNION {[1..k -> 1..m] : k \in 1..n}

(* A word of the family is: [word, sh, last] by its index. *)
WordIndex == [
    seq |-> (1..6) \X UpTo(2, 14),
    sub |-> (7..9) \X [1..2 -> 1..10] \X (1..12) \X BOOLEAN,
    glob |-> {10} \X UpTo(3, 14),
    tilde |-> {8} \X UpTo(3, 8),
    ari |-> {11, 12} \X UpTo(3, 6)]
Quoted(yes, p) == IF yes THEN <<Dq(<<p>>)>> ELSE <<p>>
WordsOf(fam, i) ==
    CASE fam = "seq" -> <<Pick2(Parts, i[2])>>
      [] fam = "sub" -> <<Quoted(i[4], Par("x", SubOps[i[3]], Pick2(SubParts, i[2]))), <<P("x"), P("y")>>>>
      [] fam = "glob" -> <<Flat(Pick2(GlobParts, i[2]))>>
      [] fam = "tilde" -> <<Pick2(TildeParts, i[2])>>
      [] fam = "ari" -> <<Pick2(AriParts, i[2])>>
(* Left out: a quote within the word of a quoted substitution that is no    *)
(* pattern, and an unquoted value straight after a quoted "$@".             *)
Ordinary(fam, i) ==
    /\ (fam = "sub" /\ i[4] /\ i[3] <= 8) => \A k \in 1..2 : i[2][k] < 9
    /\ fam = "seq" => ~\E k \in 1..(Len(i[2]) - 1) : i[2][k] \in {6, 13} /\ i[2][k + 1] \in {3, 5, 7, 9, 11}

RECURSIVE Spaced(_), Worked(_, _, _), MeantBy(_, _, _)
Spaced(ws) == IF ws = <<>> THEN <<>> ELSE <<" ">> \o Source(ws[1]) \o Spaced(Tail(ws))
Worked(args, x, fields) ==
    LET r == expandarg(x, args[1], {"FULL", "TILDE"}, Files)
    IN  IF args = <<>> THEN [fields |-> fields, vars |-> x.vars, err |-> FALSE]
        ELSE IF r.x.err THEN [fields |-> <<>>, vars |-> r.x.vars, err |-> TRUE]
        ELSE Worked(Tail(args), r.x, fields \o r.fields)
MeantBy(ws, sh, fields) ==
    LET r == FieldsOf(ws[1], sh, Files)
    IN  IF ws = <<>> THEN [fields |-> fields, vars |-> sh.vars, err |-> FALSE]
        ELSE IF r.err THEN [fields |-> <<>>, vars |-> r.sh.vars, err |-> TRUE]
        ELSE MeantBy(Tail(ws), r.sh, fields \o r.fields)
Both(got, meant) == [got |-> got, meant |-> meant]
ReadIn(text) == parsecmd(Parsing(text \o <<"NL">>, <<>>))
Answered(fam, i) ==
    LET sh == Shells[i[1]]
        ws == WordsOf(fam, i)
        p == ReadIn(<<"echo">> \o Spaced(ws))
        a == ReadIn(<<"y", "=">> \o Source(ws[1]))
        r == expandarg(sh, a.node.assign[1], {"VARTILDE"}, Files)
        t == TextOf(ws[1], sh)
    IN  IF fam = "tilde" /\ i[2][1] # 1
        THEN Both([fields |-> r.fields, vars |-> r.x.vars, err |-> r.x.err],
                  [fields |-> <<<<"y", "=">> \o t.fields[1]>>, vars |-> t.sh.vars, err |-> t.err])
        ELSE Both(Worked(Tail(p.node.args), sh, <<>>), MeantBy(ws, sh, <<>>))
CaseAnswered(i) ==
    LET word == Flat(Pick2(GlobParts, i))
        sh == Shells[10]
        pattern == makename(readtoken(Parsing(Source(word), <<>>)))
    IN  Both([v \in 1..Len(CaseValues) |-> casematch(sh, pattern, CaseValues[v]).matches],
             [v \in 1..Len(CaseValues) |-> MatchesWord(word, CaseValues[v], sh)])

(* read, with one to three names.  Left out: a line whose last character    *)
(* that is no delimiter is behind a backslash (ReadKeepsAll).               *)
Names == <<<<"x">>, <<"y">>, <<"z">>>>
Input(i) == Pick2(ReadChars, i[2]) \o <<"NL", "a", "NL">>
ReadAnswered(i) ==
    LET sh == Shells[i[1]]
        names == SubSeq(Names, 1, i[3])
        r == readcmd(sh, names, i[4], Input(i))
    IN  Both([fields |-> [k \in 1..i[3] |-> r.x.vars[names[k]]], status |-> r.status],
             ReadOf(sh, names, i[4], Input(i)))
ReadOrdinary(i) ==
    LET as == LineAtoms(Input(i), i[4]).atoms
        ifs == IfsOf(Shells[i[1]])
        solid == {k \in 1..Len(as) : ~Delimits(as[k], {ifs[j] : j \in 1..Len(ifs)})}
    IN  solid = {} \/ ~as[CHOOSE k \in solid : \A j \in solid : j <= k].q

----------------------------------------------------------------------------
(* Programs: two levels of operators over six commands, and alias tables.   *)
C(c) == Simplecmd(<<>>, <<Plainword(c)>>, <<>>)
Leaves == <<C("a"),
            Simplecmd(<<[text |-> <<"x", "=", "a">>, bq |-> <<>>]>>,
                      <<Plainword("b"), Plainword("if")>>, <<To("2", "f")>>),
            Simplecmd(<<>>, <<Plainword("b")>>, <<Doc(1)>>),
            Simplecmd(<<>>, <<Plainword("a")>>, <<To("1", "f"), Doc(2)>>),
            Subst(C("a")),
            Simplecmd(<<>>, <<>>, <<[type |-> "NTOFD", fd |-> "1", dup |-> "2"]>>)>>
One(op, t) ==
    CASE op = 1 -> [type |-> "NNOT", com |-> t]
      [] op = 2 -> Background(t)
      [] op = 3 -> Sub(t)
      [] op = 4 -> Redirect(t, To("1", "f"))
      [] op = 5 -> For("a", t)
      [] op = 6 -> Fun(t)
      [] op = 7 -> Case(t, C("b"))
      [] op = 8 -> Subst(t)
      [] op = 9 -> Case(C("b"), t)
      [] op = 10 -> Redirect(t, Doc(1))
Both2(op, l, r) ==
    CASE op = 1 -> Two("NSEMI", l, r)
      [] op = 2 -> Two("NAND", l, r)
      [] op = 3 -> Two("NOR", l, r)
      [] op = 4 -> Pipe(l, r)
      [] op = 5 -> If(l, r, NONE)
      [] op = 6 -> Two("NWHILE", l, r)
      [] op = 7 -> If(C("a"), l, r)
      [] op = 8 -> Two("NUNTIL", l, r)
Level1 == [op : 1..10, l : 1..6, r : {0}] \union [op : 1..8, l : 1..6, r : 1..6]
Level2 == [op : 1..10, l : Level1, r : {0}, sep : {";", "NL"}, swap : {FALSE}]
    \union [op : 1..8, l : Level1, r : {1, 3}, sep : {";", "NL"}, swap : BOOLEAN]
Small(k) == IF k.r = 0 THEN One(k.op, Leaves[k.l]) ELSE Both2(k.op, Leaves[k.l], Leaves[k.r])
Program(k) == IF k.r = 0 THEN One(k.op, Small(k.l))
              ELSE IF k.swap THEN Both2(k.op, Leaves[k.r], Small(k.l))
              ELSE Both2(k.op, Small(k.l), Leaves[k.r])
(* Left out: a here-document before a for on its line, whose words end in   *)
(* a newline (the newline is eaten without reading the document).           *)
TreeOrdinary(k) ==
    LET text == At(Program(k), 4, k.sep)
        eaten == \E i \in 1..Len(text) : \E j \in (i + 1)..Len(text) :
                    /\ text[i] \in {"HERE1", "HERE2"} /\ text[j] = "for" /\ k.sep = "NL"
                    /\ \A m \in i..j : text[m] # "NL"
    IN  InOrder(text) /\ ~eaten

AliasValues == <<<<>>, <<"a">>, <<"b">>, <<"c">>, <<"a", "b">>, <<"c", "b">>, <<"x", "c">>>>
RECURSIVE Blanked(_)
Blanked(ws) == IF Len(ws) <= 1 THEN ws ELSE <<ws[1], " ">> \o Blanked(Tail(ws))
AliasIndex == {i \in (1..7) \X (1..7) \X BOOLEAN \X BOOLEAN \X UNION {[1..n -> {"a", "b", "c"}] : n \in 1..3} :
                 (i[1] = 1 => ~i[3]) /\ (i[2] = 1 => ~i[4])}
AliasAnswered(i) ==
    LET Means2(n) == AliasValues[IF n = "a" THEN i[1] ELSE i[2]]
        Blank(n) == IF n = "a" THEN i[3] ELSE i[4]
        table == [n \in {"a", "b"} |-> [val |-> Blanked(Means2(n)) \o (IF Blank(n) THEN <<" ">> ELSE <<>>),
                                        inuse |-> FALSE, dead |-> FALSE]]
        p == parsecmd(Parsing(Blanked(i[5]) \o <<"NL">>, table))
        words == Unaliased(i[5], TRUE, {}, [n \in {"a", "b"} |-> [words |-> Means2(n), blank |-> Blank(n)]]).words
        tree == IF words = <<>> THEN NONE
                ELSE Simplecmd(<<>>, [k \in 1..Len(words) |-> Plainword(words[k])], <<>>)
    IN  Both([err |-> p.err, same |-> p.node = tree, table |-> pgetc(p).aliases],
             [err |-> FALSE, same |-> TRUE, table |-> table])

----------------------------------------------------------------------------
(* Expressions, and the arguments of test, set, getopts and the shell.      *)
Tier == {<<"*">>, <<"+">>, <<"<", "<">>, <<"<">>, <<"=", "=">>, <<"&">>, <<"^">>, <<"|">>, AndAnd, OrOr}
Op(op, l, r) == IF op \in {AndAnd, OrOr} THEN Logic(op, l, r) ELSE Bin(op, l, r)
Operands == {Num(0), Num(2), Var("x"), Var("y"), Ass("x", <<"=">>, Num(5)), Ass("y", <<"+", "=">>, Var("x")),
             Un(<<"-">>, Var("x")), Un(<<"!">>, Num(1)), Un(<<"~">>, Num(1)), Bin(<<"/">>, Num(1), Var("y"))}
Expressions ==
    {Bin(o, Bin(q, Num(7), Num(3)), Num(2)) : o \in BinOps, q \in BinOps}
      \union {Bin(o, Num(7), Bin(q, Num(3), Num(2))) : o \in BinOps, q \in BinOps}
      \union {Op(a, Op(b, Num(5), Num(0)), Op(c, Num(2), Num(6))) : a \in Tier, b \in Tier, c \in Tier}
      \union {Op(a, Num(5), Op(b, Num(0), Op(c, Num(2), Num(6)))) : a \in Tier, b \in Tier, c \in Tier}
      \union {Op(a, Op(b, Op(c, Num(5), Num(0)), Num(2)), Num(6)) : a \in Tier, b \in Tier, c \in Tier}
      \union {Cond(a, b, c) : a \in Operands, b \in Operands, c \in Operands}
      \union {Logic(o, Ass("y", <<"=">>, a), b) : o \in {AndAnd, OrOr}, a \in Operands, b \in Operands}
      \union {Logic(o, a, Logic(q, b, c)) : o \in {AndAnd, OrOr}, q \in {AndAnd, OrOr},
                                            a \in {Num(0), Num(1)}, b \in Operands, c \in Operands}
      \union {Logic(o, a, Cond(b, Logic(q, Var("x"), b), c)) : o \in {AndAnd, OrOr}, q \in {AndAnd, OrOr},
                                            a \in {Num(0), Num(1)}, b \in Operands, c \in Operands}
      \union {Ass("x", o, Cond(a, b, Num(1))) : o \in AssignOps, a \in Operands, b \in {Num(2), Var("y")}}
      \union {Un(o, Bin(q, a, b)) : o \in {<<"-">>, <<"!">>, <<"~">>, <<"+">>}, q \in {<<"*">>, <<"-">>},
                                    a \in Operands, b \in Operands}

(* Arguments of test, and what its parameters and those of printf answer.   *)
DigitValue(c) == CHOOSE n \in 0..9 : ToString(n) = c
MCByte(n) == CASE n = 65 -> "A" [] n = 97 -> "a" [] n = 49 -> "1" [] OTHER -> "byte"
MCCode(c) == CASE c = "A" -> 65 [] c = "a" -> 97 [] OTHER -> IF c \in Digits THEN 48 + DigitValue(c) ELSE 0
MCStrto(s, sign) ==
    LET most == IF sign THEN 127 ELSE 255
        ends == {n \in 0..Len(s) : n = Len(s) \/ s[n + 1] \notin Digits}
        n == CHOOSE k \in ends : \A j \in ends : k <= j
        v == IF n = 0 THEN 0 ELSE IF n = 1 THEN DigitValue(s[1]) ELSE most
    IN  [val |-> v, rest |-> SubSeq(s, n + 1, Len(s)), range |-> n > 1]
MCLess(x, y) ==
    LET order == <<"", "!", "(", "-a", "-n", "1", "2", "=", "a">>
        At2(s) == CHOOSE k \in 1..Len(order) : order[k] = s
    IN  At2(x) < At2(y)
B == INSTANCE BuiltinMeaning WITH
        Byte <- MCByte, Code <- MCCode, Strto <- MCStrto,
        NULL <- "NULL", Beyond <- "beyond",
        Numeric <- LAMBDA s : s \in {"1", "2"},
        Integer <- LAMBDA s : IF s = "1" THEN 1 ELSE 2,
        Length0 <- LAMBDA s : s = "",
        StrLess <- MCLess,
        IsFile <- LAMBDA op, f : f = "a" /\ op = "-e",
        Compare <- LAMBDA op, f, g : op = "-nt" /\ f = "a" /\ g = "1"
TestWords == {"", "a", "1", "!", "(", "-n", "=", "-a"}
Primaries(W) ==
    {B!Word(s) : s \in W} \union {B!Unary(op, s) : op \in {"-n", "-z", "-e"}, s \in W}
      \union {B!Binary(s, op, t) : op \in {"=", "!=", "<", "-nt"}, s \in W, t \in W}
      \union {B!Binary(s, op, t) : op \in B!Ints2, s \in {"1", "2"}, t \in {"1", "2"}}
Tests0 == Primaries({"a", ""})
Around(es, fs) == {B!Not(e) : e \in es} \union UNION {{B!And(e, f), B!And(f, e), B!Or(e, f), B!Or(f, e)} : e \in es, f \in fs}
Tests1 == Around(Tests0, {B!Word("a"), B!Word("")})
Tests2 == Around(Tests1, {B!Unary("-z", "a"), B!Word("")})
(* Left out: the double negation of a primary of two words, and four words  *)
(* that begin with a negation of the first, which test reads as !(...).     *)
Tests == {e \in Primaries(TestWords) \union Tests0 \union Tests1 \union Tests2 :
            (Len(B!Args(e)) = 4 /\ B!Args(e)[1] = "!") => (e.k = "not" /\ e.in[1].k # "not")}

Long == [name \in {<<"e", "r">>, <<"V", "V">>, <<"M", "M">>} |->
           IF name = <<"e", "r">> THEN "e" ELSE IF name = <<"V", "V">> THEN "V" ELSE "m"]
O == INSTANCE OptsMeaning WITH
        LongNames <- Long, NoWord <- <<"no", "word">>, IsTerminal <- TRUE,
        Number <- LAMBDA v : IF v = <<>> THEN 0 ELSE CHOOSE n \in 0..9 : v = <<ToString(n)>>,
        Text <- LAMBDA n : <<ToString(n)>>
Begun == [optlist |-> [f \in O!Flags |-> 0], args |-> <<>>, minusc |-> FALSE, arg0 |-> <<>>, login |-> FALSE,
          command |-> <<>>, file |-> <<>>, params |-> [p |-> <<<<"z">>>>, optind |-> 1, optoff |-> -1],
          vars |-> [n \in {"OPTIND"} |-> <<"1">>], readonly |-> {}, optptr |-> <<>>, optionarg |-> <<>>,
          err |-> FALSE]
OptWords == {<<>>, <<"-">>, <<"-", "-">>, <<"a">>, <<"-", "a">>, <<"-", "b">>, <<"-", "a", "b">>,
             <<"-", "b", "a">>, <<"-", "a", "x">>, <<"-", "x", "a">>, <<"-", "-", "a">>}
OptStrings == {<<"a">>, <<"a", "b", ":">>, <<":", "a", "b", ":">>, <<"b", ":", "a">>, <<"a", ":", "b", ":">>, <<>>}
Setting == [flag : {"V", "E", "x", "m"}, val : {0, 1}, long : {FALSE}]
    \union [flag : {"e", "V", "m"}, val : {0, 1}, long : {TRUE}]
(* Left out: -o vi after -E, with which the code leaves both editors on     *)
(* (options.c:264), the manual only one (dash.1:245).                       *)
Settings == {<<>>} \union {<<s>> : s \in Setting \union [flag : {"i"}, val : {0, 1}, long : {FALSE}]}
    \union {s \in Setting \X Setting : s[1].flag = "E" /\ s[1].val = 1 => ~(s[2].flag = "V" /\ s[2].val = 1 /\ s[2].long)}
Operands2 == {<<>>, <<<<"q">>>>, <<<<"q">>, <<"-", "x">>>>, <<<<"q">>, <<"r">>, <<"s">>>>}
Endings == {<<>>, <<<<"-">>>>, <<<<"-", "-">>>>}

----------------------------------------------------------------------------
(* Redirections: commands in braces, subshells and exec with up to two each.*)
D == INSTANCE RedirMeaning WITH NONE <- "none", Low <- 4, High <- 14, Regular <- {"f", "g"}
Rd(op, fd, arg) == [op |-> op, fd |-> fd, arg |-> arg]
RedirAtoms == {Rd("NTO", 1, "f"), Rd("NTO", 3, "g"), Rd("NFROM", 0, "no"), Rd("NHERE", 0, "doc"),
               Rd("NTOFD", 2, 1), Rd("NTOFD", 1, 3), Rd("NTOFD", 1, -1), Rd("NTOFD", 3, -1)}
RedirLists == {<<>>} \union {<<r>> : r \in RedirAtoms} \union (RedirAtoms \X RedirAtoms)
Doing(k, rs, in) == [k |-> k, redirs |-> rs, in |-> in]
Simple1 == Doing("simple", <<>>, <<>>)
Opening(closed, Cflag) ==
    [fds |-> [fd \in 0..13 |-> IF fd < 3 /\ fd \notin closed THEN <<"in", "out", "err">>[fd + 1] ELSE "none"],
     redirs |-> <<>>, closed |-> {}, files |-> {"g"}, Cflag |-> Cflag, err |-> FALSE, seen |-> <<>>]
Openings == <<Opening({}, FALSE), Opening({0}, TRUE), Opening({1}, FALSE)>>
Redirecting(i) ==
    LET k == i[2]
        first == i[3]
        second == i[4]
    IN  CASE k = 1 -> <<Doing("group", first, <<Doing("simple", second, <<>>), Simple1>>), Simple1>>
          [] k = 2 -> <<Doing("group", first, <<Doing("exec", second, <<>>), Simple1>>), Simple1>>
          [] k = 3 -> <<Doing("exec", first, <<>>), Doing("group", second, <<Simple1>>), Simple1>>
          [] k = 4 -> <<Doing("sub", first, <<Simple1, Doing("group", second, <<Simple1>>), Simple1>>), Simple1>>
          [] k = 5 -> <<Doing("group", first, <<Doing("group", second, <<Doing("exec", first, <<>>), Simple1>>),
                                                Simple1>>), Simple1>>
          [] k = 6 -> <<Doing("group", first, <<Doing("sub", second, <<Doing("group", second, <<Simple1>>),
                                                                       Simple1>>), Simple1>>), Simple1>>

----------------------------------------------------------------------------
(* Formats of printf with up to two pieces, and the words of echo.          *)
Esc2(src, ch) == [src |-> src, ch |-> ch, stop |-> FALSE]
Escapes == {Esc2(<<"a">>, <<"a">>), Esc2(<<"1">>, <<"1">>), Esc2(<<"\\", "n">>, <<"NL">>), Esc2(<<"\\", "\\">>, <<"\\">>),
            Esc2(<<"\\", "0", "1", "0", "1">>, <<"A">>), Esc2(<<"\\", "1", "0", "1">>, <<"A">>),
            Esc2(<<"\\", "q">>, <<"\\", "q">>), [src |-> <<"\\", "c">>, ch |-> <<>>, stop |-> TRUE]}
Argument(atoms, val, ok) == [src |-> B!TextOf(atoms), atoms |-> atoms, val |-> val, ok |-> ok]
Letter(c) == Esc2(<<c>>, <<c>>)
Arguments ==
    {Argument(<<>>, 0, TRUE), Argument(<<Letter("1")>>, 1, TRUE), Argument(<<Letter("1"), Letter("a")>>, 1, FALSE),
     Argument(<<Letter("'"), Letter("a")>>, 97, TRUE),
     Argument(<<Letter("a"), [src |-> <<"\\", "c">>, ch |-> <<>>, stop |-> TRUE], Letter("a")>>, 0, FALSE)}
ArgumentLists == {<<>>} \union UNION {[1..n -> Arguments] : n \in 1..3}
Char(src, ch) == [k |-> "char", src |-> src, ch |-> ch]
Dir(flags, width, prec, conv) == [k |-> "dir", flags |-> flags, width |-> width, prec |-> prec, conv |-> conv]
FormatPieces ==
    {Char(<<"a">>, <<"a">>), Char(<<"%", "%">>, <<"%">>), Char(<<"\\", "n">>, <<"NL">>), Char(<<"\\", "1", "0", "1">>, <<"A">>),
     Dir(<<"-">>, <<"3">>, <<".", "*">>, "s"), Dir(<<>>, <<"*">>, <<>>, "d"), Dir(<<>>, <<"*">>, <<".", "*">>, "x"),
     Dir(<<"0">>, <<>>, <<".">>, "d"), Dir(<<>>, <<>>, <<>>, "b"), Dir(<<>>, <<>>, <<>>, "c"), Dir(<<>>, <<>>, <<>>, "s")}

----------------------------------------------------------------------------
(* The variables of dash-cpp: the value of a text of pieces, and sequences  *)
(* of operations beside the environment.                                    *)
CmdOutput(cmd) == <<"o">> \o cmd \o <<"NL">>
V == INSTANCE Variables WITH Output <- CmdOutput
Said(src, text) == [src |-> src, text |-> text]
VarPieces == <<Said(<<"a">>, <<"a">>), Said(<<"1">>, <<"1">>), Said(<<"$", "x">>, <<"v", "w">>),
               Said(<<"$", "{", "x", "}">>, <<"v", "w">>), Said(<<"$", "?">>, <<"0">>), Said(<<"$", "y">>, <<>>),
               Said(<<"$", "(", "a", "(", "b", ")", ")">>, <<"o", "a", "(", "b", ")">>),
               Said(<<"BQT", "a", "BQT">>, <<"o", "a">>), Said(<<"$", ".">>, <<"$", ".">>)>>
VarEnds == <<Said(<<>>, <<>>), Said(<<"$">>, <<"$">>), Said(<<"$", "{", "x">>, <<"$", "{", "x">>),
             Said(<<"$", "(", "a">>, <<"$", "(", "a">>), Said(<<"BQT", "a">>, <<"BQT", "a">>)>>
Started == V!initialize([table |-> [n \in {} |-> 0], env |-> [n \in {X, <<"PS1">>, <<"HOME">>} |-> <<"v", "w">>]],
                        <<X, <<"PS1">>, <<"HOME">>>>)
VarIndex == {i \in UpTo(3, 9) \X (1..5) : \A k \in 1..(Len(i[1]) - 1) : i[1][k] \in {3, 6} => i[1][k + 1] \notin {1, 2}}
VarAnswered(i) ==
    LET said == Pick2(VarPieces, i[1]) \o <<VarEnds[i[2]]>>
    IN  Both(V!expand(Started, Flat([k \in 1..Len(said) |-> said[k].src]), 1, <<>>),
             Flat([k \in 1..Len(said) |-> said[k].text]))
VarNames == {X, <<"?">>, <<"PATH">>}
VarOps == [op : {"set", "export"}, name : VarNames, value : {<<"1">>, <<>>}]
    \union [op : {"unset", "exportVar", "readonly"}, name : VarNames, value : {<<>>}]
    \union [op : {"initialize"}, name : {X}, value : {<<>>}]
Operated(x, o) ==
    CASE o.op = "set" -> V!set(x, o.name, o.value, {}).x
      [] o.op = "export" -> V!set(x, o.name, o.value, {"EXPORT"}).x
      [] o.op = "unset" -> V!unset(x, o.name).x
      [] o.op = "exportVar" -> V!exportVar(x, o.name).x
      [] o.op = "readonly" -> V!setReadOnly(x, o.name).x
      [] o.op = "initialize" -> V!initialize(x, <<<<"PS1">>>>)
Exporting(x) == x.env = V!getExportVars(x)
Kept(x, y) == \A n \in DOMAIN x.table : V!Flagged(x, n, "READONLY") => V!get(x, n) = V!get(y, n)
OpsAgree(i) ==
    LET a == Operated(Started, i[1])
        b == Operated(a, i[2])
    IN  \A o \in VarOps : LET c == Operated(b, o) IN Exporting(b) /\ Exporting(c) /\ Kept(a, c) /\ Kept(b, c)

----------------------------------------------------------------------------
Keys(fam) ==
    CASE fam \in DOMAIN WordIndex -> {i \in WordIndex[fam] : Ordinary(fam, i)}
      [] fam = "case" -> UpTo(3, 14)
      [] fam = "read" -> {i \in {1, 3, 6, 12} \X UpTo(5, 4) \X (1..3) \X BOOLEAN : ReadOrdinary(i)}
      [] fam = "tree" -> {k \in Level2 : TreeOrdinary(k)}
      [] fam = "alias" -> AliasIndex
      [] fam = "arith" -> Expressions
      [] fam = "test" -> Tests
      [] fam = "getopts" -> {<<>>} \union {<<w>> : w \in OptWords} \union (OptWords \X OptWords)
                              \union (OptWords \X OptWords \X OptWords)
      [] fam = "set" -> Settings
      [] fam = "printf" -> {<<p>> : p \in FormatPieces} \union (FormatPieces \X FormatPieces)
      [] fam = "echo" -> {<<>>} \union {<<e>> : e \in Escapes} \union (Escapes \X Escapes)
      [] fam = "value" -> VarIndex
      [] fam = "vars" -> VarOps \X VarOps
      [] fam = "redir" -> (1..3) \X (1..5) \X RedirLists \X RedirLists
      [] fam = "subredir" -> {1} \X {6} \X RedirLists \X RedirLists
WordFamilies == DOMAIN WordIndex \union {"case", "read", "value"}
CONSTANTS Families,
          BothSides(_, _) \* MCBothSides: what the code answers to a member of a family, and what it means

MCBothSides(fam, i) ==
    LET sides ==
        CASE fam \in DOMAIN WordIndex -> Answered(fam, i)
          [] fam = "case" -> CaseAnswered(i)
          [] fam = "read" -> ReadAnswered(i)
          [] fam = "tree" -> Both(ReadsBack(Program(i), i.sep), TRUE)
          [] fam = "alias" -> AliasAnswered(i)
          [] fam = "arith" -> Both(ArithAgrees(i, [n \in {X} |-> 3]), TRUE)
          [] fam = "test" -> Both(B!TestAgrees(i), TRUE)
          [] fam = "getopts" -> Both(\A s \in OptStrings : /\ O!GetoptsAgrees(Begun, s, "opt", i)
                                                           /\ O!NextoptAgrees(Begun, s, i), TRUE)
          [] fam = "set" -> Both(\A e \in Endings, p \in Operands2 :
                                   /\ O!SetAgrees(Begun, i, e, p)
                                   /\ \A s \in {"none", "c", "s"} : O!CommandAgrees(Begun, i, s, e, p), TRUE)
          [] fam = "printf" -> Both(\A args \in ArgumentLists : B!PrintfAgrees(i, args), TRUE)
          [] fam = "echo" -> Both(\A e \in Escapes, n \in BOOLEAN : /\ B!EchoAgrees(<<i, <<e>>>>, n)
                                                                  /\ B!EchoAgrees(<<i>>, n), TRUE)
          [] fam = "value" -> VarAnswered(i)
          [] fam = "vars" -> Both(OpsAgree(i), TRUE)
          [] fam \in {"redir", "subredir"} -> Both(D!Agrees(Openings[i[1]], Redirecting(i)), TRUE)
    IN  sides

Init == \E fam \in Families : \E i \in Keys(fam) : given = [fam |-> fam, i |-> i] /\ answer = <<>>
Work == answer = <<>> /\ answer' = <<BothSides(given.fam, given.i)>> /\ UNCHANGED given
Next == Work

Agree(fams) == given.fam \in fams /\ answer # <<>> => answer[1].got = answer[1].meant
(* A word is expanded to the fields its structure means, by the parser and  *)
(* the expansion together: quotes, parameters, assignments inside them,     *)
(* commands, arithmetic, splitting, file names, tildes, patterns and read   *)
(* (parser.c, expand.c, miscbltin.c); so is the name of a file in dash-cpp  *)
(* (variable_manager.cpp).                                                  *)
WordsMean == Agree(WordFamilies)
(* A program that is written down is read back as the same tree, with its   *)
(* here-documents, and aliases are replaced as their table says, after      *)
(* which none of them is left in use (parser.c, input.c, alias.c).          *)
ProgramsReadBack == Agree({"tree", "alias"})
(* An arithmetic expression has the value and the effects of the same       *)
(* expression in C, in the shell's width (arith_yacc.c, arith_yylex.c).     *)
ArithMeans == Agree({"arith"})
(* test answers what its arguments say within them; getopts and nextopt     *)
(* give the options of a line one by one; set and the command line set the  *)
(* options and the parameters they spell; printf and echo print what their  *)
(* format and escapes say, with every argument in its place (test.c,        *)
(* options.c, printf.c).  The environment of dash-cpp holds the exported    *)
(* variables, and a read-only one keeps its value (variable_manager.cpp).   *)
BuiltinsMean == Agree({"test", "getopts", "set", "printf", "echo", "vars"})
(* A command sees the descriptors its redirections ask for, and afterwards  *)
(* the shell has its own back, however such commands are nested, and        *)
(* whichever of them fails (redir.c).                                       *)
RedirsMean == Agree({"redir", "subredir"})

============================================================================
