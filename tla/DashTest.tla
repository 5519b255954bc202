----------------------------- MODULE DashTest -----------------------------
(* The test builtin, src/dash-debian/src/bltin/test.c.  argv is the array   *)
(* of the arguments with the null pointer (NULL) that ends it; what lies    *)
(* behind the array (Beyond) is none of the program's business.  The state  *)
(* t of the parser is [wp, res, err, over]: the position t_wp, the value of *)
(* what was parsed, whether syntax raised an error, and whether Beyond was  *)
(* read.                                                                    *)
EXTENDS Integers, Sequences

CONSTANTS NULL,
          Numeric(_), Integer(_),              \* is it a number, and which one
          Length0(_), StrLess(_, _),           \* strlen = 0, strcmp < 0
          IsFile(_, _), Compare(_, _, _),      \* stat: a file test, two files
          Beyond

FileTest == {"-r", "-w", "-x", "-e", "-f", "-d", "-c", "-b", "-p", "-u", "-g", "-k", "-s",
             "-h", "-O", "-G", "-L", "-S"}
UNOP == FileTest \union {"-t", "-z", "-n"}
Files2 == {"-nt", "-ot", "-ef"}
Ints2 == {"-eq", "-ne", "-ge", "-gt", "-le", "-lt"}
BINOP == {"=", "!=", "<", ">"} \union Ints2 \union Files2
Others == {"!", "-a", "-o", "(", ")"}
getop(s) == s \in UNOP \union BINOP \union Others

Arg(argv, i) == IF i <= Len(argv) THEN argv[i] ELSE Beyond
Null(argv, i) == Arg(argv, i) = NULL
(* The mutant: the last argument may be an operator. *)
isoperand_within(argv, i) == ~Null(argv, i + 2) /\ Arg(argv, i + 1) \in BINOP
isoperand(argv, i) ==
    \/ Null(argv, i + 1)
    \/ ~Null(argv, i + 2) /\ Arg(argv, i + 1) \in BINOP
(* t_lex(tp): the token at position i, EOI, OPERAND or the operator.        *)
t_lex(argv, i) ==
    LET s == Arg(argv, i)
    IN  IF s = NULL THEN "EOI"
        ELSE IF /\ getop(s)
                /\ ~(s \in UNOP /\ isoperand(argv, i))
                /\ ~(s = "(" /\ Null(argv, i + 1))
             THEN s ELSE "OPERAND"
At(argv, t, i) == [t EXCEPT !.wp = i, !.over = @ \/ i > Len(argv)]
Value(t, b) == [t EXCEPT !.res = b]
syntax(t) == [t EXCEPT !.err = TRUE, !.res = FALSE]
Looked(argv, t, i) == [t EXCEPT !.over = @ \/ i > Len(argv)]

----------------------------------------------------------------------------
Relation(op, x, y) ==
    CASE op = "-eq" -> x = y [] op = "-ne" -> x # y [] op = "-ge" -> x >= y
      [] op = "-gt" -> x > y [] op = "-le" -> x <= y [] op = "-lt" -> x < y
(* binop: the operands are at wp and wp + 2. *)
binop(argv, t) ==
    LET op == argv[t.wp + 1]
        x == argv[t.wp]
        y == argv[t.wp + 2]
        u == At(argv, t, t.wp + 2)
    IN  IF Null(argv, t.wp + 2) THEN syntax(t)
        ELSE CASE op = "=" -> Value(u, x = y)
               [] op = "!=" -> Value(u, x # y)
               [] op = "<" -> Value(u, StrLess(x, y))
               [] op = ">" -> Value(u, StrLess(y, x))
               [] op \in Files2 -> Value(u, Compare(op, x, y))
               [] op \in Ints2 -> IF ~(Numeric(x) /\ Numeric(y)) THEN syntax(u)
                                  ELSE Value(u, Relation(op, Integer(x), Integer(y)))
unop(argv, t, n) ==
    LET u == At(argv, t, t.wp + 1)
        x == argv[t.wp + 1]
    IN  IF Null(argv, t.wp + 1) THEN syntax(u)
        ELSE CASE n = "-z" -> Value(u, Length0(x))
               [] n = "-n" -> Value(u, ~Length0(x))
               [] n = "-t" -> IF Numeric(x) THEN Value(u, IsFile(n, x)) ELSE syntax(u)
               [] OTHER -> Value(u, IsFile(n, x))

(* The recursive descent.  n is the token at t.wp. *)
RECURSIVE oexpr(_, _, _, _), aexpr(_, _, _, _)
primary(argv, t, n) ==
    LET nn == t_lex(argv, t.wp + 1)
        inner == oexpr(argv, At(argv, t, t.wp + 1), nn, FALSE)
        after == At(argv, inner, inner.wp + 1)
    IN  CASE n = "EOI" -> Value(t, FALSE)
          [] n = "(" ->
               IF nn = ")" THEN Value(At(argv, t, t.wp + 1), FALSE)
               ELSE IF inner.err THEN inner
               ELSE IF t_lex(argv, inner.wp + 1) = ")" THEN after ELSE syntax(after)
          [] n \in UNOP -> unop(argv, t, n)
          [] OTHER -> IF nn \in BINOP THEN binop(argv, t)
                      ELSE Looked(argv, Value(t, ~Length0(argv[t.wp])), t.wp + 1)
RECURSIVE nexpr(_, _, _)
nexpr(argv, t, n) ==
    LET nn == t_lex(argv, t.wp + 1)
        u == nexpr(argv, IF nn = "EOI" THEN t ELSE At(argv, t, t.wp + 1), nn)
    IN  IF n # "!" THEN primary(argv, t, n) ELSE IF u.err THEN u ELSE Value(u, ~u.res)
aexpr(argv, t, n, res) ==
    LET u == nexpr(argv, t, n)
        nn == t_lex(argv, u.wp + 1)
        v == Value(Looked(argv, u, u.wp + 1), res /\ u.res)
    IN  IF u.err THEN u
        ELSE IF nn # "-a" THEN v
        ELSE aexpr(argv, At(argv, v, u.wp + 2), t_lex(argv, u.wp + 2), v.res)
oexpr(argv, t, n, res) ==
    LET u == aexpr(argv, t, n, TRUE)
        nn == t_lex(argv, u.wp + 1)
        v == Value(Looked(argv, u, u.wp + 1), res \/ u.res)
    IN  IF u.err THEN u
        ELSE IF nn # "-o" THEN v
        ELSE oexpr(argv, At(argv, v, u.wp + 2), t_lex(argv, u.wp + 2), v.res)

(* testcmd: the special cases of three and four arguments, then the grammar. *)
Start == [wp |-> 1, res |-> FALSE, err |-> FALSE, over |-> FALSE]
Evaluated(argv, n) ==
    LET t == oexpr(argv, Start, n, FALSE)
    IN  IF ~t.err /\ ~Null(argv, t.wp) /\ ~Null(argv, t.wp + 1) THEN syntax(t) ELSE t
RECURSIVE recheck(_, _, _)
recheck(argv, argc, negated) ==
    LET binary == argc = 3 /\ argv[2] \in BINOP
        few == argc \in {3, 4} /\ ~binary
        inner == [Tail(argv) EXCEPT ![argc - 1] = NULL]      \* the ) is gone
        Res(t) == Value(t, ~t.err /\ t.res # negated)
    IN  IF argc = 0 THEN Res(Start)
        ELSE CASE binary -> Res(Evaluated(argv, "OPERAND"))
               [] few /\ argv[1] = "(" /\ argv[argc] = ")" ->
                    Res(Evaluated(inner, t_lex(inner, 1)))
               [] few /\ argv[1] = "!" -> recheck(Tail(argv), argc - 1, TRUE)
               [] OTHER -> Res(Evaluated(argv, t_lex(argv, 1)))
(* The status (0 true, 1 false, 2 an error) of the arguments args; over:    *)
(* memory behind the array was read.                                        *)
testcmd(args) ==
    LET t == recheck(Append(args, NULL), Len(args), FALSE)
    IN  [status |-> IF t.err THEN 2 ELSE IF t.res THEN 0 ELSE 1, over |-> t.over]
============================================================================
