----------------------------- MODULE DashArith -----------------------------
(* Arithmetic expansion: src/dash-debian/src/arith_yylex.c and arith_yacc.c. *)
(*                                                                           *)
(* The text of an expression becomes a sequence of tokens [t, v], t the      *)
(* characters of an operator or <<"NUM">>, <<"VAR">>, <<"EOF">>, <<"BAD">>,  *)
(* v the value of a number or the name of a variable.  The recursive descent *)
(* works on a state a: the tokens not consumed yet (the first is what the    *)
(* code calls last_token or token), the variables (name -> characters), the  *)
(* names that are read-only, the value of what was parsed last, and err once *)
(* yyerror, setvar or atomax has raised an error.  noeval is the argument of *)
(* that name: what is parsed is not evaluated.                               *)
EXTENDS DashChars, Integers, Bitwise

CONSTANT Width      \* bits of intmax_t

digit_val == [d \in Digits |->
    CASE d = "0" -> 0 [] d = "1" -> 1 [] d = "2" -> 2 [] d = "3" -> 3 [] d = "4" -> 4
      [] d = "5" -> 5 [] d = "6" -> 6 [] d = "7" -> 7 [] d = "8" -> 8 [] d = "9" -> 9]

(* A value in the Width bits of intmax_t, two's complement.                  *)
Unsigned(v) == v % 2^Width
Wrap(v) == LET u == Unsigned(v) IN IF u < 2^(Width - 1) THEN u ELSE u - 2^Width
Truth(b) == IF b THEN 1 ELSE 0

(* The longest prefix of text whose characters satisfy In, and a number in   *)
(* a base.                                                                   *)
RECURSIVE Span(_, _), Number(_, _, _)
Span(text, chars) ==
    IF text # <<>> /\ text[1] \in chars THEN 1 + Span(Tail(text), chars) ELSE 0
Number(text, base, v) ==
    IF text = <<>> THEN v ELSE Number(Tail(text), base, v * base + digit_val[text[1]])
strtoimax(text) ==        (* [v, n]: the value and the characters of a number *)
    LET base == IF text[1] = "0" THEN 8 ELSE 10
        n == Span(text, IF base = 8 THEN Digits \ {"8", "9"} ELSE Digits)
        v == Number(SubSeq(text, 1, n), base, 0)
    IN  [v |-> IF v < 2^(Width - 1) THEN v ELSE 2^(Width - 1) - 1, n |-> n]

Text == [d \in 0..9 |-> CHOOSE c \in Digits : digit_val[c] = d]
RECURSIVE Decimal(_)
Decimal(v) == IF v < 0 THEN <<"-">> \o Decimal(-v)
              ELSE IF v < 10 THEN <<Text[v]>>
              ELSE Append(Decimal(v \div 10), Text[v % 10])

----------------------------------------------------------------------------
(* yylex.                                                                    *)
BinPrec == {<<<<"*">>, 0>>, <<<<"/">>, 0>>, <<<<"%">>, 0>>, <<<<"+">>, 1>>, <<<<"-">>, 1>>,
            <<<<"<", "<">>, 2>>, <<<<">", ">">>, 2>>, <<<<"<">>, 3>>, <<<<"<", "=">>, 3>>,
            <<<<">">>, 3>>, <<<<">", "=">>, 3>>, <<<<"=", "=">>, 4>>, <<<<"!", "=">>, 4>>,
            <<<<"&">>, 5>>, <<<<"^">>, 6>>, <<<<"|">>, 7>>}
BinOps == {x[1] : x \in BinPrec}
arith_prec(op) == (CHOOSE x \in BinPrec : x[1] = op)[2]
ARITH_MAX_PREC == 8
AssignOps == {op \o <<"=">> : op \in
                {<<"*">>, <<"/">>, <<"%">>, <<"+">>, <<"-">>, <<"&">>, <<"^">>, <<"|">>,
                 <<"<", "<">>, <<">", ">">>}}
Operators == BinOps \union AssignOps \union
             {<<"=">>, <<"|", "|">>, <<"&", "&">>, <<"!">>, <<"~">>, <<"?">>, <<":">>,
              <<"(">>, <<")">>}
Starts(text) == {op \in Operators : Len(op) <= Len(text) /\ SubSeq(text, 1, Len(op)) = op}

RECURSIVE yylex(_)
yylex(text) ==                                      (* the tokens of a text  *)
    LET n == Span(text, Letters \union Digits \union {"_"})
        num == strtoimax(text)
        op == CHOOSE o \in Starts(text) : \A x \in Starts(text) : Len(x) <= Len(o)
        From(k) == SubSeq(text, k + 1, Len(text))
    IN  IF text = <<>> THEN <<[t |-> <<"EOF">>, v |-> 0]>>
        ELSE IF text[1] \in {" ", "TAB", "NL"} THEN yylex(Tail(text))
        ELSE IF text[1] \in Digits
             THEN <<[t |-> <<"NUM">>, v |-> num.v]>> \o yylex(From(num.n))
        ELSE IF is_name(text[1])
             THEN <<[t |-> <<"VAR">>, v |-> SubSeq(text, 1, n)]>> \o yylex(From(n))
        ELSE IF Starts(text) # {} THEN <<[t |-> op, v |-> 0]>> \o yylex(From(Len(op)))
        ELSE <<[t |-> <<"BAD">>, v |-> 0]>>

----------------------------------------------------------------------------
Last(a) == a.toks[1].t
Drop(a) == [a EXCEPT !.toks = Tail(@)]
Value(a, v) == [a EXCEPT !.val = v]
yyerror(a) == [a EXCEPT !.err = TRUE, !.toks = <<[t |-> <<"EOF">>, v |-> 0]>>, !.val = 0]

(* lookupvarint and setvarint (var.c), with atomax(value, 0).                *)
Digitized(s) == s # <<>> /\ s[1] \in Digits /\ strtoimax(s).n = Len(s)
Signed(s) == IF s # <<>> /\ s[1] = "-" THEN Tail(s) ELSE s
lookupvarint(a, name) ==
    LET s == IF name \in DOMAIN a.vars THEN a.vars[name] ELSE <<>>
        v == strtoimax(Signed(s)).v
    IN  IF s = <<>> THEN Value(a, 0)
        ELSE IF Digitized(Signed(s)) THEN Value(a, IF s[1] = "-" THEN -v ELSE v)
        ELSE yyerror(a)
setvarint(a, name, v) ==
    IF name \in a.readonly THEN yyerror(a)
    ELSE [a EXCEPT !.val = v,
                   !.vars = [n \in DOMAIN @ \union {name} |->
                               IF n = name THEN Decimal(v) ELSE @[n]]]

(* Division rounds towards zero, and the remainder has the dividend's sign.  *)
Abs(v) == IF v < 0 THEN -v ELSE v
Quotient(x, y) == LET q == Abs(x) \div Abs(y) IN IF (x < 0) # (y < 0) THEN -q ELSE q

(* do_binop.  A shift by a count outside 0..Width-1 is undefined in C: the   *)
(* machine takes the count modulo Width.  So is the quotient of the least    *)
(* value and -1: the machine traps, and the shell dies of it.                *)
Binop(op, x, y) ==
    LET n == y % Width IN
    CASE op = <<"*">> -> Wrap(x * y)
      [] op = <<"/">> -> Wrap(Quotient(x, y))
      [] op = <<"%">> -> x - y * Quotient(x, y)
      [] op = <<"+">> -> Wrap(x + y)
      [] op = <<"-">> -> Wrap(x - y)
      [] op = <<"<", "<">> -> Wrap(x * 2^n)
      [] op = <<">", ">">> -> x \div 2^n
      [] op = <<"<">> -> Truth(x < y)
      [] op = <<"<", "=">> -> Truth(x <= y)
      [] op = <<">">> -> Truth(x > y)
      [] op = <<">", "=">> -> Truth(x >= y)
      [] op = <<"=", "=">> -> Truth(x = y)
      [] op = <<"!", "=">> -> Truth(x # y)
      [] op = <<"&">> -> Wrap(Unsigned(x) & Unsigned(y))
      [] op = <<"^">> -> Wrap(Unsigned(x) ^^ Unsigned(y))
      [] op = <<"|">> -> Wrap(Unsigned(x) | Unsigned(y))
do_binop(a, op, x, y) ==
    IF a.err \/ (op \in {<<"/">>, <<"%">>} /\ (y = 0 \/ (y = -1 /\ x = -2^(Width - 1))))
    THEN yyerror(a)
    ELSE Value(a, Binop(op, x, y))

RECURSIVE assignment(_, _), primary(_, _), binop2(_, _, _, _), and(_, _), or(_, _), cond(_, _)
primary(a, noeval) ==
    LET t == Last(a)
        inner == assignment(Drop(a), noeval)
        rest == primary(Drop(a), noeval)
    IN  CASE t = <<"(">> -> IF Last(inner) = <<")">> THEN Drop(inner) ELSE yyerror(inner)
          [] t = <<"NUM">> -> Value(Drop(a), a.toks[1].v)
          [] t = <<"VAR">> -> IF noeval THEN Value(Drop(a), 0)
                              ELSE lookupvarint(Drop(a), a.toks[1].v)
          [] t = <<"+">> -> rest
          [] t = <<"-">> -> Value(rest, Wrap(-rest.val))
          [] t = <<"!">> -> Value(rest, Truth(rest.val = 0))
          [] t = <<"~">> -> Value(rest, Wrap(-rest.val - 1))
          [] OTHER -> yyerror(a)

(* x op ... : op is the first token, x its left operand; operators of        *)
(* precedence prec or lower are left to the caller.                          *)
binop2(a, x, prec, noeval) ==
    LET op == Last(a)
        right == primary(Drop(a), noeval)
        higher == Last(right) \in BinOps /\ arith_prec(Last(right)) < arith_prec(op)
        b == IF higher THEN binop2(right, right.val, arith_prec(op), noeval) ELSE right
        done == IF noeval THEN b ELSE do_binop(b, op, x, b.val)
    IN  IF Last(done) \notin BinOps \/ arith_prec(Last(done)) >= prec THEN done
        ELSE binop2(done, done.val, prec, noeval)

binop(a, noeval) ==
    LET p == primary(a, noeval)
    IN  IF Last(p) \in BinOps THEN binop2(p, p.val, ARITH_MAX_PREC, noeval) ELSE p

and(a, noeval) ==
    LET l == binop(a, noeval)
        r == and(Drop(l), noeval \/ l.val = 0)
    IN  IF Last(l) # <<"&", "&">> THEN l ELSE Value(r, Truth(l.val # 0 /\ r.val # 0))

(* The mutant: the right operand is evaluated in any case. *)
or_eager(a, noeval) ==
    LET l == and(a, noeval)
        r == or(Drop(l), noeval)
    IN  IF Last(l) # <<"|", "|">> THEN l ELSE Value(r, Truth(l.val # 0 \/ r.val # 0))
or(a, noeval) ==
    LET l == and(a, noeval)
        r == or(Drop(l), noeval \/ l.val # 0)
    IN  IF Last(l) # <<"|", "|">> THEN l ELSE Value(r, Truth(l.val # 0 \/ r.val # 0))

cond(a, noeval) ==
    LET test == or(a, noeval)
        yes == assignment(Drop(test), noeval \/ test.val = 0)
        no == cond(Drop(yes), noeval \/ test.val # 0)
    IN  IF Last(test) # <<"?">> THEN test
        ELSE IF Last(yes) # <<":">> THEN yyerror(yes)
        ELSE Value(no, IF test.val # 0 THEN yes.val ELSE no.val)

assignment(a, noeval) ==
    LET name == a.toks[1].v
        op == a.toks[2].t
        r == assignment(Drop(Drop(a)), noeval)
        old == lookupvarint(r, name)
        new == do_binop(old, SubSeq(op, 1, Len(op) - 1), old.val, r.val)
    IN  IF Last(a) # <<"VAR">> \/ op \notin AssignOps \union {<<"=">>} THEN cond(a, noeval)
        ELSE IF noeval \/ r.err THEN r
        ELSE IF op = <<"=">> THEN setvarint(r, name, r.val)
        ELSE IF new.err THEN new
        ELSE setvarint(new, name, new.val)

(* arith: the value of a text, the variables it leaves, or an error.         *)
arith(text, vars, readonly) ==
    LET a == assignment([toks |-> yylex(text), vars |-> vars, readonly |-> readonly,
                         val |-> 0, err |-> FALSE], FALSE)
    IN  IF Last(a) # <<"EOF">> THEN yyerror(a) ELSE a
============================================================================
