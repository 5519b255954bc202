--------------------------- MODULE ArithMeaning ---------------------------
(* What an arithmetic expression of the shell means, by its structure: the  *)
(* reference for DashArith.  An expression is [k, op, v, name,   *)
(* args]: a number v, a variable, an operator on its args, an assignment.   *)
EXTENDS DashArith

Node(k, op, v, name, args) == [k |-> k, op |-> op, v |-> v, name |-> name, args |-> args]
Num(v) == Node("num", <<>>, v, <<>>, <<>>)
Var(n) == Node("var", <<>>, 0, <<n>>, <<>>)
Un(op, e) == Node("un", op, 0, <<>>, <<e>>)
Bin(op, l, r) == Node("bin", op, 0, <<>>, <<l, r>>)
Logic(op, l, r) == Node("logic", op, 0, <<>>, <<l, r>>)
Cond(c, l, r) == Node("cond", <<"?">>, 0, <<>>, <<c, l, r>>)
Ass(n, op, e) == Node("ass", op, 0, <<n>>, <<e>>)
AndAnd == <<"&", "&">>
OrOr == <<"|", "|">>

(* The grammar of C: an operand binds at least as tightly as its place asks. *)
Loose(e) == CASE e.k \in {"num", "var"} -> 0
              [] e.k = "un" -> 1
              [] e.k = "bin" -> 2 + arith_prec(e.op)
              [] e.k = "logic" -> IF e.op = AndAnd THEN 10 ELSE 11
              [] e.k = "cond" -> 12
              [] e.k = "ass" -> 13
RECURSIVE Written(_), Within(_, _)
Within(e, most) == IF Loose(e) > most THEN <<"(">> \o Written(e) \o <<")">> ELSE Written(e)
Written(e) ==
    LET l == Loose(e)
        A(i, most) == Within(e.args[i], most)
    IN  CASE e.k = "num" -> Decimal(e.v)
          [] e.k = "var" -> e.name
          [] e.k = "un" -> e.op \o A(1, 1)
          [] e.k \in {"bin", "logic"} -> A(1, l) \o e.op \o A(2, l - 1)
          [] e.k = "cond" -> A(1, 11) \o <<"?">> \o A(2, 13) \o <<":">> \o A(3, 12)
          [] e.k = "ass" -> e.name \o e.op \o A(1, 13)

(* Its value: [v, vars, err], with C's laziness and the order of its effects. *)
Value0(s, v) == [s EXCEPT !.v = v]
Applied(s, op, x, y) ==
    IF op \in {<<"/">>, <<"%">>} /\ (y = 0 \/ (y = -1 /\ x = -2^(Width - 1)))
    THEN [s EXCEPT !.err = TRUE] ELSE Value0(s, Binop(op, x, y))
RECURSIVE Means(_, _)
Means(e, s) ==
    LET a == Means(e.args[1], s)
        b == Means(e.args[2], a)
        c == Means(e.args[IF a.v # 0 THEN 2 ELSE 3], a)
        old == IF e.name \in DOMAIN a.vars THEN a.vars[e.name] ELSE 0
        new == IF e.op = <<"=">> THEN a
               ELSE Applied(a, SubSeq(e.op, 1, Len(e.op) - 1), old, a.v)
        decided == (a.v # 0) = (e.op = OrOr)
    IN  CASE s.err -> s
          [] ~s.err /\ e.k = "num" -> Value0(s, e.v)
          [] ~s.err /\ e.k = "var" ->
               Value0(s, IF e.name \in DOMAIN s.vars THEN s.vars[e.name] ELSE 0)
          [] ~s.err /\ e.k = "un" ->
               Value0(a, CASE e.op = <<"+">> -> a.v [] e.op = <<"-">> -> Wrap(-a.v)
                           [] e.op = <<"!">> -> Truth(a.v = 0) [] e.op = <<"~">> -> Wrap(-a.v - 1))
          [] ~s.err /\ e.k = "bin" -> IF b.err THEN b ELSE Applied(b, e.op, a.v, b.v)
          [] ~s.err /\ e.k = "logic" ->
               IF a.err THEN a
               ELSE IF decided THEN Value0(a, Truth(a.v # 0)) ELSE Value0(b, Truth(b.v # 0))
          [] ~s.err /\ e.k = "cond" -> IF a.err THEN a ELSE c
          [] ~s.err /\ e.k = "ass" ->
               IF new.err THEN new
               ELSE [new EXCEPT !.vars = [n \in DOMAIN @ \union {e.name} |->
                                            IF n = e.name THEN new.v ELSE @[n]]]

(* arith gives what the expression means.                                    *)
ArithAgrees(e, vars) ==
    LET text == [n \in DOMAIN vars |-> Decimal(vars[n])]
        got == arith(Written(e), text, {})
        want == Means(e, [v |-> 0, vars |-> vars, err |-> FALSE])
    IN  /\ got.err = want.err
        /\ ~got.err => /\ got.val = want.v
                       /\ got.vars = [n \in DOMAIN want.vars |-> Decimal(want.vars[n])]
============================================================================
