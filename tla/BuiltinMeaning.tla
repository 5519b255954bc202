--------------------------- MODULE BuiltinMeaning ---------------------------
(* What the arguments of test, printf and echo mean: the references for     *)
(* DashTest and DashPrintf.                                                 *)
EXTENDS DashTest, DashPrintf, Functions

(* An expression of test is a tree [k, s, in] of words, unary and binary    *)
(* primaries, negations, conjunctions and disjunctions, in the grammar of   *)
(* the comment at the head of test.c; its arguments need parentheses only   *)
(* where that grammar asks for them.                                        *)

Node(k, s, in) == [k |-> k, s |-> s, in |-> in]
Word(s) == Node("word", <<s>>, <<>>)
Unary(op, x) == Node("unary", <<op, x>>, <<>>)
Binary(x, op, y) == Node("binary", <<x, op, y>>, <<>>)
Not(e) == Node("not", <<>>, <<e>>)
And(l, r) == Node("and", <<>>, <<l, r>>)
Or(l, r) == Node("or", <<>>, <<l, r>>)

Weak(e) == CASE e.k = "or" -> 3 [] e.k = "and" -> 2 [] e.k = "not" -> 1 [] OTHER -> 0
RECURSIVE Args(_), ArgsAt(_, _)
ArgsAt(e, most) == IF Weak(e) > most THEN <<"(">> \o Args(e) \o <<")">> ELSE Args(e)
Args(e) ==
    CASE e.k \in {"word", "unary", "binary"} -> e.s
      [] e.k = "not" -> <<"!">> \o ArgsAt(e.in[1], 1)
      [] e.k = "and" -> ArgsAt(e.in[1], 1) \o <<"-a">> \o ArgsAt(e.in[2], 2)
      [] e.k = "or" -> ArgsAt(e.in[1], 2) \o <<"-o">> \o ArgsAt(e.in[2], 3)

HoldsUnary(op, x) ==
    CASE op = "-z" -> Length0(x) [] op = "-n" -> ~Length0(x) [] OTHER -> IsFile(op, x)
HoldsBinary(x, op, y) ==
    CASE op = "=" -> x = y
      [] op = "!=" -> x # y
      [] op = "<" -> StrLess(x, y)
      [] op = ">" -> StrLess(y, x)
      [] op \in Ints2 -> Relation(op, Integer(x), Integer(y))
      [] op \in Files2 -> Compare(op, x, y)
RECURSIVE Holds(_)
Holds(e) ==
    CASE e.k = "word" -> ~Length0(e.s[1])
      [] e.k = "unary" -> HoldsUnary(e.s[1], e.s[2])
      [] e.k = "binary" -> HoldsBinary(e.s[1], e.s[2], e.s[3])
      [] e.k = "not" -> ~Holds(e.in[1])
      [] e.k = "and" -> Holds(e.in[1]) /\ Holds(e.in[2])
      [] e.k = "or" -> Holds(e.in[1]) \/ Holds(e.in[2])

(* test answers what the expression says, within its arguments.             *)
TestAgrees(e) == testcmd(Args(e)) = [status |-> IF Holds(e) THEN 0 ELSE 1, over |-> FALSE]

----------------------------------------------------------------------------
(* A format is a sequence of pieces: a character [k, src, ch], or a         *)
(* directive [k, flags, width, prec, conv], width and prec a number, "*" or *)
(* nothing.  A text with escapes is a sequence of [src, ch, stop].          *)

Concat(ss) == FoldLeft(LAMBDA s, t : s \o t, <<>>, ss)
Of(piece) ==
    IF piece.k = "char" THEN piece.src
    ELSE <<"%">> \o piece.flags \o piece.width \o piece.prec \o <<piece.conv>>
FormatOf(pieces) == Concat([i \in 1..Len(pieces) |-> Of(pieces[i])])
TextOf(atoms) == Concat([i \in 1..Len(atoms) |-> atoms[i].src])

Stars(piece) == Len(SelectSeq(piece.width \o piece.prec, LAMBDA c : c = "*"))
Slots(piece) == IF piece.k = "char" THEN 0 ELSE Stars(piece) + 1
Needs(pieces, n) == FoldLeft(LAMBDA sum, i : sum + Slots(pieces[i]), 0, [i \in 1..n |-> i])
(* The format is gone through until the arguments are used up, at least     *)
(* once, and only once when it uses none.                                   *)
Rounds(pieces, n) ==
    LET needs == Needs(pieces, Len(pieces))
    IN  IF needs = 0 \/ n <= needs THEN 1 ELSE (n + needs - 1) \div needs

(* An argument is [src, atoms, val, ok]: its text, what its escapes say,    *)
(* its number, and whether it is one.                                       *)
Nothing == [src |-> <<>>, atoms |-> <<>>, val |-> 0, ok |-> TRUE]
Argument(args, i) == IF i <= Len(args) THEN args[i] ELSE Nothing
UpToStop(atoms) ==
    LET stops == {i \in 1..Len(atoms) : atoms[i].stop}
        n == IF stops = {} THEN Len(atoms) ELSE (CHOOSE i \in stops : \A j \in stops : i <= j) - 1
    IN  [text |-> Concat([i \in 1..n |-> atoms[i].ch]), stop |-> stops # {}]
(* What one piece prints from its first slot on: [item, ok, stop].          *)
Done(item, ok, stop) == [item |-> item, ok |-> ok, stop |-> stop]
Prints(piece, args, slot) ==
    LET arg == Argument(args, slot + Stars(piece))
        params == [i \in 1..Stars(piece) |-> Argument(args, slot + i - 1).val]
        paramsOk == \A i \in 1..Stars(piece) : Argument(args, slot + i - 1).ok
        Item(conv, text) == [spec |-> piece.flags \o piece.width \o piece.prec \o <<conv>>, params |-> params,
                             text |-> text]
        b == UpToStop(arg.atoms)
    IN  IF piece.k = "char" THEN Done([spec |-> <<>>, params |-> <<>>, text |-> piece.ch], TRUE, FALSE)
        ELSE CASE piece.conv = "b" -> Done(Item("s", b.text), paramsOk, b.stop)
               [] piece.conv = "s" -> Done(Item("s", arg.src), paramsOk, FALSE)
               [] piece.conv = "c" -> Done(Item("c", <<First(arg.src)>>), paramsOk, FALSE)
               [] OTHER -> Done(Item(piece.conv, <<ToString(arg.val)>>), paramsOk /\ arg.ok, FALSE)
Printed(pieces, args) ==
    LET all == [k \in 1..(Rounds(pieces, Len(args)) * Len(pieces)) |->
                  LET i == ((k - 1) % Len(pieces)) + 1
                      before == ((k - 1) \div Len(pieces)) * Needs(pieces, Len(pieces)) + Needs(pieces, i - 1)
                  IN  Prints(pieces[i], args, before + 1)]
        stops == {k \in DOMAIN all : all[k].stop}
        n == IF stops = {} THEN Len(all) ELSE CHOOSE k \in stops : \A j \in stops : k <= j
    IN  [out |-> [k \in 1..n |-> all[k].item], rval |-> IF \A k \in 1..n : all[k].ok THEN 0 ELSE 1]
PrintfAgrees(pieces, args) ==
    LET p == printfcmd(FormatOf(pieces), [i \in 1..Len(args) |-> args[i].src])
    IN  ~p.err /\ [out |-> p.out, rval |-> p.rval] = Printed(pieces, args)

(* echo: the words with blanks between them, and a newline unless -n or \c. *)
EchoAgrees(words, n) ==
    LET p == echocmd((IF n THEN <<<<"-", "n">>>> ELSE <<>>) \o [i \in 1..Len(words) |-> TextOf(words[i])])
        atoms == Concat([i \in 1..Len(words) |->
                           (IF i = 1 THEN <<>> ELSE <<[src |-> <<" ">>, ch |-> <<" ">>, stop |-> FALSE]>>) \o words[i]])
        told == UpToStop(atoms)
    IN  Concat([i \in 1..Len(p.out) |-> p.out[i].text]) = told.text \o (IF told.stop \/ n THEN <<>> ELSE <<"NL">>)

=============================================================================
