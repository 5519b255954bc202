---------------------------- MODULE TreeMeaning ----------------------------
(* How a command is written: the reference for the grammar of DashParser.   *)
(* Show(t) is a text for the tree t, with braces where the structure asks   *)
(* for them, and Tree(text) the tree the parser makes of a text.  A here-   *)
(* document is written as one mark, which Placed replaces by the operator,  *)
(* the body following the next newline.                                     *)
EXTENDS DashParser

CONSTANT Body(_)         \* the lines of the n-th here-document of a text

Plainword(c) == [text |-> <<c>>, bq |-> <<>>]
Simplecmd(assigns, args, redirs) ==
    [type |-> "NCMD", assign |-> assigns, args |-> args, redirect |-> redirs]
To(fd, c) == [type |-> "NTO", fd |-> fd, name |-> Plainword(c)]
Doc(n) == [type |-> "NXHERE", fd |-> "0", doc |-> n]
Sub(t) == [type |-> "NSUBSHELL", n |-> t, redirect |-> <<>>]
Subst(t) == Simplecmd(<<>>, <<Plainword("a"), [text |-> <<"b", "CTLBACKQ">>, bq |-> <<t>>]>>, <<>>)
Two(type, l, r) == [type |-> type, ch1 |-> l, ch2 |-> r]
Pipe(l, r) == [type |-> "NPIPE", backgnd |-> FALSE, cmds |-> <<l, r>>]
If(t, l, r) == [type |-> "NIF", test |-> t, ifpart |-> l, elsepart |-> r]
For(c, t) == [type |-> "NFOR", var |-> <<"x">>, args |-> <<Plainword(c), Plainword("b")>>, body |-> t]
Case(t, u) == [type |-> "NCASE", expr |-> Plainword("a"),
               cases |-> <<[pattern |-> <<Plainword("a"), Plainword("b")>>, body |-> t],
                           [pattern |-> <<Plainword("x")>>, body |-> u]>>]
Fun(t) == [type |-> "NDEFUN", text |-> <<"f">>, body |-> t]
Redirect(t, r) == IF t.type = "NSUBSHELL" THEN [t EXCEPT !.redirect = <<r>>]
                  ELSE [type |-> "NREDIR", n |-> t, redirect |-> <<r>>]

----------------------------------------------------------------------------
IsBackground(t) == t.type = "NBACKGND" \/ (t.type = "NPIPE" /\ t.backgnd)
Binds(t) == CASE t.type = "NSEMI" \/ IsBackground(t) -> 4
              [] t.type \in {"NAND", "NOR"} -> 3
              [] t.type = "NNOT" -> 2
              [] t.type = "NPIPE" /\ ~t.backgnd -> 1
              [] OTHER -> 0

(* sep ends a command: a semicolon or a newline. *)
RECURSIVE Show(_, _), ShowAll(_, _, _, _), ShowRedirs(_), ShowWord(_, _)
Ends(t, sep) ==
    Show(t, sep) \o (IF IsBackground(t) \/ (t.type = "NSEMI" /\ IsBackground(t.ch2))
                     THEN <<" ">> ELSE <<sep>>)
Braces(t, sep) == <<"{", " ">> \o Ends(t, sep) \o <<"}">>
At(t, most, sep) == IF Binds(t) > most THEN Braces(t, sep) ELSE Show(t, sep)
ShowWord(w, sep) ==
    IF w.bq = <<>> THEN w.text
    ELSE <<"b", "SUBST", " ">> \o Show(w.bq[1], sep) \o <<"NL", "END">>
ShowRedir(r) ==
    CASE r.type = "NTO" -> (IF r.fd = "1" THEN <<>> ELSE <<r.fd>>) \o <<">">> \o r.name.text
      [] r.type = "NXHERE" -> <<IF r.doc = 1 THEN "HERE1" ELSE "HERE2">>
      [] r.type = "NTOFD" -> <<r.fd, ">", "&", r.dup>>
ShowRedirs(rs) == IF rs = <<>> THEN <<>> ELSE <<" ">> \o ShowRedir(rs[1]) \o ShowRedirs(Tail(rs))
ShowAll(ws, with, sep, done) ==
    IF ws = <<>> THEN <<>>
    ELSE (IF done THEN with ELSE <<>>) \o ShowWord(ws[1], sep) \o ShowAll(Tail(ws), with, sep, TRUE)
Joining(type) == IF type = "NAND" THEN <<"&", "&">> ELSE <<"|", "|">>
Background1(t) ==           (* the command an & ended *)
    IF t.type = "NPIPE" THEN [t EXCEPT !.backgnd = FALSE]
    ELSE IF t.redirect = <<>> THEN t.n ELSE [t EXCEPT !.type = "NREDIR"]
Show(t, sep) ==
    CASE t.type = "NCMD" ->
           ShowAll(t.assign \o t.args, <<" ">>, sep, FALSE) \o ShowRedirs(t.redirect)
      [] t.type = "NSEMI" ->
           (IF IsBackground(t.ch1) THEN Show(t.ch1, sep) \o <<" ">> ELSE Show(t.ch1, sep) \o <<sep>>)
             \o At(t.ch2, IF t.ch2.type = "NSEMI" THEN 3 ELSE 4, sep)
      [] IsBackground(t) -> At(Background1(t), 3, sep) \o <<"&">>
      [] t.type \in {"NAND", "NOR"} ->
           At(t.ch1, 3, sep) \o Joining(t.type) \o At(t.ch2, 2, sep)
      [] t.type = "NNOT" -> <<"!", " ">> \o At(t.com, 1, sep)
      [] t.type = "NPIPE" /\ ~t.backgnd ->
           At(t.cmds[1], 0, sep) \o <<"|">> \o At(t.cmds[2], 0, sep)
      [] t.type = "NSUBSHELL" -> <<"(">> \o Show(t.n, sep) \o <<")">> \o ShowRedirs(t.redirect)
      [] t.type = "NREDIR" -> Braces(t.n, sep) \o ShowRedirs(t.redirect)
      [] t.type = "NIF" ->
           <<"if", " ">> \o Ends(t.test, sep) \o <<"then", " ">> \o Ends(t.ifpart, sep)
             \o (IF t.elsepart = NONE THEN <<>> ELSE <<"else", " ">> \o Ends(t.elsepart, sep))
             \o <<"fi">>
      [] t.type \in {"NWHILE", "NUNTIL"} ->
           <<IF t.type = "NWHILE" THEN "while" ELSE "until", " ">> \o Ends(t.ch1, sep)
             \o <<"do", " ">> \o Ends(t.ch2, sep) \o <<"done">>
      [] t.type = "NFOR" ->
           <<"for", " ">> \o t.var \o <<" ", "in", " ">> \o ShowAll(t.args, <<" ">>, sep, FALSE)
             \o <<sep>> \o <<"do", " ">> \o Ends(t.body, sep) \o <<"done">>
      [] t.type = "NCASE" ->
           <<"case", " ">> \o t.expr.text \o <<" ", "in">>
             \o <<" ", "(">> \o ShowAll(t.cases[1].pattern, <<"|">>, sep, FALSE) \o <<")">>
             \o Show(t.cases[1].body, sep) \o <<";", ";", "NL">>
             \o ShowAll(t.cases[2].pattern, <<"|">>, sep, FALSE) \o <<")">>
             \o Ends(t.cases[2].body, "NL") \o <<"esac">>
      [] t.type = "NDEFUN" -> t.text \o <<"(", ")">> \o At(t.body, 0, sep)

(* due: the bodies the next newline is followed by, those of the innermost  *)
(* substitution first.                                                      *)
RECURSIVE Placed(_, _)
Placed(text, due) ==
    LET c == text[1]
        r == Tail(text)
        doc == IF c = "HERE1" THEN 1 ELSE 2
        more == due[1] \o Body(doc) \o <<"E", "NL">>
    IN  IF text = <<>> THEN <<>>
        ELSE CASE c \in {"HERE1", "HERE2"} ->
                    <<"<", "<", "E">> \o Placed(r, <<more>> \o Tail(due))
               [] c = "NL" -> <<"NL">> \o due[1] \o Placed(r, <<<<>>>> \o Tail(due))
               [] c = "SUBST" -> <<"$", "(">> \o Placed(r, <<<<>>>> \o due)
               [] c = "END" -> <<")">> \o Placed(r, Tail(due))
               [] OTHER -> <<c>> \o Placed(r, due)

(* The here-documents in the order they stand in a text. *)
Docs(text) == SelectSeq(text, LAMBDA c : c \in {"HERE1", "HERE2"})
InOrder(text) == Docs(text) \in {<<>>, <<"HERE1">>, <<"HERE1", "HERE2">>}

(* What is written is what is read, and nothing of the text is left.        *)
ReadsBack(t, sep) ==
    LET text == At(t, IF t.type = "NSEMI" THEN 3 ELSE 4, sep)
        p == parsecmd(Parsing(Placed(text \o <<"NL">>, <<<<>>>>), <<>>))
    IN  /\ ~p.err /\ p.node = t /\ Top(p).text = <<>> /\ Top(p).strs = <<>>
        /\ Len(p.docs) = Len(Docs(text))
        /\ \A i \in 1..Len(p.docs) : p.docs[i].text = Body(i)

----------------------------------------------------------------------------
(* Aliases: the words of a simple command are replaced by the words of      *)
(* their values, the first one, those a value begins with, and those after  *)
(* a value that ends in a blank, but no alias within its own value.         *)
RECURSIVE Unaliased(_, _, _, _)
Unaliased(words, here, active, Aliases) ==   (* [words, here]: here for what follows *)
    LET w == words[1]
        is == here /\ w \in DOMAIN Aliases /\ w \notin active
        value == Unaliased(Aliases[w].words, TRUE, active \union {w}, Aliases)
        next == is /\ (Aliases[w].blank \/ value.here)
        rest == Unaliased(Tail(words), next, active, Aliases)
    IN  IF words = <<>> THEN [words |-> <<>>, here |-> here]
        ELSE [words |-> (IF is THEN value.words ELSE <<w>>) \o rest.words, here |-> rest.here]
============================================================================
