----------------------------- MODULE DashInput -----------------------------
(* Where dash's parser takes its characters: the stack of input files of    *)
(* src/dash-debian/src/input.c, the strings pushed onto the current one     *)
(* (aliases, and the lines a here-document turned out not to end on) and    *)
(* the alias table of alias.c.                                              *)
(*                                                                          *)
(* The operators take and give the parser's state p, of which this module   *)
(* touches files, aliases, kwd (checkkwd) and c (the character last read).  *)
(* A file is [text, prev, last, unget, strs, free]: what is left of the     *)
(* current string, the character before it, the two characters pungetc can  *)
(* give back, how many it has given back, the strings pushed (innermost     *)
(* first) and the names of the aliases whose strings are read to the end    *)
(* but not freed yet (spfree; "" for a string that is not an alias).        *)
EXTENDS DashChars, Functions

Top(p) == Head(p.files)
OnTop(p, f) == [p EXCEPT !.files = <<f>> \o Tail(p.files)]

(* A new file that reads text (pushfile and setinputstring). *)
FileOf(text) == [text |-> text, prev |-> "", last |-> <<"", "">>, unget |-> 0,
                 strs |-> <<>>, free |-> <<>>]
setinputstring(p, text) == [p EXCEPT !.files = <<FileOf(text)>> \o @]

----------------------------------------------------------------------------
(* The alias table: name -> [val, inuse, dead]. *)
setalias(aliases, name, val) ==
    IF name \in DOMAIN aliases
    THEN [aliases EXCEPT ![name].val = val, ![name].dead = FALSE]
    ELSE [n \in DOMAIN aliases \union {name} |->
            IF n = name THEN [val |-> val, inuse |-> FALSE, dead |-> FALSE]
                        ELSE aliases[n]]

(* An alias that is being read is only marked: freestrings removes it. *)
unalias(aliases, name) ==
    IF name \notin DOMAIN aliases THEN aliases
    ELSE IF aliases[name].inuse THEN [aliases EXCEPT ![name].dead = TRUE]
    ELSE Restrict(aliases, DOMAIN aliases \ {name})

lookupalias(p, word) ==
    /\ Len(word) = 1
    /\ word[1] \in DOMAIN p.aliases
    /\ ~p.aliases[word[1]].inuse

freestrings(p) ==
    LET f == Top(p)
        names == {f.free[i] : i \in 1..Len(f.free)} \ {""}
        gone == {n \in names : p.aliases[n].dead}
    IN  [OnTop(p, [f EXCEPT !.free = <<>>]) EXCEPT
           !.aliases = [n \in DOMAIN p.aliases \ gone |->
                          IF n \in names THEN [p.aliases[n] EXCEPT !.inuse = FALSE]
                                         ELSE p.aliases[n]]]

----------------------------------------------------------------------------
(* pushstring(s, ap): read s before the rest of the current file; name is   *)
(* the alias it is the value of, or "".                                     *)
pushstring(p, text, name) ==
    LET f == Top(p)
        sp == [text |-> f.text, prev |-> f.prev, last |-> f.last,
               unget |-> f.unget, free |-> f.free, name |-> name]
        q == OnTop(p, [f EXCEPT !.text = text, !.prev = "", !.unget = 0,
                                !.strs = <<sp>> \o @, !.free = <<>>])
    IN  IF name = "" THEN q ELSE [q EXCEPT !.aliases[name].inuse = TRUE]

(* A string that is read to its end: after an alias whose value ends in a   *)
(* blank the next word may be an alias too.                                 *)
(* The mutant: it is not looked whether the alias ends in a blank. *)
popstring_plain(p) ==
    LET f == Top(p)
        sp == Head(f.strs)
    IN  OnTop(p, [text |-> sp.text, prev |-> sp.prev, last |-> sp.last,
                  unget |-> sp.unget, strs |-> Tail(f.strs), free |-> <<sp.name>> \o sp.free])
popstring(p) ==
    LET f == Top(p)
        sp == Head(f.strs)
        blank == sp.name # "" /\ f.prev \in {" ", "TAB"}
        q == OnTop(p, [text |-> sp.text, prev |-> sp.prev, last |-> sp.last,
                       unget |-> sp.unget, strs |-> Tail(f.strs),
                       free |-> <<sp.name>> \o sp.free])
    IN  IF blank THEN [q EXCEPT !.kwd = @ \union {"CHKALIAS"}] ELSE q

Remember(p, c) ==
    LET f == Top(p) IN [OnTop(p, [f EXCEPT !.last = <<c, @[1]>>]) EXCEPT !.c = c]

RECURSIVE getc(_)
getc(p) ==                                                  (* __pgetc *)
    LET f == Top(p)
    IN  IF f.unget > 0
        THEN [OnTop(p, [f EXCEPT !.unget = @ - 1]) EXCEPT !.c = f.last[f.unget]]
        ELSE IF f.text # <<>>
        THEN LET c == Head(f.text)
             IN  Remember(OnTop(p, [f EXCEPT !.text = Tail(@), !.prev = c]), c)
        ELSE IF f.strs # <<>>
        THEN LET q == getc(popstring(p)) IN Remember(q, q.c)
        ELSE Remember(p, "EOF")

pgetc(p) == getc(IF Top(p).free = <<>> THEN p ELSE freestrings(p))

pungetc(p) == LET f == Top(p) IN OnTop(p, [f EXCEPT !.unget = @ + 1])

(* pgetc_eatbnl: a backslash before a newline joins the lines. *)
RECURSIVE pgetc_eatbnl(_)
pgetc_eatbnl(p) ==
    LET q == pgetc(p)
        r == pgetc(q)
    IN  IF q.c # "\\" THEN q
        ELSE IF r.c = "NL" THEN pgetc_eatbnl(r)
        ELSE [pungetc(r) EXCEPT !.c = "\\"]

(* popfile: the strings still pushed are freed with the file. *)
RECURSIVE popfile(_)
popfile(p) ==
    LET q == IF Top(p).free = <<>> THEN p ELSE freestrings(p)
    IN  IF Top(q).strs # <<>> THEN popfile(popstring(q))
        ELSE [q EXCEPT !.files = Tail(@)]
============================================================================
