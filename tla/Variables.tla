----------------------------- MODULE Variables -----------------------------
(* The variables of dash-cpp (src/dash-cpp/src/variable/                    *)
(* variable_manager.cpp) beside the environment of the process, and the     *)
(* expansion of the name of a file.  A manager x is a record:               *)
(*   table  the value and the flags of each variable                        *)
(*   env    the environment, a value for each name                          *)
(* An operation gives back [x, ok].  Names and values are sequences of      *)
(* characters, a name of letters being one character.                       *)
EXTENDS Integers, SequencesExt

CONSTANTS Letters,              \* characters a name is made of
          Output(_)             \* what a command prints for a substitution

Known(x, name) == name \in DOMAIN x.table
Flagged(x, name, flag) == Known(x, name) /\ flag \in x.table[name].flags
Bind(f, name, value) == [n \in DOMAIN f \union {name} |-> IF n = name THEN value ELSE f[n]]
Drop(f, name) == [n \in DOMAIN f \ {name} |-> f[n]]
setenv(x, name, value) == [x EXCEPT !.env = Bind(@, name, value)]
unsetenv(x, name) == [x EXCEPT !.env = Drop(@, name)]
Done(x) == [x |-> x, ok |-> TRUE]
Refused(x) == [x |-> x, ok |-> FALSE]

Special == {<<"?">>, <<"$">>, <<"#">>, <<"0">>}
set(x, name, value, flags) ==
    LET old == IF Known(x, name) THEN x.table[name].flags ELSE {}
        new == old \union flags \union (IF name \in Special THEN {"SPECIAL"} ELSE {})
        y == [x EXCEPT !.table = Bind(@, name, [value |-> value, flags |-> new])]
    IN  IF name = <<>> \/ Flagged(x, name, "READONLY") THEN Refused(x)
        ELSE Done(IF "EXPORT" \in new THEN setenv(y, name, value) ELSE y)
get(x, name) == IF Known(x, name) THEN x.table[name].value ELSE <<>>
unset(x, name) ==
    LET y == [x EXCEPT !.table = Drop(@, name)]
    IN  IF ~Known(x, name) \/ Flagged(x, name, "READONLY") \/ Flagged(x, name, "SPECIAL") THEN Refused(x)
        ELSE Done(IF Flagged(x, name, "EXPORT") THEN unsetenv(y, name) ELSE y)
AddFlag(x, name, flag) == [x EXCEPT !.table[name].flags = @ \union {flag}]
exportVar(x, name) ==
    IF ~Known(x, name) THEN Refused(x)
    ELSE Done(setenv(AddFlag(x, name, "EXPORT"), name, get(x, name)))
setReadOnly(x, name) == IF ~Known(x, name) THEN Refused(x) ELSE Done(AddFlag(x, name, "READONLY"))
getExportVars(x) == [n \in {m \in DOMAIN x.table : Flagged(x, m, "EXPORT")} |-> x.table[n].value]

(* The environment is imported, then the defaults are set; names are taken  *)
(* in the order of the sequence entries.                                    *)
initialize(x, entries) ==
    LET Set(y, name, value, flags) == set(y, name, value, flags).x
        imported == FoldLeft(LAMBDA y, name : Set(y, name, x.env[name], {"EXPORT"}), x, entries)
        prompts == Set(Set(imported, <<"PS1">>, <<"$", " ">>, {}), <<"PS2">>, <<">", " ">>, {})
        split == Set(prompts, <<"IFS">>, <<" ", "TAB", "NL">>, {})
        specials == Set(Set(split, <<"?">>, <<"0">>, {"SPECIAL"}), <<"$">>, <<"pid">>, {"SPECIAL"})
        Default(y, name, value) == IF Known(y, name) THEN y ELSE Set(y, name, value, {"EXPORT"})
    IN  Default(Default(specials, <<"PATH">>, <<"bin">>), <<"HOME">>, <<"/">>)

----------------------------------------------------------------------------
(* expand: s from the i-th character on, after result.                      *)
Upto(s, i, C) ==                        \* the first place from i on in C, or behind the end
    LET ends == {k \in i..Len(s) : s[k] \in C} \union {Len(s) + 1}
    IN  CHOOSE k \in ends : \A other \in ends : k <= other
Depth(s, i, k) == 1 + Len(SelectSeq(SubSeq(s, i, k), LAMBDA c : c = "(")) - Len(SelectSeq(SubSeq(s, i, k), LAMBDA c : c = ")"))
Closing(s, i) ==                        \* the parenthesis that ends $( at i
    LET ends == {k \in i..Len(s) : Depth(s, i, k) = 0} \union {Len(s) + 1}
    IN  CHOOSE k \in ends : \A other \in ends : k <= other
executeCommandSubstitution(cmd) ==
    LET text == Output(cmd) IN IF text # <<>> /\ Last(text) = "NL" THEN Front(text) ELSE text
Digit == {"0", "1", "2", "3", "4", "5", "6", "7", "8", "9"}
InName == Letters \union Digit \union {"_"}
RECURSIVE expand(_, _, _, _)
expand(x, s, i, result) ==
    LET c == s[i]
        next == IF i < Len(s) THEN s[i + 1] ELSE "NUL"
        Go(to, text) == expand(x, s, to, result \o text)
        paren == Closing(s, i + 2)
        quote == Upto(s, i + 1, {"BQT"})
        brace == Upto(s, i + 2, {"}"})
        name == Upto(s, i + 1, {s[k] : k \in (i + 1)..Len(s)} \ InName)
    IN  IF i > Len(s) THEN result
        ELSE IF c = "$" /\ next = "(" THEN
             IF paren <= Len(s) THEN Go(paren + 1, executeCommandSubstitution(SubSeq(s, i + 2, paren - 1)))
             ELSE Go(paren, SubSeq(s, i, Len(s)))
        ELSE IF c = "BQT" THEN
             IF quote <= Len(s) THEN Go(quote + 1, executeCommandSubstitution(SubSeq(s, i + 1, quote - 1)))
             ELSE Go(quote, SubSeq(s, i, Len(s)))
        ELSE IF c # "$" \/ next = "NUL" THEN Go(i + 1, <<c>>)
        ELSE IF next = "{" THEN
             IF brace <= Len(s) THEN Go(brace + 1, get(x, SubSeq(s, i + 2, brace - 1)))
             ELSE Go(brace, SubSeq(s, i, Len(s)))
        ELSE IF next \in {"$", "?", "#"} \union Digit THEN Go(i + 2, get(x, <<next>>))
        ELSE IF next \in Letters \union {"_"} THEN Go(name, get(x, SubSeq(s, i + 1, name - 1)))
        ELSE Go(i + 1, <<"$">>)

============================================================================
