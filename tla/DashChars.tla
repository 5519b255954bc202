----------------------------- MODULE DashChars -----------------------------
(* The characters of dash and the classes its tables put them in            *)
(* (src/dash-debian/src/mksyntax.c).  A character is a one-character        *)
(* string, or a run of letters that is always read as a whole ("echo");     *)
(* NL, TAB, EOF, BQT and NUL stand for newline, tab, the end of file, the   *)
(* backquote and the null character, and the names of the control           *)
(* characters of parser.h for themselves.                                   *)
EXTENDS Naturals, Sequences

CONSTANT Letters       \* the letters, and the runs of letters

Digits == {"0", "1", "2", "3", "4", "5", "6", "7", "8", "9"}

(* The character tables (mksyntax.c).                                       *)
Controls == {"CTLESC", "CTLVAR", "CTLENDVAR", "CTLBACKQ", "CTLARI", "CTLENDARI",
             "CTLQUOTEMARK"}
Patterns == {"!", "*", "?", "[", "=", "~", ":", "/", "-", "]"}
Syntax(table, c) ==
    CASE c = "EOF" -> "CEOF"
      [] c = "NL" -> "CNL"
      [] c \in Controls -> "CCTL"
      [] c = "\\" -> IF table = "SQ" THEN "CCTL" ELSE "CBACK"
      [] c = "'" /\ table \in {"BASE", "SQ"} ->
           IF table = "BASE" THEN "CSQUOTE" ELSE "CENDQUOTE"
      [] c = "\"" /\ table \in {"BASE", "DQ"} ->
           IF table = "BASE" THEN "CDQUOTE" ELSE "CENDQUOTE"
      [] c = "BQT" /\ table # "SQ" -> "CBQUOTE"
      [] c = "$" /\ table # "SQ" -> "CVAR"
      [] c = "}" /\ table # "SQ" -> "CENDVAR"
      [] c \in {"(", ")"} /\ table = "ARI" -> IF c = "(" THEN "CLP" ELSE "CRP"
      [] c \in {"<", ">", "(", ")", ";", "&", "|", " ", "TAB"} /\ table = "BASE" -> "CSPCL"
      [] c \in Patterns /\ table \in {"DQ", "SQ"} -> "CCTL"
      [] OTHER -> "CWORD"

is_name(c) == c \in Letters \union {"_"}
is_in_name(c) == is_name(c) \/ c \in Digits
is_special(c) == c \in Digits \union {"#", "?", "$", "!", "-", "*", "@"}

RECURSIVE endofname(_)
endofname(text) ==                     (* what follows the name text begins with *)
    IF text # <<>> /\ is_in_name(text[1]) THEN endofname(Tail(text)) ELSE text
goodname(text) == text # <<>> /\ is_name(text[1]) /\ endofname(text) = <<>>
isassignment(text) ==
    /\ text # <<>> /\ is_name(text[1])
    /\ LET rest == endofname(text) IN rest # <<>> /\ rest[1] = "="
============================================================================
