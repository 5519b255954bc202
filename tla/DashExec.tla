------------------------------ MODULE DashExec ------------------------------
(***************************************************************************)
(* Where dash-debian finds a command (exec.c): the table that remembers    *)
(* where in PATH a name was found, kept as h.tab (per name its kind, its   *)
(* place in PATH and the rehash mark) with h.builtinloc, the place of      *)
(* %builtin in PATH or -1.  Places count from 0, as in the code.           *)
(***************************************************************************)
EXTENDS Integers, Sequences, FiniteSets, FiniteSetsExt

CONSTANTS
    Command,        \* names of commands
    Builtin,        \* those that are builtins, none of them regular ones
    Entries(_),     \* the entries of a value of PATH, in order
    Absolute,       \* the directories named from the root
    Has(_, _, _)    \* Has(d, w, c): entry d, seen from directory w, holds c

Missing == [type |-> "none", index |-> -1, rehash |-> FALSE]
Entry == [type : {"none", "normal", "builtin", "function"},
          index : Int, rehash : BOOLEAN]

NoCommands == [c \in Command |-> Missing]

\* The entries that changes of directory and of PATH can make wrong.
Movable(h, c) ==
    \/ h.tab[c].type = "normal"
    \/ h.tab[c].type = "builtin" /\ h.builtinloc > 0

clearcmdentry(h) ==
    [h EXCEPT !.tab = [c \in Command |-> IF Movable(h, c) THEN Missing ELSE h.tab[c]]]

hashcd(h) ==
    [h EXCEPT !.tab = [c \in Command |->
        IF Movable(h, c) THEN [h.tab[c] EXCEPT !.rehash = TRUE] ELSE h.tab[c]]]

Places(path) == {i - 1 : i \in DOMAIN Entries(path)}
At(path, i) == Entries(path)[i + 1]

PlaceOfBuiltins(path) ==
    LET here == {i \in Places(path) : At(path, i) = "%builtin"}
    IN IF here = {} THEN -1 ELSE Min(here)

\* Called before PATH gets its new value.
changepath(h, path) ==
    clearcmdentry([h EXCEPT !.builtinloc = PlaceOfBuiltins(path)])

Normal(i) == [type |-> "normal", index |-> i, rehash |-> FALSE]
BuiltinEntry == [type |-> "builtin", index |-> -1, rehash |-> FALSE]

addcmdentry(h, c, e) == [h EXCEPT !.tab[c] = e]
defun(h, c) == addcmdentry(h, c, [type |-> "function", index |-> -1, rehash |-> FALSE])
unsetfunc(h, c) ==
    IF h.tab[c].type = "function" THEN addcmdentry(h, c, Missing) ELSE h

\* What keeps find_command from using the entry of a name.
Bits(e) ==
    CASE e.type = "normal" -> {"altpath", "regbltin"}
      [] e.type = "function" -> {"nofunc"}
      [] e.type = "builtin" -> {"regbltin"}
      [] OTHER -> {}

\* Where a search of the whole path ends, given the place a rehash may trust:
\* %builtin, a file, or that place itself.  None: no such place.
Stops(path, cwd, c, prev) ==
    {i \in Places(path) :
        IF At(path, i) = "%builtin" THEN c \in Builtin
        ELSE IF At(path, i) \in Absolute /\ i <= prev THEN i = prev
        ELSE Has(At(path, i), cwd, c)}

\* [h, ans]: the table afterwards and what the name stands for.
Answer(h, e) == [h |-> h, ans |-> e]
Found(h, c, e, keep) == Answer(IF keep THEN addcmdentry(h, c, e) ELSE h, e)

Searched(h, c, path, cwd, e, keep) ==
    LET prev == IF ~e.rehash THEN -1
                ELSE IF e.type = "builtin" THEN h.builtinloc ELSE e.index
        stops == Stops(path, cwd, c, prev)
    IN IF stops = {}
       THEN Answer(IF keep THEN addcmdentry(h, c, Missing) ELSE h, Missing)
       ELSE LET i == Min(stops)
            IN Found(h, c, IF At(path, i) = "%builtin" THEN BuiltinEntry ELSE Normal(i), keep)

find_command(h, c, act, path, cwd) ==
    LET e == h.tab[c]
        barred == act \cap Bits(e)
        keep == "altpath" \notin act /\ barred = {}
        known == IF barred = {} THEN e ELSE Missing
    IN  CASE "regbltin" \in barred -> Answer(h, Missing)
          [] "regbltin" \notin barred /\ known # Missing /\ ~known.rehash ->
                Answer(h, known)
          [] "regbltin" \notin barred /\ (known = Missing \/ known.rehash) ->
                IF c \in Builtin /\ ("altpath" \in act \/ h.builtinloc <= 0)
                THEN Found(h, c, BuiltinEntry, keep)
                ELSE IF "regbltin" \in act THEN Answer(h, Missing)
                ELSE Searched(h, c, path, cwd, known, keep)

\* hash -r and hash c.
hashcmd(h, c, path, cwd) ==
    find_command(IF Movable(h, c) THEN addcmdentry(h, c, Missing) ELSE h, c, {}, path, cwd).h

\* type and command -v believe the table.
describe_command(h, c, path, cwd) ==
    IF h.tab[c] # Missing THEN h.tab[c]
    ELSE find_command(h, c, {}, path, cwd).ans

-----------------------------------------------------------------------------
\* The reference: what a name stands for, whatever has been looked up before.
Resolve(functions, c, act, path, cwd) ==
    LET b == PlaceOfBuiltins(path)
        first == "altpath" \in act \/ b <= 0
        files == {i \in Places(path) : At(path, i) # "%builtin" /\ Has(At(path, i), cwd, c)}
        before == IF first THEN files ELSE {i \in files : i < b}
    IN  CASE c \in functions /\ "nofunc" \notin act -> "function"
          [] (c \notin functions \/ "nofunc" \in act) /\ c \in Builtin
                /\ (first \/ before = {}) -> "builtin"
          [] OTHER -> IF files = {} THEN "none" ELSE At(path, Min(files))
=============================================================================
