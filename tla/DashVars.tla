------------------------------ MODULE DashVars ------------------------------
(***************************************************************************)
(* The variables of dash-debian (var.c), the functions that make some of   *)
(* them local, and the two things that hang on a variable: the table of    *)
(* commands, which PATH clears (exec.c), and the current directory, which  *)
(* PWD and OLDPWD follow (cd.c).                                           *)
(*                                                                         *)
(* A text is a string name=value of the C program, known by the block of   *)
(* memory it is in: the blocks of a variable are numbered, and block 0 is  *)
(* memory that is never freed.  dead holds the freed blocks something      *)
(* still points to; a block nothing points to may be used again.           *)
(***************************************************************************)
EXTENDS DashExec, SequencesExt

CONSTANTS
    Name,           \* the variables, PATH, PWD and OLDPWD among them
    Value,          \* what variables may be set to
    None,           \* the value of a variable that is not set
    Values(_),      \* what a user sets a variable to
    Unsettable,     \* the variables a user unsets
    Protectable,    \* the variables a user makes readonly
    FirstPath,      \* PATH at the start
    Home,           \* the first directory
    Directory,      \* where cd may go
    AllExport,      \* option a is on
    MaxScopes,      \* bound: functions within functions
    MaxLocals       \* bound: variables saved per function

ASSUME NameAssumption ==
    {"PATH", "PWD", "OLDPWD"} \cup Unsettable \cup Protectable \subseteq Name /\ "-" \notin Name
ASSUME ValueAssumption ==
    /\ None \notin Value
    /\ {FirstPath, Home} \cup Directory \subseteq Value
    /\ \A n \in Name : Values(n) \subseteq Value
\* A value of PATH is a list of entries; what a directory named from the root
\* holds does not depend on the directory one is in.
ASSUME PathAssumption ==
    /\ \A v \in Value \cup {None} :
         Len(Entries(v)) \in Nat /\ DOMAIN Entries(v) = 1..Len(Entries(v))
    /\ "%builtin" \notin Absolute
    /\ \A d \in Absolute, v, w \in Value, c \in Command : Has(d, v, c) <=> Has(d, w, c)
ASSUME BoundAssumption == MaxScopes \in Nat /\ MaxLocals \in Nat \ {0}

VARIABLES
    vartab,     \* the table of variables
    stack,      \* localvar_stack: per scope the saved variables
    optlist,    \* an option of set, on or off
    dead,       \* the freed blocks that are still pointed to
    cmds,       \* cmdtable and builtinloc
    cwd,        \* the directory the process is in
    curdir,     \* the directory the shell believes it is in
    stop        \* the depth unwindlocalvars has to get to

vars == <<vartab, stack, optlist, dead, cmds, cwd, curdir, stop>>

\* Never a limit: one block for the variable and one per saved text of it.
Blocks == MaxScopes * MaxLocals + 1

Flag == {"EXPORT", "READONLY", "STRFIXED", "TEXTFIXED", "UNSET"}
Text == [block : 0..Blocks, val : Value \cup {None}]
NoText == [block |-> 0, val |-> None]
Var == [here : BOOLEAN, flags : SUBSET Flag, text : Text]
Gone == [here |-> FALSE, flags |-> {}, text |-> NoText]
Saved == [name : Name \cup {"-"}, flags : SUBSET Flag, text : Text, on : BOOLEAN]

TypeOK ==
    /\ vartab \in [Name -> Var]
    /\ stack \in Seq(Seq(Saved))
    /\ optlist \in BOOLEAN
    /\ dead \subseteq Name \X (1..Blocks)
    /\ cmds.tab \in [Command -> Entry] /\ cmds.builtinloc \in Int
    /\ cwd \in Value /\ curdir \in Value
    /\ stop \in 0..Len(stack)

-----------------------------------------------------------------------------
(* The table: m holds what a call may change, err that it raised EXERROR.  *)

Here == [vars |-> vartab, stk |-> stack, dead |-> dead, cmds |-> cmds, err |-> FALSE]

\* The blocks of n that m points to.
Used(m, n) ==
    {m.vars[n].text.block} \cup
    UNION {{m.stk[i][j].text.block : j \in {x \in DOMAIN m.stk[i] : m.stk[i][x].name = n}} :
            i \in DOMAIN m.stk}

ckmalloc(m, n) == Min((1..Blocks) \ Used(m, n))

\* The old text of n is freed unless it is marked as not the variable's own.
Owned(v) == v.text.block # 0 /\ "TEXTFIXED" \notin v.flags
ckfree(m, n) ==
    LET v == m.vars[n]
    IN [m EXCEPT !.vars[n].text = NoText,
                 !.dead = @ \cup (IF Owned(v) THEN {<<n, v.text.block>>} ELSE {})]

StillUsed(m) == {d \in m.dead : d[2] \in Used(m, d[1])}

\* The function of a variable is called before its text changes.
func(m, n, v) == IF n = "PATH" THEN [m EXCEPT !.cmds = changepath(@, v)] ELSE m

Refused(m) == [m EXCEPT !.err = TRUE]

setvareq(m, n, val, given) ==
    LET v == m.vars[n]
        flags == given \cup (IF AllExport THEN {"EXPORT"} ELSE {})
        goes == (flags \cap {"EXPORT", "READONLY", "STRFIXED", "UNSET"})
                    \cup (v.flags \cap {"STRFIXED"}) = {"UNSET"}
        f == ckfree(IF v.here THEN func(m, n, val) ELSE m, n)
        b == ckmalloc(f, n)
    IN IF "READONLY" \in v.flags THEN Refused(m)
       ELSE IF goes THEN [f EXCEPT !.vars[n] = Gone]
       ELSE [f EXCEPT !.dead = @ \ {<<n, b>>},
                      !.vars[n] = [here |-> TRUE,
                                   flags |-> flags \cup (v.flags \ {"TEXTFIXED", "UNSET"}),
                                   text |-> [block |-> b, val |-> val]]]

unsetvar(m, n) == setvareq(m, n, None, {"UNSET"})

\* export and readonly, with a value or (None) without.
Marked(m, n, val, flag) ==
    CASE val # None -> setvareq(m, n, val, {flag})
      [] val = None /\ m.vars[n].here -> [m EXCEPT !.vars[n].flags = @ \cup {flag}]
      [] val = None /\ ~m.vars[n].here -> setvareq(m, n, None, {flag, "UNSET"})

\* A bug it must not have: the text stays the variable's own.
BorrowedAsOwn(m, n) == [m EXCEPT !.vars[n].flags = @ \cup {"STRFIXED"}]

\* The saved text now belongs to the scope, the variable only borrows it.
Borrowed(m, n) == [m EXCEPT !.vars[n].flags = @ \cup {"STRFIXED", "TEXTFIXED"}]

Link(m, l) == [m EXCEPT !.stk[Len(m.stk)] = Append(@, l)]

mklocal(m, n, val, flags) ==
    LET v == m.vars[n]
        new == setvareq(m, n, val, flags \cup {"STRFIXED"}
                            \cup (IF val = None THEN {"UNSET"} ELSE {}))
        old == Link(Borrowed(m, n), [name |-> n, flags |-> v.flags, text |-> v.text, on |-> FALSE])
        set == IF val = None THEN old ELSE setvareq(old, n, val, flags)
    IN CASE ~v.here -> Link(new, [name |-> n, flags |-> {"UNSET"}, text |-> NoText, on |-> FALSE])
         [] v.here /\ ~set.err -> set
         [] v.here /\ set.err -> Refused(Borrowed(m, n))

-----------------------------------------------------------------------------
Running == stop = Len(stack)

\* What a call has done.  EXERROR unwinds to the handler that catches it:
\* the main loop's, or that of a regular builtin (command eval) under way in
\* some scope.
Done(m) ==
    /\ vartab' = m.vars /\ stack' = m.stk /\ cmds' = m.cmds
    /\ dead' = StillUsed(m)
    /\ IF m.err THEN stop' \in 0..Len(stack) ELSE stop' = Len(m.stk)

Unmoved == UNCHANGED <<optlist, cwd, curdir>>

Init ==
    /\ vartab = [n \in Name |->
                    IF n = "PATH"
                    THEN [here |-> TRUE, flags |-> {"STRFIXED", "TEXTFIXED"},
                          text |-> [block |-> 0, val |-> FirstPath]]
                    ELSE IF n = "PWD"
                    THEN [here |-> TRUE, flags |-> {"EXPORT"},
                          text |-> [block |-> 1, val |-> Home]]
                    ELSE Gone]
    /\ stack = <<>> /\ stop = 0
    /\ optlist = FALSE
    /\ dead = {}
    /\ cmds = [tab |-> NoCommands, builtinloc |-> PlaceOfBuiltins(FirstPath)]
    /\ cwd = Home /\ curdir = Home

\* name=value, as a command of its own or before a special builtin.
Assign(n, v) == Running /\ Done(setvareq(Here, n, v, {})) /\ Unmoved

exportcmd(n, v, flag) == Running /\ Done(Marked(Here, n, v, flag)) /\ Unmoved

unsetcmd(n) == Running /\ Done(unsetvar(Here, n)) /\ Unmoved

setcmd == Running /\ optlist' = ~optlist /\ Done(Here) /\ UNCHANGED <<cwd, curdir>>

Room == stack # <<>> /\ Len(Last(stack)) < MaxLocals

localcmd(n, v) == Running /\ Room /\ Done(mklocal(Here, n, v, {})) /\ Unmoved

\* local - saves the options.
LocalDash ==
    /\ Running /\ Room
    /\ Done(Link(Here, [name |-> "-", flags |-> {}, text |-> NoText, on |-> optlist]))
    /\ Unmoved

\* A function, or a command that is not a special builtin, begins, with an
\* assignment in front of it or (None) without.
pushlocalvars(n, v) ==
    /\ Running /\ Len(stack) < MaxScopes
    /\ LET m == [Here EXCEPT !.stk = Append(@, <<>>)]
       IN Done(IF v = None THEN m ELSE mklocal(m, n, v, {"EXPORT"}))
    /\ Unmoved

\* It is over: evalcommand unwinds to where it was.
Return ==
    /\ Running /\ stack # <<>>
    /\ stop' = Len(stack) - 1
    /\ UNCHANGED <<vartab, stack, dead, cmds>> /\ Unmoved

\* Bugs it must not have: PATH is put back without its function being told,
\* and a variable that was new stays readonly.
RestoredQuietly(m, l) ==
    IF l.flags = {"UNSET"}
    THEN unsetvar([m EXCEPT !.vars[l.name].flags = @ \ {"STRFIXED", "READONLY"}], l.name)
    ELSE [ckfree(m, l.name) EXCEPT
            !.vars[l.name] = [here |-> TRUE, flags |-> l.flags, text |-> l.text]]
RestoredButReadonly(m, l) ==
    IF l.flags = {"UNSET"}
    THEN unsetvar([m EXCEPT !.vars[l.name].flags = @ \ {"STRFIXED"}], l.name)
    ELSE [ckfree(func(m, l.name, l.text.val), l.name) EXCEPT
            !.vars[l.name] = [here |-> TRUE, flags |-> l.flags, text |-> l.text]]

\* One turn of poplocalvars, the last saved variable first.
Restored(m, l) ==
    IF l.flags = {"UNSET"}
    THEN unsetvar([m EXCEPT !.vars[l.name].flags = @ \ {"STRFIXED", "READONLY"}], l.name)
    ELSE [ckfree(func(m, l.name, l.text.val), l.name) EXCEPT
            !.vars[l.name] = [here |-> TRUE, flags |-> l.flags, text |-> l.text]]

PopLocal ==
    /\ ~Running /\ Last(stack) # <<>>
    /\ LET l == Last(Last(stack))
           m == [Here EXCEPT !.stk[Len(stack)] = Front(@)]
           r == IF l.name = "-" THEN m ELSE Restored(m, l)
       IN /\ vartab' = r.vars /\ cmds' = r.cmds /\ stack' = r.stk
          /\ dead' = StillUsed(r)
          /\ optlist' = IF l.name = "-" THEN l.on ELSE optlist
    /\ UNCHANGED <<cwd, curdir, stop>>

PopScope ==
    /\ ~Running /\ Last(stack) = <<>>
    /\ stack' = Front(stack)
    /\ UNCHANGED <<vartab, dead, cmds, stop>> /\ Unmoved

-----------------------------------------------------------------------------
(* Directories and commands.                                               *)

\* chdir has succeeded.  A readonly OLDPWD or PWD raises EXERROR, which the
\* command cd itself ends with.
docd(d) ==
    /\ Running
    /\ cwd' = d
    /\ LET old == setvareq(Here, "OLDPWD", curdir, {"EXPORT"})
           new == setvareq(old, "PWD", d, {"EXPORT"})
           m == IF old.err THEN old ELSE new
       IN /\ curdir' = IF old.err THEN curdir ELSE d
          /\ vartab' = m.vars /\ dead' = StillUsed(m)
          /\ cmds' = IF m.err THEN cmds ELSE hashcd(cmds)
    /\ UNCHANGED <<stack, stop, optlist>>

pathval == vartab["PATH"].text.val

\* evalcommand looks twice: for what it must know before the assignments,
\* and for the command itself.  command sets nofunc, and -p the standard path.
PathFor(act) == IF "altpath" \in act THEN FirstPath ELSE pathval
Taken(c, act) ==
    find_command(find_command(cmds, c, (act \ {"altpath"}) \cup {"regbltin"}, pathval, cwd).h,
                 c, act, PathFor(act), cwd)

Tabled(h) == Running /\ cmds' = h
             /\ UNCHANGED <<vartab, stack, dead, stop>> /\ Unmoved
LookUp(c, act) == Tabled(Taken(c, act).h)
typecmd(c) == Tabled(IF cmds.tab[c] # Missing THEN cmds
                     ELSE find_command(cmds, c, {}, pathval, cwd).h)
Hash(c) == Tabled(hashcmd(cmds, c, pathval, cwd))
HashR == Tabled(clearcmdentry(cmds))
Define(c) == Tabled(defun(cmds, c))
Undefine(c) == Tabled(unsetfunc(cmds, c))

Acts == {{}, {"nofunc"}, {"nofunc", "altpath"}}

OfVariables ==
    \/ \E n \in Name, v \in Value :
        \/ v \in Values(n) /\ (Assign(n, v) \/ exportcmd(n, v, "EXPORT")
                                \/ localcmd(n, v) \/ pushlocalvars(n, v))
        \/ v \in Values(n) /\ n \in Protectable /\ exportcmd(n, v, "READONLY")
    \/ \E n \in Name : exportcmd(n, None, "EXPORT") \/ localcmd(n, None)
    \/ \E n \in Protectable : exportcmd(n, None, "READONLY")
    \/ \E n \in Unsettable : unsetcmd(n)
    \/ pushlocalvars("PATH", None)
    \/ setcmd \/ LocalDash \/ Return \/ PopLocal \/ PopScope

OfCommands ==
    \/ \E d \in Directory : docd(d)
    \/ \E c \in Command :
        \/ \E act \in Acts : LookUp(c, act)
        \/ typecmd(c) \/ Hash(c) \/ Define(c) \/ Undefine(c)
    \/ HashR

Next == OfVariables \/ OfCommands

Spec == Init /\ [][Next]_vars

-----------------------------------------------------------------------------
(* Properties.                                                             *)

\* No text is freed while the table or a saved variable still points to it:
\* the marks TEXTFIXED that mklocal sets and poplocalvars undoes always tell
\* who must free it.
TextsAreLive == dead = {}

\* Any command run now is taken for what a search of PATH finds now, although
\* the table remembers searches made in other directories and under other
\* values of PATH (find_command, hashcd, changepath, poplocalvars).
Meant(e, path) == IF e.type = "normal" THEN At(path, e.index) ELSE e.type
Functions == {c \in Command : cmds.tab[c].type = "function"}
LookupIsSearch ==
    Running => \A c \in Command, act \in Acts :
        Meant(Taken(c, act).ans, PathFor(act)) = Resolve(Functions, c, act, PathFor(act), cwd)

-----------------------------------------------------------------------------
(* The variables seen as the scopes they implement.                        *)

Shown(flags, val) ==
    [val |-> val, export |-> "EXPORT" \in flags, readonly |-> "READONLY" \in flags]

ShownSaved(l) ==
    IF l.flags = {"UNSET"} THEN Shown({}, None) ELSE Shown(l.flags, l.text.val)

\* The first local of a variable in a scope saved what it was before.
FirstOf(s, n) == Min({j \in DOMAIN s : s[j].name = n})
NamesOf(s) == {s[j].name : j \in DOMAIN s}
Overlay(s, f) == [n \in Name |-> IF n \in NamesOf(s) THEN ShownSaved(s[FirstOf(s, n)]) ELSE f[n]]

\* While a scope is being popped, it counts as popped.
Depth == IF Running THEN Len(stack) ELSE Len(stack) - 1
Popping == IF Running THEN <<>> ELSE Last(stack)

ShownEnv == Overlay(Popping, [n \in Name |-> Shown(vartab[n].flags, vartab[n].text.val)])
ShownScopes ==
    [i \in 1..Depth |->
        [vars |-> [n \in NamesOf(stack[i]) \ {"-"} |-> ShownSaved(stack[i][FirstOf(stack[i], n)])],
         option |-> IF "-" \in NamesOf(stack[i])
                    THEN {stack[i][FirstOf(stack[i], "-")].on} ELSE {}]]
ShownOption ==
    IF "-" \in NamesOf(Popping) THEN Popping[FirstOf(Popping, "-")].on ELSE optlist

Promise == INSTANCE Scopes WITH
    Lasting <- {"PATH"}, env <- ShownEnv, scopes <- ShownScopes, option <- ShownOption

\* Whatever a function assigns, exports, protects or unsets, when it is left
\* its local variables are what they were and the others keep what they got
\* (mklocal, poplocalvars, unwindlocalvars).
ScopesAreUndone == Promise!Spec
=============================================================================
