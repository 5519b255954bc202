------------------------------- MODULE Scopes -------------------------------
(***************************************************************************)
(* What the variables of a shell promise: a function gives back, when it   *)
(* is left by whatever way, exactly what the variables it made local were  *)
(* before, and nothing else.                                               *)
(***************************************************************************)
EXTENDS Naturals, Sequences

CONSTANTS
    Name,       \* the variables
    Value,      \* what they may be set to
    None,       \* the value of a variable that is not set
    Lasting,    \* the variables the shell itself owns
    AllExport   \* option a is on: what is assigned is exported

VARIABLES
    env,        \* what each variable is
    scopes,     \* per function being run, its local variables as they were
    option      \* an option of set, on or off

vars == <<env, scopes, option>>

Variable == [val : Value \cup {None}, export : BOOLEAN, readonly : BOOLEAN]
Absent == [val |-> None, export |-> FALSE, readonly |-> FALSE]

\* A variable in use by some scope, or by the shell: unset keeps its export
\* mark.
Pinned(n) == n \in Lasting \/ \E i \in DOMAIN scopes : n \in DOMAIN scopes[i].vars

Given(n, v, mark) ==
    [val |-> v, export |-> mark \/ AllExport \/ env[n].export, readonly |-> FALSE]

\* n is given some value.
Sets(n, mark) ==
    /\ ~env[n].readonly
    /\ \E v \in {env'[n].val} : v \in Value /\ env' = [env EXCEPT ![n] = Given(n, v, mark)]

Assign(n) ==
    /\ UNCHANGED <<scopes, option>>
    /\ Sets(n, FALSE) \/ Sets(n, TRUE)

\* What cd does.
AssignBoth(n, m) ==
    /\ UNCHANGED <<scopes, option>>
    /\ ~env[n].readonly /\ ~env[m].readonly
    /\ {env'[n].val, env'[m].val} \subseteq Value
    /\ env' = [env EXCEPT ![n] = Given(n, env'[n].val, TRUE),
                          ![m] = Given(m, env'[m].val, TRUE)]

Export(n) ==
    /\ UNCHANGED <<scopes, option>>
    /\ env' = [env EXCEPT ![n].export = TRUE]

Protect(n) ==
    /\ UNCHANGED <<scopes, option>>
    /\ env' = [env EXCEPT ![n].readonly = TRUE]

ProtectAs(n) ==
    /\ UNCHANGED <<scopes, option>>
    /\ ~env[n].readonly
    /\ env'[n].val \in Value
    /\ env' = [env EXCEPT ![n] = [Given(n, env'[n].val, FALSE) EXCEPT !.readonly = TRUE]]

Unset(n) ==
    /\ UNCHANGED <<scopes, option>>
    /\ ~env[n].readonly
    /\ env' = [env EXCEPT ![n] =
                [Absent EXCEPT !.export = Pinned(n) /\ env[n].export]]

SetOption ==
    /\ option' = ~option
    /\ UNCHANGED <<env, scopes>>

Saving(s, n) ==     \* only what n was at the first local of the function counts
    [s EXCEPT !.vars = [m \in DOMAIN s.vars \cup {n} |->
                            IF m \in DOMAIN s.vars THEN s.vars[m] ELSE env[m]]]
Bare == [vars |-> <<>>, option |-> {}]
Inner == scopes[Len(scopes)]
Innermost(s) == [scopes EXCEPT ![Len(scopes)] = s]

\* A function begins, or a command with an assignment in front of it.
Enter ==
    /\ UNCHANGED option
    /\ \/ scopes' = Append(scopes, Bare) /\ UNCHANGED env
       \/ \E n \in Name : scopes' = Append(scopes, Saving(Bare, n)) /\ Sets(n, TRUE)

Local(n) ==
    /\ UNCHANGED option
    /\ scopes # <<>>
    /\ scopes' = Innermost(Saving(Inner, n))
    /\ UNCHANGED env \/ Sets(n, FALSE)

LocalOptions ==
    /\ UNCHANGED <<env, option>>
    /\ scopes # <<>>
    /\ scopes' = Innermost([Inner EXCEPT !.option = IF @ = {} THEN {option} ELSE @])

\* The function returns, or an error takes the shell out of it.
Leave ==
    /\ scopes # <<>>
    /\ scopes' = SubSeq(scopes, 1, Len(scopes) - 1)
    /\ env' = [n \in Name |-> IF n \in DOMAIN Inner.vars THEN Inner.vars[n] ELSE env[n]]
    /\ option' = IF Inner.option = {} THEN option ELSE TRUE \in Inner.option

Init ==
    /\ env \in [Name -> Variable]
    /\ scopes = <<>>
    /\ option = FALSE

Next ==
    \/ \E n \in Name :
        Assign(n) \/ Export(n) \/ Protect(n) \/ ProtectAs(n) \/ Unset(n) \/ Local(n)
    \/ \E n, m \in Name : n # m /\ AssignBoth(n, m)
    \/ Enter \/ SetOption \/ LocalOptions \/ Leave

Spec == Init /\ [][Next]_vars
=============================================================================
