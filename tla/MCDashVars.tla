----------------------------- MODULE MCDashVars -----------------------------
(* Instances of DashVars for TLC.  A behaviour belongs to one of two       *)
(* families, so that the two ways in which the tables grow do not multiply: *)
(* functions that treat one variable in every way, or functions that treat *)
(* PATH and OLDPWD while commands are looked up and directories change.    *)
EXTENDS DashVars

VARIABLE family
mcvars == <<vars, family>>

MCEntries(v) ==
    CASE v = "near" -> <<".", "/bin">>
      [] v = "far" -> <<"/bin", "%builtin", ".">>
      [] OTHER -> <<>>

\* ls is in /bin and in the directory /e, the builtin echo also is a file.
MCHas(d, w, c) ==
    \/ d = "/bin" /\ c = "ls"
    \/ d = "." /\ w = "/e"

MCValues(n) ==
    CASE n = "PATH" -> {"near", "far"}
      [] n = "x" -> {"/d"}
      [] OTHER -> {}

Scoping ==
    \/ \E v \in MCValues("x") :
        \/ Assign("x", v) \/ localcmd("x", v) \/ pushlocalvars("x", v)
        \/ "x" \in Protectable /\ exportcmd("x", v, "READONLY")
    \/ localcmd("x", None) \/ pushlocalvars("x", None)
    \/ exportcmd("x", None, "EXPORT") \/ unsetcmd("x")
    \/ "x" \in Protectable /\ exportcmd("x", None, "READONLY")
    \/ setcmd \/ LocalDash \/ Return \/ PopLocal \/ PopScope

Searching ==
    \/ stack = <<>> /\ \E v \in MCValues("PATH") \cup {None} : pushlocalvars("PATH", v)
    \/ \E v \in MCValues("PATH") : Assign("PATH", v)
    \/ localcmd("PATH", None) \/ localcmd("OLDPWD", None)
    \/ "OLDPWD" \in Protectable /\ exportcmd("OLDPWD", None, "READONLY")
    \/ Return \/ PopLocal \/ PopScope
    \/ \E d \in Directory : docd(d)
    \/ \E c \in Command, act \in Acts : LookUp(c, act)
    \/ typecmd("ls") \/ Hash("echo") \/ HashR \/ Define("ls") \/ Undefine("ls")

MCInit == Init /\ family \in {"scoping", "searching"}
MCNext ==
    /\ UNCHANGED family
    /\ IF family = "scoping" THEN Scoping ELSE Searching
MCSpec == MCInit /\ [][MCNext]_mcvars
=============================================================================
