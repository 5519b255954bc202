----------------------------- MODULE DashEval -----------------------------
(***************************************************************************)
(* The evaluator of dash-debian: evaltree and what it calls (eval.c), the  *)
(* exceptions that cut through it (error.c and the handlers of main.c and  *)
(* trap.c), and the marks by which a command gives back what it pushed:    *)
(* saved descriptors (redir.c), input files (input.c), local variables     *)
(* (var.c).  The C stack is the sequence k of frames; longjmp cuts it back *)
(* to the frame that owns the handler.  evalskip, loopnest and the depth   *)
(* of each list are global registers, as in the code: nothing but the      *)
(* order of the assignments keeps them in step with the stack.             *)
(*                                                                         *)
(* A program is a tree of nodes; commands that do nothing but run have a   *)
(* name and a status.  The children of a subshell or a pipeline run one    *)
(* after another, while the shell waits for them in waitforjob.            *)
(***************************************************************************)
EXTENDS Integers, Sequences, FiniteSets, SequencesExt

CONSTANTS
    Scripts,    \* what is run: options i and e, traps exit and trap, and how
                \* many signals (sigs) arrive meanwhile
    Lines(_)    \* the lines of a script, as trees

VARIABLES
    prog,       \* the script
    ctl,        \* what the evaluator is about to do
    k,          \* the C stack
    reg,        \* the global registers
    parents,    \* the processes waiting for this one, outermost first
    out,        \* the names of the commands run so far
    sigs        \* how many signals have arrived

vars == <<prog, ctl, k, reg, parents, out, sigs>>

Skips == {"none", "break", "cont", "func", "funcdef"}
Exceptions == {"INT", "ERROR", "END", "EXIT"}

Registers ==
    [skip : Skips, count : Nat, nest : Nat, handler : Nat, redirs : Nat,
     locals : Nat, files : Nat, supp : Nat, intp : BOOLEAN, pend : BOOLEAN,
     exc : Exceptions, saved : Int, exit : Nat, root : BOOLEAN,
     exited : BOOLEAN, tick : 0..2]

Init ==
    /\ prog \in Scripts
    /\ k = <<[t |-> "top", rest |-> Lines(prog)]>>
    /\ ctl = [go |-> "next"]
    /\ reg = [skip |-> "none", count |-> 0, nest |-> 0, handler |-> 0,
              redirs |-> 0, locals |-> 0, files |-> 0, supp |-> 0,
              intp |-> FALSE, pend |-> FALSE, exc |-> "INT", saved |-> -1,
              exit |-> 0, root |-> TRUE, exited |-> FALSE, tick |-> 0]
    /\ parents = <<>>
    /\ out = <<>>
    /\ sigs = 0

-----------------------------------------------------------------------------
(* Control.                                                                *)

Eval(n, fl) == [go |-> "eval", n |-> n, fl |-> fl]
Ret(st) == [go |-> "ret", st |-> st]
Tested(fl) == fl \cap {"tested"}
Top == Last(k)
Frame(t) == ctl.go = "ret" /\ Top.t = t
Quiet == UNCHANGED <<prog, parents, out, sigs>>
Step(c, stack, r) == ctl' = c /\ k' = stack /\ reg' = r

\* exraise: interrupts off, then longjmp.
Raised(e, r) == [r EXCEPT !.exc = e, !.supp = @ + 1]
exraise(e, r) == Step([go |-> "throw"], k, Raised(e, r))

\* sh_error raises EXERROR with status 2.
sh_error(r) == exraise("ERROR", [r EXCEPT !.exit = 2])

\* onint: an exception in the interactive root shell, the end of any other.
onint(stack, r) ==
    LET t == Raised("INT", [r EXCEPT !.intp = FALSE, !.exit = 130])
    IN Step(IF r.root THEN [go |-> "throw"] ELSE [go |-> "halt", st |-> 130], stack, t)

\* INTON and FORCEINTON end by taking an interrupt that was held back.
Resume(c, stack, r) ==
    IF r.intp /\ r.supp = 0 THEN onint(stack, r) ELSE Step(c, stack, r)
ForceNothing(c, stack, r) == Resume(c, stack, r)
FORCEINTON(c, stack, r) == Resume(c, stack, [r EXCEPT !.supp = 0])
INTON(c, stack, r) == Resume(c, stack, [r EXCEPT !.supp = @ - 1])

-----------------------------------------------------------------------------
(* Traps.                                                                  *)

Trapping == reg.pend /\ reg.skip = "none"

\* dotrap, called when evaltree begins and when it has a status: the action
\* is a string to evaluate, and its skips are those of the code it interrupts.
dotrap ==
    /\ Trapping
    /\ ctl.go = "eval" \/ Frame("tree")
    /\ LET exit == IF ctl.go = "eval" THEN reg.exit ELSE ctl.st
           status == IF reg.saved < 0 THEN exit ELSE reg.saved
           then == IF ctl.go = "eval" THEN [ctl EXCEPT !.go = "enter"]
                                      ELSE [ctl EXCEPT !.go = "leave"]
       IN Step([go |-> "next"],
               k \o <<[t |-> "trap", status |-> status, last |-> reg.saved,
                       then |-> then],
                      [t |-> "str", rest |-> prog.trap, fl |-> {}, st |-> 0]>>,
               [reg EXCEPT !.pend = FALSE, !.saved = status, !.exit = exit,
                           !.files = @ + 1])
    /\ Quiet

TrapBack ==
    /\ Frame("trap")
    /\ Step(Top.then, Front(k),
            [reg EXCEPT !.saved = Top.last,
                        !.exit = IF reg.skip = "func" THEN @ ELSE Top.status])
    /\ Quiet

\* onsig: a trapped signal is noted for dotrap; SIGINT is raised at once
\* unless interrupts are off, and belongs to the interactive root shell.
Signal ==
    /\ sigs < prog.sigs /\ ctl.go # "halt" /\ sigs' = sigs + 1
    /\ \/ /\ prog.trap # <<>> /\ parents = <<>>
          /\ Step(ctl, k, [reg EXCEPT !.pend = TRUE])
       \/ /\ prog.i /\ parents = <<>>
          /\ IF reg.supp = 0 THEN onint(k, reg)
                             ELSE Step(ctl, k, [reg EXCEPT !.intp = TRUE])
    /\ UNCHANGED <<prog, parents, out>>

\* The same while the shell waits for a child, with interrupts off.
SignalParent ==
    /\ sigs < prog.sigs /\ parents # <<>> /\ sigs' = sigs + 1
    /\ \/ prog.trap # <<>> /\ parents' = [parents EXCEPT ![1].reg.pend = TRUE]
       \/ prog.i /\ parents' = [parents EXCEPT ![1].reg.intp = TRUE]
    /\ UNCHANGED <<prog, ctl, k, reg, out>>

-----------------------------------------------------------------------------
(* evaltree.                                                               *)

Entering == ctl.go = "enter" \/ (ctl.go = "eval" /\ ~Trapping)
Node(t) == Entering /\ ctl.n.t = t
Tree(ce) == [t |-> "tree", fl |-> ctl.fl, ce |-> ce]

Into(frame, n, fl, r) == Step(Eval(n, fl), k \o <<Tree(FALSE), frame>>, r)

\* NNOT, NAND, NOR, NSEMI and NIF evaluate their first part under -e's
\* exemption; ; hands its own on.
Enter ==
    /\ Entering /\ ctl.n.t \in {"not", "and", "or", "seq", "if"}
    /\ Into([t |-> ctl.n.t, n |-> ctl.n, fl |-> ctl.fl], ctl.n.a,
            IF ctl.n.t = "seq" THEN Tested(ctl.fl) ELSE {"tested"}, reg)
    /\ Quiet

Not ==
    /\ Frame("not")
    /\ Step(Ret(IF reg.skip # "none" THEN ctl.st ELSE IF ctl.st = 0 THEN 1 ELSE 0),
            Front(k), reg)
    /\ Quiet

Binary ==
    /\ Frame("and") \/ Frame("or") \/ Frame("seq")
    /\ LET over == \/ reg.skip # "none"
                   \/ Top.t = "and" /\ ctl.st # 0
                   \/ Top.t = "or" /\ ctl.st = 0
       IN Step(IF over THEN ctl ELSE Eval(Top.n.b, Top.fl), Front(k), reg)
    /\ Quiet

If ==
    /\ Frame("if")
    /\ Step(IF reg.skip # "none" THEN ctl
            ELSE IF ctl.st = 0 THEN Eval(Top.n.b, Top.fl) ELSE Ret(0),
            Front(k), reg)
    /\ Quiet

\* The end of evaltree: the status is recorded, traps are run, and -e or the
\* order to exit raises EXEND.
Leave ==
    /\ ctl.go = "leave" \/ (Frame("tree") /\ ~Trapping)
    /\ LET r == IF ctl.go = "leave" THEN reg ELSE [reg EXCEPT !.exit = ctl.st]
           fails == prog.e /\ Top.ce /\ "tested" \notin Top.fl /\ ctl.st # 0
       IN IF fails \/ "exit" \in Top.fl THEN exraise("END", r)
                                        ELSE Step(Ret(r.exit), Front(k), r)
    /\ Quiet

-----------------------------------------------------------------------------
(* Loops.  skiploop says what a loop does about evalskip: nothing, go on   *)
(* with the next turn, or end - for itself or for a loop further out.      *)

OneLevelMore == reg.skip \in {"break", "cont"} /\ reg.count <= 0
LastLevel == reg.skip \in {"break", "cont"} /\ reg.count <= 1
Skipping == IF reg.skip = "cont" /\ ~LastLevel THEN "break" ELSE reg.skip
skiploop ==
    IF reg.skip \notin {"break", "cont"} THEN reg
    ELSE [reg EXCEPT !.count = @ - 1, !.skip = IF LastLevel THEN "none" ELSE @]

EnterLoop ==
    /\ Entering /\ ctl.n.t \in {"while", "for"}
    /\ LET r == [reg EXCEPT !.nest = @ + 1]
       IN IF ctl.n.t = "while"
          THEN Into([t |-> "while", n |-> ctl.n, fl |-> Tested(ctl.fl), st |-> 0,
                     part |-> "test"], ctl.n.a, {"tested"}, r)
          ELSE Into([t |-> "for", n |-> ctl.n, fl |-> Tested(ctl.fl), left |-> 1],
                    ctl.n.a, Tested(ctl.fl), r)
    /\ Quiet

LoopOver(st, r) == Step(Ret(st), Front(k), [r EXCEPT !.nest = @ - 1])

evalloop ==
    /\ Frame("while")
    /\ LET again(st) == Append(Front(k), [Top EXCEPT !.part = "test", !.st = st])
           st == IF Top.part = "body" \/ Skipping = "func" THEN ctl.st ELSE Top.st
       IN IF Skipping \in {"break", "func", "funcdef"} THEN LoopOver(st, skiploop)
          ELSE IF Top.part = "test" /\ Skipping = "none"
          THEN IF ctl.st # 0 THEN LoopOver(st, skiploop)
               ELSE Step(Eval(Top.n.b, Top.fl),
                         Append(Front(k), [Top EXCEPT !.part = "body"]), skiploop)
          ELSE Step(Eval(Top.n.a, {"tested"}), again(st), skiploop)
    /\ Quiet

\* for, over a list of two words.
evalfor ==
    /\ Frame("for")
    /\ IF Skipping \in {"break", "func", "funcdef"} \/ Top.left = 0
       THEN LoopOver(ctl.st, skiploop)
       ELSE Step(Eval(Top.n.a, Top.fl),
                 Append(Front(k), [Top EXCEPT !.left = @ - 1]), skiploop)
    /\ Quiet

-----------------------------------------------------------------------------
(* Redirected compound commands, and child processes.                      *)

\* pushredir, then redirectsafe: a redirection that fails is a status of 2.
EnterRedir ==
    /\ Node("redir")
    /\ IF ctl.n.redir = "bad"
       THEN Step(Ret(2), Append(k, Tree(TRUE)), [reg EXCEPT !.exit = 2])
       ELSE Into([t |-> "redir"], ctl.n.a, Tested(ctl.fl),
                 [reg EXCEPT !.redirs = @ + 1])
    /\ Quiet

popredir ==
    /\ Frame("redir")
    /\ Step(ctl, Front(k), [reg EXCEPT !.redirs = @ - 1])
    /\ Quiet

have_traps == reg.root /\ prog.trap \o prog.exit # <<>>

\* forkreset, the hook of a new subshell: no input files, no saved
\* descriptors, no traps.  It leaves the handler alone.
forkreset(r) == [r EXCEPT !.files = 0, !.redirs = 0, !.pend = FALSE]

\* forkshell, with interrupts off: the child turns them on, evaluates n and
\* exits, on a copy of the stack.
Child(n, fl, stack, r) ==
    INTON(Eval(n, fl \cup {"exit"}), stack, [forkreset(r) EXCEPT !.root = FALSE])

\* evalsubshell and evalpipe.  A subshell that is the last thing a process
\* does needs no process of its own.
EnterFork ==
    /\ Node("fork")
    /\ IF Len(ctl.n.list) = 1 /\ "exit" \in ctl.fl /\ ~have_traps
       THEN /\ Step(Eval(ctl.n.list[1], ctl.fl), Append(k, Tree(TRUE)), forkreset(reg))
            /\ Quiet
       ELSE /\ LET stack == k \o <<Tree(TRUE), [t |-> "fork", fl |-> ctl.fl,
                                                rest |-> Tail(ctl.n.list)]>>
                   r == [reg EXCEPT !.supp = @ + 1]
               IN /\ parents' = Append(parents, [k |-> stack, reg |-> r])
                  /\ Child(Head(ctl.n.list), ctl.fl, stack, r)
            /\ UNCHANGED <<prog, out, sigs>>

\* The child has exited: the shell starts the next process of the pipeline,
\* or has waited for the last one.
ChildGone ==
    /\ ctl.go = "halt" /\ parents # <<>>
    /\ LET p == Last(parents)
           f == Last(p.k)
           stack == Append(Front(p.k), [f EXCEPT !.rest = Tail(@)])
       IN IF f.rest # <<>>
          THEN /\ parents' = [parents EXCEPT ![Len(parents)].k = stack]
               /\ Child(Head(f.rest), f.fl, stack, p.reg)
          ELSE /\ parents' = Front(parents)
               /\ INTON(Ret(ctl.st), Front(p.k), p.reg)
    /\ UNCHANGED <<prog, out, sigs>>

-----------------------------------------------------------------------------
(* Simple commands.                                                        *)

SpecialBuiltins == {"special", "break", "cont", "return", "exit", "eval", "dot"}

\* spclbltin: TRUE when an error in the command is the shell's.
Special(n) == n.c \in SpecialBuiltins

\* What the command has pushed when its part of the switch begins.
Pushed(n) == [reg EXCEPT !.redirs = @ + IF n.redir = "none" THEN 0 ELSE 1,
                         !.locals = @ + IF Special(n) THEN 0 ELSE 1]

Mark(n) == [t |-> "cmd", n |-> n, redirs |-> reg.redirs,
            locals |-> reg.locals, files |-> reg.files]

\* An expansion fails before anything is pushed.
CmdExpand ==
    /\ Node("cmd") /\ ctl.n.c = "expand"
    /\ sh_error(reg)
    /\ Quiet

\* A redirection that fails is the shell's error for a special builtin;
\* another command has the status and gives back what it pushed.  A command
\* that is not found has status 127.
CmdFails ==
    /\ Node("cmd") /\ ctl.n.c # "expand"
    /\ ctl.n.redir = "bad" \/ ctl.n.c = "missing"
    /\ LET st == IF ctl.n.redir = "bad" THEN 2 ELSE 127
       IN IF Special(ctl.n) THEN sh_error(Pushed(ctl.n))
          ELSE Step(Ret(st), Append(k, Tree(TRUE)), [reg EXCEPT !.exit = st])
    /\ Quiet

Runs(c) == Node("cmd") /\ ctl.n.c = c /\ ctl.n.redir # "bad"

\* An external command: vforkexec, waitforjob, FORCEINTON.
CmdRun ==
    /\ Runs("run")
    /\ out' = Append(out, ctl.n.name)
    /\ FORCEINTON(Ret(ctl.n.st), Append(k, Tree(TRUE)), reg)
    /\ UNCHANGED <<prog, parents, sigs>>

\* A builtin that returns: its status is the status, and what was pushed is
\* given back.  tick stands for a loop test that holds twice.
Returns(st, r) == FORCEINTON(Ret(st), Append(k, Tree(TRUE)), [r EXCEPT !.exit = st])

CmdTick ==
    /\ Runs("tick")
    /\ Returns(IF reg.tick = 2 THEN 1 ELSE 0,
               [reg EXCEPT !.tick = IF @ = 2 THEN 2 ELSE @ + 1])
    /\ Quiet

\* evalbltin and the test after it: the error of a regular builtin ends the
\* builtin only, that of a special one goes on to the next handler.
CmdBltinError ==
    /\ Runs("regular") \/ Runs("special")
    /\ IF Special(ctl.n) THEN sh_error(Pushed(ctl.n)) ELSE Returns(2, reg)
    /\ Quiet

\* breakcmd: the count is cut down to the loops there are.
breakcmd ==
    /\ Runs("break") \/ Runs("cont")
    /\ LET n == IF ctl.n.arg > reg.nest THEN reg.nest ELSE ctl.n.arg
       IN Returns(0, IF n = 0 THEN reg
                     ELSE [reg EXCEPT !.skip = ctl.n.c, !.count = n])
    /\ Quiet

returncmd ==
    /\ Runs("return")
    /\ IF ctl.n.arg >= 0 THEN Returns(ctl.n.arg, [reg EXCEPT !.skip = "func"])
                         ELSE Returns(reg.exit, [reg EXCEPT !.skip = "funcdef"])
    /\ Quiet

exitcmd ==
    /\ Runs("exit")
    /\ exraise("EXIT", IF ctl.n.arg >= 0
                       THEN [Pushed(ctl.n) EXCEPT !.saved = ctl.n.arg]
                       ELSE Pushed(ctl.n))
    /\ Quiet

\* eval, ., and command eval: evalbltin puts up a handler of its own, and
\* evalstring or cmdloop(0) reads the text as an input file of its own.
CmdText ==
    /\ Runs("eval") \/ Runs("ceval") \/ Runs("dot")
    /\ Step([go |-> "next"],
            k \o <<Tree(TRUE), Mark(ctl.n), [t |-> "bltin", handler |-> reg.handler],
                   [t |-> IF ctl.n.c = "dot" THEN "file" ELSE "str", rest |-> ctl.n.b,
                    fl |-> IF ctl.n.c = "dot" THEN {} ELSE Tested(ctl.fl), st |-> 0]>>,
            [Pushed(ctl.n) EXCEPT !.handler = Len(k) + 3, !.files = @ + 1])
    /\ Quiet

\* evalfun: a handler, and a loop count of its own.
InFunction(r) == [r EXCEPT !.nest = 0]
evalfun ==
    /\ Runs("fun")
    /\ Step(Eval(ctl.n.b[1], Tested(ctl.fl)),
            k \o <<Tree(TRUE), Mark(ctl.n),
                   [t |-> "fun", handler |-> reg.handler, nest |-> reg.nest]>>,
            InFunction([Pushed(ctl.n) EXCEPT !.handler = Len(k) + 3]))
    /\ Quiet

NoReturn(r) == IF r.skip \in {"func", "funcdef"} THEN [r EXCEPT !.skip = "none"] ELSE r

funcdone(f, r) == NoReturn([r EXCEPT !.handler = f.handler, !.nest = f.nest])

FunBack ==
    /\ Frame("fun")
    /\ Step(Ret(reg.exit), Front(k), funcdone(Top, reg))
    /\ Quiet

BltinBack ==
    /\ Frame("bltin")
    /\ Step(ctl, Front(k), [reg EXCEPT !.handler = Top.handler, !.exit = ctl.st])
    /\ Quiet

\* The end of evalcommand: FORCEINTON, then popredir and the three unwinds.
UnwoundNoFiles(r, f) == [r EXCEPT !.redirs = f.redirs, !.locals = f.locals]
Unwound(r, f) == [r EXCEPT !.redirs = f.redirs, !.locals = f.locals, !.files = f.files]
CmdBack ==
    /\ Frame("cmd")
    /\ FORCEINTON(ctl, Front(k), Unwound(reg, Top))
    /\ Quiet

-----------------------------------------------------------------------------
(* Input: evalstring, cmdloop(0) and cmdloop(1).                           *)

WithStatus(st) == Append(Front(k), [Top EXCEPT !.st = st])

\* The next command of the text, or its end and popfile.
NextCommand ==
    /\ ctl.go = "next" /\ Top.t \in {"str", "file"}
    /\ IF Top.rest = <<>>
       THEN Step(Ret(Top.st), Front(k), [reg EXCEPT !.files = @ - 1])
       ELSE Step(Eval(Head(Top.rest), Top.fl),
                 Append(Front(k), [Top EXCEPT !.rest = Tail(@)]), reg)
    /\ Quiet

\* A skip ends the text; a file that is read with . also ends a return.
TextBack ==
    /\ Frame("str") \/ Frame("file")
    /\ IF reg.skip = "none" THEN Step([go |-> "next"], WithStatus(ctl.st), reg)
       ELSE LET r == [reg EXCEPT !.files = @ - 1]
            IN Step(ctl, Front(k), IF Top.t = "file" THEN NoReturn(r) ELSE r)
    /\ Quiet

\* exitshell: the EXIT trap runs once, under a handler that is this frame.
exitshell(rest, r) ==
    IF prog.exit # <<>> /\ r.root /\ ~r.exited
    THEN Step([go |-> "next"],
              <<[t |-> "top", rest |-> rest], [t |-> "exit"],
                [t |-> "str", rest |-> prog.exit, fl |-> {}, st |-> 0]>>,
              [r EXCEPT !.saved = r.exit, !.exited = TRUE, !.handler = 2,
                        !.skip = "none", !.files = @ + 1])
    ELSE Step([go |-> "halt", st |-> r.exit], <<>>, r)

\* cmdloop(1): the shell ends with its input, or when a skip is left over.
TopLevel ==
    /\ ctl.go = "next" \/ Frame("top")
    /\ Top.t = "top"
    /\ \/ ctl.go = "next" /\ Top.rest = <<>> /\ exitshell(<<>>, reg)
       \/ /\ ctl.go = "next" /\ Top.rest # <<>>
          /\ Step(Eval(Head(Top.rest), {}), <<[Top EXCEPT !.rest = Tail(@)]>>, reg)
       \/ /\ ctl.go = "ret"
          /\ IF reg.skip = "none" THEN Step([go |-> "next"], k, reg)
             ELSE exitshell(Top.rest, NoReturn(reg))
    /\ Quiet

-----------------------------------------------------------------------------
(* Handlers.  A throw cuts the stack back to the frame of the handler.     *)

exitreset(r) ==
    [r EXCEPT !.exit = IF r.saved >= 0 /\ (r.exc = "EXIT" \/ r.skip = "funcdef")
                       THEN r.saved ELSE @,
              !.saved = -1, !.skip = "none", !.nest = 0, !.redirs = 0]

\* A regular builtin ends with its error; anything else goes on up.
Recovers(n) == reg.exc = "ERROR" /\ ~Special(n)

CatchBltin ==
    /\ ctl.go = "throw" /\ reg.handler # 0 /\ k[reg.handler].t = "bltin"
    /\ LET stack == SubSeq(k, 1, reg.handler - 1)
           r == [reg EXCEPT !.handler = k[reg.handler].handler]
       IN IF Recovers(Last(stack).n)
          THEN Step(Ret(reg.exit), stack, r)
          ELSE Step(ctl, stack, r)
    /\ Quiet

CatchFun ==
    /\ ctl.go = "throw" /\ reg.handler # 0 /\ k[reg.handler].t = "fun"
    /\ Step(ctl, SubSeq(k, 1, reg.handler - 1), funcdone(k[reg.handler], reg))
    /\ Quiet

\* main: the shell ends, or goes back to the prompt with everything reset.
CatchMain ==
    /\ ctl.go = "throw" /\ reg.handler = 0
    /\ LET r == exitreset(reg)
       IN IF reg.exc \in {"END", "EXIT"} \/ ~prog.i \/ ~reg.root
          THEN exitshell(<<>>, r)
          ELSE FORCEINTON([go |-> "next"], <<k[1]>>, [r EXCEPT !.files = 0, !.locals = 0])
    /\ Quiet

\* The end of exitshell: the EXIT trap has ended, or raised an exception.
ExitDone ==
    /\ Frame("exit") \/ (ctl.go = "throw" /\ reg.handler # 0 /\ k[reg.handler].t = "exit")
    /\ LET r == exitreset(IF ctl.go = "ret" THEN [reg EXCEPT !.skip = "funcdef"] ELSE reg)
       IN Step([go |-> "halt", st |-> r.exit], <<>>, r)
    /\ Quiet

Construct == Enter \/ Not \/ Binary \/ If \/ Leave \/ EnterLoop \/ evalloop \/ evalfor
             \/ EnterRedir \/ popredir \/ EnterFork \/ ChildGone
Command == CmdExpand \/ CmdFails \/ CmdRun \/ CmdTick \/ CmdBltinError \/ breakcmd
           \/ returncmd \/ exitcmd \/ CmdText \/ evalfun \/ FunBack \/ BltinBack \/ CmdBack
Input == NextCommand \/ TextBack \/ TopLevel
Catch == CatchBltin \/ CatchFun \/ CatchMain \/ ExitDone
Trap == dotrap \/ TrapBack \/ Signal \/ SignalParent

Next == Construct \/ Command \/ Input \/ Catch \/ Trap

Spec == Init /\ [][Next]_vars
-----------------------------------------------------------------------------
(* Properties.                                                             *)

\* The registers keep their types, and the control is one of the six.
TypeOK ==
    /\ reg \in Registers
    /\ ctl.go \in {"eval", "enter", "ret", "leave", "next", "throw", "halt"}
    /\ \A i \in DOMAIN parents : parents[i].reg \in Registers
    /\ sigs \in 0..prog.sigs

Frames(T, from) == {i \in from..Len(k) : k[i].t \in T}
Base == IF parents = <<>> THEN 1 ELSE Len(Last(parents).k) + 1
Highest(S) == IF S = {} THEN 0 ELSE CHOOSE i \in S : \A j \in S : j <= i

\* The handler is the innermost frame that has one, the input files, saved
\* descriptors and local variables are those of commands that have not ended,
\* loopnest counts the loops of the current function, and a status is saved
\* exactly while a trap runs.
RegistersMatch ==
    ctl.go \in {"eval", "next"} /\ ~reg.exited =>
        /\ reg.handler = Highest(Frames({"bltin", "fun"}, 1))
        /\ reg.files = Cardinality(Frames({"str", "file"}, Base))
        /\ reg.redirs = Cardinality(Frames({"redir"}, Base))
              + Cardinality({i \in Frames({"cmd"}, Base) : k[i].n.redir # "none"})
        /\ reg.locals = Cardinality({i \in Frames({"cmd"}, 1) : ~Special(k[i].n)})
        /\ reg.nest = Cardinality(Frames({"while", "for"}, 1 + Highest(Frames({"fun"}, 1))))
        /\ (reg.saved = -1) <=> (Frames({"trap"}, 1) = {})

\* A break or continue that is on its way has a loop to end: it never leaves
\* the function it was in, and never reaches the top level to end the shell.
SkipHasTarget ==
    reg.skip \in {"break", "cont"} /\ ctl.go \notin {"throw", "halt"} =>
        reg.count \in 1..Cardinality(
            Frames({"while", "for"}, 1 + Highest(Frames({"fun"}, 1))))

\* Whatever was thrown, caught, skipped or forked before, the registers say
\* what the stack says, and what is skipped has a place to end.
FramesMatch == RegistersMatch /\ SkipHasTarget

\* The scripts for which the registers can be expected to match.  What the
\* fields of a node hold, whose parts are in the set T, and these parts:
Texts == {"eval", "ceval", "dot"}
IsNode(n, T) ==
    /\ n.t \in {"not", "and", "or", "seq", "if", "while", "for", "redir", "fork", "cmd"}
    /\ n.t \notin {"fork", "cmd"} => n.a \in T
    /\ n.t \in {"and", "or", "seq", "if", "while"} => n.b \in T
    /\ n.t = "fork" => n.list \in Seq(T) /\ n.list # <<>>
    /\ n.t = "cmd" =>
        /\ n.c \in Texts \cup {"fun"} => n.b \in Seq(T)
        /\ n.c = "fun" => n.b # <<>>
        /\ n.c = "run" => n.st \in Nat
        /\ n.c \in {"return", "exit"} => n.arg \in Int
        /\ n.c \in {"break", "cont"} => n.arg \in Nat \ {0}
Parts(n) ==
    CASE n.t \in {"and", "or", "seq", "if", "while"} -> {n.a, n.b}
      [] n.t \in {"not", "for", "redir"} -> {n.a}
      [] n.t = "fork" -> ToSet(n.list)
      [] n.t = "cmd" -> IF n.c \in Texts \cup {"fun"} THEN ToSet(n.b) ELSE {}
Closed(C) == \A n \in C : Parts(n) \subseteq C

Raises(n) ==
    n.t = "cmd" /\ (n.c \in {"expand", "special"} \/ (Special(n) /\ n.redir = "bad"))
Breaks(n) == n.t = "cmd" /\ n.c \in {"break", "cont"}
CatchesErrors(n) == n.t = "cmd" /\ n.c = "ceval"

\* command eval catches an error without giving back what a loop, a child or a
\* trap between it and the error has changed, so that none of these may raise
\* one; and a trap may not break out of the command it comes before.  The nodes
\* of the scripts are in T, those of the texts of command eval in R, those of
\* loops and children in there in E, and those of traps in B.
Tame(T, R, E, B) ==
    /\ \A n \in T : IsNode(n, T)
    /\ \A s \in Scripts : {Lines(s), s.trap, s.exit} \subseteq Seq(T)
    /\ R \subseteq T /\ E \subseteq R /\ B \subseteq T
    /\ Closed(R) /\ Closed(E) /\ Closed(B)
    /\ \A n \in T : CatchesErrors(n) => ToSet(n.b) \subseteq R
    /\ \A n \in R : n.t \in {"while", "for", "fork"} => n \in E
    /\ \A n \in E : ~Raises(n)
    /\ \A n \in B : ~Breaks(n)
    /\ \A s \in Scripts : ToSet(s.trap) \subseteq B
    /\ \/ \A s \in Scripts : ToSet(s.trap) \subseteq E
       \/ \A n \in T : ~CatchesErrors(n)

\* Interrupts are on whenever a command begins (before the shell is on its
\* way out): no way out of a command leaves them off for good.
InterruptsOn == ctl.go = "eval" /\ ~reg.exited => reg.supp = 0

=============================================================================
