# A TLA+ model of cpp-shell

This directory holds TLA+ modules that model the two shells of this repository, TLC configurations
that check them on small instances, and TLAPS proofs of the most important properties. `src/dash-cpp` is a
rewrite of the Debian shell *dash* in C++17; `src/dash-debian` is the C source of dash, the reference
the rewrite is measured by, from which it has taken over parts. All paths below are relative to the root of the repository.

## 1. The system

### dash-cpp

| component | state | operations | interacts with |
|---|---|---|---|
| **Shell** (`src/core/shell.cpp`) | `exit_requested_`, `interactive_`, `received_sigint_`, `received_sigchld_`, the signal mask | `runInteractive`, `runScript`, `signalHandler`, `executeBackground`, `exit` | everything; is driven by signals and by standard input |
| **Input** (`src/core/input.cpp`) | a stack of sources, `eof_` of each | `readLine`, `pushFile`, `pushString`, `popFile` | `std::getline` on fd 0, which a signal can interrupt |
| **Lexer, Parser** (`src/core/lexer.cpp`, `parser.cpp`) | position, a queue of at most one token | `nextToken`, `parseCommand` | Input; Parser builds the nodes of `node.cpp` |
| **Executor** (`src/core/executor.cpp`) | `last_status_`, the descriptors of the process | `execute` over the tree of nodes: simple commands, pipes, lists, `if`, `for`, `while`, `case`, subshells, redirections | forks, waits for children, calls the built-ins |
| **Job table** (`src/job/job_control.cpp`) | `jobs_`, ids, per job its processes, status and `notified_` | `addJob`, `updateStatus`, `showJobs`, `cleanupJobs`, `waitForJob`, `putJobIn{Fore,Back}ground` | the kernel through `waitpid` and `kill`; `jobs`, `fg`, `bg`, `wait`, `exit`; the prompt |
| **Background launcher** (`src/job/bg_job_adapter.cpp`) | the disposition of SIGCHLD, a pipe, three processes | `runInBackground` | Shell (`executeBackground`), Job table |
| **Variables** (`src/variable/variable_manager.cpp`) | variables with flags, the environment | `set`, `unset`, `exportVar`, `setReadOnly`, `expand` | Executor, assignments |
| **Built-ins** (`src/builtins/`) | none of their own | `cd`, `echo`, `pwd`, `jobs`, `fg`, `bg`, `exit` | Job table, Shell |
| **C job table** (`src/job/bg_job_control.c`) | a table of slots taken over from dash | `setjobctl`, `makejob`, `forkchild_bg` | only its effect on signals reaches the shell |

`SignalHandler`, `Expand`, `Arithmetic`, `AliasManager`, `Output` and `History` are
compiled but nothing reached from `main` uses them; `wait` and `kill` are
implemented but not registered with the executor.

### dash-debian

| component | state | operations | interacts with |
|---|---|---|---|
| **Evaluation** (`eval.c`, `main.c`) | the C stack, `evalskip`, `loopnest`, `exitstatus` | `evaltree` and one function for each kind of node; `break`, `return`, `eval`, `.`, `exec` | everything below |
| **Exceptions and traps** (`error.c`, `trap.c`) | `handler`, `suppressint`, `intpending`, `pending_sig`, `savestatus` | `exraise`, `onint`, `onsig`, `dotrap`, `exitshell` | cut through the evaluation by `longjmp` |
| **Jobs** (`jobs.c`) | `jobtab`, the list behind `curjob`, `jobctl`, the terminal | `makejob`, `forkshell`, `waitproc`, `dowait`, `waitcmd`, `fgcmd`, `bgcmd` | `wait3`, SIGCHLD, the process groups |
| **Input, aliases, parser** (`input.c`, `alias.c`, `parser.c`) | sources with pushed strings, the alias table, the token pushed back, pending here-documents | `pgetc`, `pushstring`, `readtoken`, `list`, `command`, `parseheredoc` | yields the trees that evaluation walks |
| **Expansion** (`expand.c`, `arith_yacc.c`) | the stack block the text grows in, the regions to be split | `expandarg`, `evalvar`, `ifsbreakup`, `expandmeta`, `arith` | variables, the file system, commands |
| **Variables** (`var.c`, `cd.c`) | `vartab`, `localvar_stack`, `optlist`, `curdir` | `setvareq`, `unsetvar`, `mklocal`, `poplocalvars`, `docd` | PATH clears the table of commands |
| **Table of commands** (`exec.c`) | `cmdtable`, `builtinloc` | `find_command`, `hashcd`, `changepath`, `defun` | PATH, the current directory |
| **Redirections** (`redir.c`) | `redirlist`, `closed_redirs`, the descriptors | `redirect`, `popredir`, `savefd` | evaluation pushes and pops |
| **Options and built-ins** (`options.c`, `bltin/`) | `optlist`, `shellparam`, the place of `getopts` | `procargs`, `setcmd`, `getopts`, `nextopt`, `test`, `printf`, `echo` | variables |

`jobs.c` and `redir.c` of dash are what `bg_job_control.c` and `executor.cpp` of dash-cpp were written after.

### What is hard in this code

* dash-cpp never sees a process, only what `waitpid(WNOHANG)` and `kill(pid, 0)` answer
  at one moment. Three loops (`updateStatus`, `showJobs`, `waitForJob`) ask at different
  moments, and processes end, stop and have their numbers reused in between.
* A background command is forked twice so that `init` becomes its parent. Three processes, a pipe
  and the disposition of SIGCHLD have to work together, and any step may fail or be
  interrupted by Ctrl-C: no handler is installed with `SA_RESTART`.
* `std::getline` fails when a signal interrupts the read, and the loop takes a failed read for the end of
  the input. What keeps the shell alive is that SIGCHLD cannot arrive during the read; that
  depends on the mask, on the double fork and on every foreground child having been waited for.
* Redirections are applied inside the shell's own process for built-ins and must be undone on every path,
  with copies that take the lowest free descriptors.
* The tree-walking executor of dash-cpp turns exceptions into statuses at every node, and children of a pipe are copies of
  the whole shell. A pipeline is three or more processes that hold ends of several pipes; who closes what
  and when decides whether end of file and SIGPIPE arrive at all.
* dash is written around `longjmp`: one exception leaves any number of commands, and global registers
  (`handler`, `loopnest`, `evalskip`, `savestatus`, the stacks of descriptors, files and local variables) are kept in step
  with the C stack by nothing but the order of assignments.
* dash waits with a non-blocking `wait3` and `sigsuspend`; a signal between the two must not be lost, and
  any child may be the one reported.
* Its words carry their structure as control characters in a text, and what is to be split as a list of
  offsets into it; nested substitutions move, trim and overwrite that text.
* Here-documents and aliases change the input under the parser's feet.
* Several tables cache what another one says: the table of commands PATH and the directory, `closed_redirs` the descriptors,
  the environment of dash-cpp its exported variables.

PROJECT.json lists these hazards one by one, each with its line and the properties that cover it.

### What makes each component correct

* Job table: a process is held to be over only when it is; every process that exists is listed;
  a job leaves the table only after the user was told; ids are not reused; `exit` is granted only when
  nothing is left; a job that is over is eventually forgotten.
* Launcher: whatever fails, the shell's handlers and descriptors are restored; the command is listed
  exactly if it was started; no first child is left behind; the prompt comes back.
* Loop: it ends only on request; nothing is left running at the prompt; the mask is that of
  the program; a command that ends gives the prompt back.
* Redirections, of both shells: the command sees what it asked for, the shell gets its own descriptors back.
* A line: what the lexer, the parser and the executor make of it is what it says, as a whole and in its order.
* Pipes: a stream ends only when its writers are gone, nothing is left over, the pipeline ends.
* Jobs of dash: statuses belong to the processes they are given to, no child is lost, no wake-up is missed.
* Evaluation of dash: after any exception the registers say what the stack says; a program runs as it is written.
* Variables of dash: a function gives back exactly what it made local; no text is freed while in use; a command found
  in the table is the one a search would find.
* Texts of dash: a word, a program, an expression, a list of arguments means what its structure says.

## 2. The modules

| module | models | abstract specification |
|---|---|---|
| `JobControl` | `Process`, `Job`, `JobControl`, the built-ins over them, the check before a prompt | `JobLedger`, by refinement |
| `JobLedger` | what a user of the table may rely on: opened in order, announced when over, closed when announced | |
| `BgLaunch` | `BGJobAdapter::runInBackground`: the shell, both children, the pipe, SIGCHLD, Ctrl-C | |
| `ShellLoop` | `Shell::runInteractive`, the handler, the mask, `StdinInputSource`, the waits of the executor | |
| `Redirect` | `applyRedirections`, `restoreRedirections` around built-ins and external commands | |
| `Pipeline` | `executePipe` for `a \| b \| c`, which the parser nests to the right | |
| `Lexer` | `Lexer`: operators from a sequence of characters to its tokens | |
| `Parser` | `Parser` and the nodes of `node.cpp`: operators from tokens to a tree, an error, or no answer | |
| `Script` | `runScript`, and `Executor::execute` over the tree with a stack for each process; uses `Parser`, which uses `Lexer` | what a line means (`Means`), checked when it is done |
| `DashJobs` | `jobs.c`: forking a pipeline, waiting for it, `fg`, `bg`, `wait`, `jobs`, leaving | |
| `DashEval` | `eval.c`, `error.c`, `main.c`, `trap.c` as a machine over the C stack | `EvalMeaning`, an interpreter of the same trees without a stack |
| `DashExec`, `DashVars` | `exec.c`, `var.c`, `cd.c` | `Scopes`, by refinement; `Resolve` in `DashExec`, a search of PATH without a table |
| `DashChars`, `DashInput`, `DashParser` | `mksyntax.c`, `input.c`, `alias.c`, `parser.c` | `TreeMeaning`: how a tree is written down, and aliases by substitution |
| `DashExpand` | `expand.c`, `read` | `WordMeaning`: a word as a list of parts, each with its fields |
| `DashArith` | `arith_yylex.c`, `arith_yacc.c` | `ArithMeaning`: expressions as trees |
| `DashRedir` | `redir.c` | `RedirMeaning`: the code's nesting of commands, and redirections by substitution of descriptors |
| `DashTest`, `DashOpts`, `DashPrintf` | `bltin/test.c`, `options.c`, `bltin/printf.c` | `BuiltinMeaning` for `test`, `printf` and `echo`; `OptsMeaning` |
| `Variables` | `variable_manager.cpp` of dash-cpp | the equality of table and environment, and pieces of text with their values, in `MCTexts` |
| `JobControl_proof`, `ShellLoop_proof`, `BgLaunch_proof`, `Redirect_proof`, `Pipeline_proof`, `DashJobs_proof`, `DashVars_proof`, `DashEval_proof` | theorems about the module of that name, with their proofs; nothing is defined there that a run needs | |

The `MC*` modules give the constants of a module values for TLC; `BgLaunch`, `ShellLoop` and `Pipeline` have constants simple enough to be
given in their own cfg. Operators whose comment begins with
*Mutant* are wrong variants of the definition that follows them: each property is shown to fail when
the code has that bug.

**JobControl.** The state follows the classes: `table` are the keys of `jobs_`, `procs`, `status`,
`notified` the fields of each `Job`, `completed` and `stopped` the flags of each `Process`. A built-in is
not one action: `updateStatus` reaps one child per step (`Reap`), then probes one job per step
(`Probe`); `showJobs` refreshes one job per step (`Refresh`), then prints, marks and erases
(`ShowAll`). The processes (`proc`) move between any two of these steps. `Job::updateStatus` itself is one step:
it asks about each process once, and a change between two of its questions is the same
as a change before or after it for every other process. Order of `unordered_map` iteration is
left open by picking any job of `todo`. The id -1 is `NoJob`, 0.

**BgLaunch.** Each of the three processes has its program counter; `writers` and `readers` say who holds which end
of the pipe, so a `read` returns when the number is there or no writer is left. Signals: Ctrl-C makes `read` and
`waitpid` of the shell fail. SIGCHLD of an ended first child is lost while it is ignored and kept otherwise.

**ShellLoop.** One action per statement of `runInteractive` that reads or writes state it shares with the handler or
the kernel. What a line of input makes the executor do is a choice: a foreground child or two, a background
launch (of which only what it can leave behind matters here), `jobs`, `exit`, a syntax error.

**Redirect.** The descriptor table of one process is a function from numbers to files; `dup`, `dup2`, `open` and
`close` act on it by the rule of the lowest free descriptor. A command has a list of
redirections, of any descriptors (`parser.cpp:319` takes any number) and of each as often as it likes; `saved` is `saved_fds`, with one
number for each descriptor. Forked children apply the same list to a copy of the table.

**Pipeline.** Each stage is a process that reads and writes pipes of bounded capacity; what a stage does with
its data (consume, produce, stop early) is a choice. The stages are set up by nested calls, each waiting for
its left child first.

**Lexer, Parser.** These two are operators, not state machines: the parser asks the lexer for one token at a time, but
what it gets does not depend on when it asks. A run of letters or digits is one character, because no rule looks inside it. The last
token stands for all that the lexer would answer after it: the end of the input, an exception, or the empty word it
returns again and again at a character it does not know. A `ParseX` returns `ok`, `none` (`nullptr`), `error` (an exception)
or `stuck` (the loop of `parseSimpleCommand` or `parseFor` that never ends on empty words). Recursion follows the
recursion of the code. Two facts of the grammar shape the trees: `;;` is never lexed, so a `case` with an item is refused,
and `(` is an operator where a word is expected, so no subshell is ever parsed. A compound command is accepted only when its
inner lists end in `&`, as in `if a & then b & fi`: after `;` the words `then`, `do` and `fi` are ordinary words.

**Script.** A process is a stack of frames (node, number of parts executed, status of the last part), `last_status_`, a log of
what it ran, and its own `exit_requested_`. One action is one turn of the function for the kind of the top node. A command is
one step with a status of 0 or 1, whether it is built in, external, in the background, or could not be forked or redirected. `ForkLeft`,
`ForkRight` and `PipeWaits` are `executePipe` with its two children, which execute at the same time; what they ran becomes one entry of the
log of the parent, so that the order inside each process is kept and the interleaving is not. `Means` says independently what a tree
may do: it consumes a log and yields the statuses the whole may have.

**DashJobs.** One action per step of the shell between two points where a signal or a process can come in: `forkparent` and
`forkchild` put a process in its group from both sides, `Wait3` takes one status, `Wake` is the return of `sigsuspend`. `chain` is the
list behind `curjob`; `lost` are processes whose job a failing `fork` has freed. The mask that blocks all signals between the look at
`gotsigchld` and `sigsuspend` is part of the state of the shell.

**DashEval.** The C stack is a sequence of frames, one for each function of `eval.c` that is still running, with what it has left to do.
`reg` holds the global registers. A `longjmp` cuts the sequence back to the frame of the innermost handler, and `Unwound` does what that
frame does on being jumped to. Signals arrive at any step; `InterruptsOn` and `FramesMatch` are about all of these behaviours,
`RunsAsWritten` about those without signals, which have exactly one meaning. A program is any nesting of two out of sixteen constructs around one
of sixteen commands, followed by another command and another line.

**DashVars.** A text is known by the block of memory it is in, so that a block freed while somebody still points to it is visible (`dead`).
`poplocalvars` is one action per variable, because each may change the table of commands.

**The texts.** The modules from `DashChars` to `Variables` are operators with the same recursion as the code: from a state (the text read, the text
written, tables) to a state. `MCTexts` generates members of families (words, programs, alias tables, expressions, arguments of `test`, `getopts`, `set`,
`printf`, redirections, operations on variables), works each by the operators of the code and compares the result with its meaning, which is
computed from the structure the member was generated from and knows nothing of control characters, offsets, pushed strings or saved descriptors.
Characters are strings of one name of letters, so that keywords and names are single characters; `NL`, `TAB` and `BQT` are a newline, a
tabulator and a backquote. The text modules of the parser and of the expansion work together: a word is written down, read by `DashParser` and expanded by `DashExpand`.

## 3. The runs

| run | instance | shows |
|---|---|---|
| `jobs` | 2 jobs, interactive, in two uses of the class: the program's (2 processes forked twice, job control off), and its whole interface (2 children, jobs of one or both, job control on, with `fg`, `bg`, `wait`, `jobs` and the prompt competing for wait statuses) | type and safety invariants (`NoFalseCompletion`, `LiveTracked`, `SafeExit`), `ReapIsRecorded`, `NoSilentErase`, `DoneIsFinal`, refinement of `JobLedger`, and `OverIsForgotten` under fairness |
| `launch` | 2 launches, 2 Ctrl-C, failing `pipe` and `fork` | nothing is left behind except one zombie or one unlisted command for each Ctrl-C, the shell is restored, the prompt comes back |
| `loop` | see the cfg | why the loop may end, nothing left at the prompt, the mask, the prompt comes |
| `redirect` | all lists of at most two of 13 redirections, orderly or not, of the descriptors 0 to 3 and of one that does not exist; 5 descriptors, six tables, some with standard descriptors closed; failing `open`, exceptions | descriptors a command does not name are never disturbed (`ShellFdsRestored`); orderly lists do what they ask for (`CommandSeesRequest`), their copies stay the shell's own files (`SavedIsOriginal`) and the shell gets all descriptors back |
| `pipeline` | 3 stages, pipes of capacity 1, finite and endless producers, failing calls | end of file is never early, nothing is left over, the pipeline ends |
| `line` | all lines of up to 4 characters over operators and over redirections, of up to 3 over quotes and the like, 14 longer ones with compound commands and pipelines, 11 scripts of two lines of which most ask to leave; forks that fail | a line does what it says (`RunsAsWritten`, about the lines that are `Undisputed`: without `&&` and `\|\|`, and with `exit` only at their end), nothing of it is lost between characters, tokens and tree (`NothingLost`), lines end (`LineEnds`) |
| `line_comments` | the line `exit && b` | `b` runs although `exit` should have ended the line, and has failed besides (`RunsAsCommented` is violated) |
| `dash_jobs` | 2 processes, 2 slots, pipelines of 1 or 2, one stop from outside, job control switched on and off | statuses are true and known when asked for (`StatusIsTrue`), no child is unreachable (`NoLostChild`), no wake-up is missed (`NoMissedWake`) |
| `dash_eval` | 21000 programs with options `-i` and `-e`, a trap on EXIT or on a signal, two signals at any step | registers and stack agree (`FramesMatch`; that the programs are `Tame`, which its theorem assumes, is evaluated here), interrupts are on when a command begins (`InterruptsOn`), programs without signals run as their meaning says (`RunsAsWritten`, about programs that do not have `-e` and `-i` together, see section 5) |
| `dash_vars` | 4 variables, 2 functions deep with 2 locals each, 2 commands, 2 values of PATH, 2 directories | no text is freed while in use (`TextsAreLive`), the table of commands agrees with PATH (`LookupIsSearch`), scopes are undone (`ScopesAreUndone`, by refinement of `Scopes`) |
| `texts` | 166000 words, programs, expressions, lists and sequences | `WordsMean`, `ProgramsReadBack`, `ArithMeans` (with operands that are not reached nested in each other), `BuiltinsMean`, `RedirsMean`; left out, since code and manual disagree: `-o vi` after `-E`, OPTARG for an illegal option under a leading colon (section 5) |
| `texts_subshell` | a subshell inside a command, each with up to two redirections | `closed_redirs` is wrong in a subshell (`RedirsMean` is violated) |

### Bounds, and why they are enough

Every unbounded counter is a constant of its module. Two jobs with one process each, or one with two, are the
smallest instances in which a loop over jobs or processes can see the first one change while it looks at the
second; ids only grow, so two show what a third would. Two launches show the effect of the
first on the second (a zombie left behind, a SIGCHLD pending); two Ctrl-C can hit the `read` and the `waitpid` of one launch.
Three stages are the smallest pipeline with a stage that reads and writes, and two nested calls;
a capacity of one makes a writer wait for its reader. Five descriptors are three
standard ones and room for two, which copies, files and a redirection of descriptor 3 compete for, so that `dup` and `open` fail; two redirections
are enough for one to meet what the other has saved or replaced.
Four characters are enough for every pair of adjacent tokens and every double operator next to another token; what needs more
(compound commands, three stages, a pipe in a loop) is listed in `MCScript`. Four processes besides the shell are two nested pipes;
five entries of the log let every listed line without a `while` run to its end, a loop that tests a condition is cut off there.

The two processes and two slots of `dash_jobs` are one job of two processes or two of one, and let the slot of a job be reused while the other is
waited for. Two levels of nesting in `dash_eval` put every construct directly inside every other, which is where a handler, a skip or an option passes from
one to the next; three levels are added where functions and loops alternate. In `dash_vars` a function within a function is enough for a variable that is local
twice; the two families (scoping, searching) do not share variables. In `texts` the members of a family are bounded by the number of their parts: two for words, three for
names of files, tildes and arithmetic, two levels for programs, two redirections for each of up to three nested commands. Arithmetic has 8 bits, so that shifts
and products leave the width; the code has no rule that depends on how wide it is. In redirections a program may name 4 descriptors instead of 10, and there are 14 in all.

### Fairness

Weak fairness is assumed of steps of the shell inside a call and of the other processes' own steps: a program that
is not blocked runs on, and an operating system schedules it. `init` reaps its children. Nobody is
assumed to type, to send a signal or to make a command end, with two exceptions: `OverIsForgotten` assumes that the
user goes on asking for the jobs (strong fairness of `JobsStart(TRUE, TRUE)`, because other commands may come in
between), and commands that read end of file, or whose reader is gone, end; in the use of `jobs` with children these end too, since `fg` and `wait` may wait for them. In `Script` a process
runs on and its commands end: `LineEnds` says that the executor adds no waiting of its own. Nothing is assumed of the reading of lines. Runs that say
`CHECK_DEADLOCK FALSE` have states in which everything is done or the bound of launches is used up. The modules of dash state no fairness:
their properties are safety properties, `NoMissedWake` among them, which says that a shell that sleeps has nothing to be woken for.

## 4. What is proved

The theorems hold for every value of the constants that satisfies the named assumption of the module: any number of processes, jobs, launches, stages,
descriptors or variables, any list of redirections, any depth of nesting. The assumptions give the constants their types and little more; TLC evaluates each of them in a run.

| module | theorem | property |
|---|---|---|
| `JobControl` | `TypeTheorem` | `TypeOK` |
| | `CompletionTheorem` | `NoFalseCompletion`: what is marked completed is gone |
| | `TrackingTheorem` | `LiveTracked`: what exists is listed and not held to be done |
| | `ExitTheorem` | `SafeExit`: a granted `exit` leaves nothing behind |
| | `DoneTheorem` | `DoneIsFinal`: done stays done, ids are given once |
| | `ReapTheorem` | `ReapIsRecorded`: whoever waits for a child marks it |
| | `EraseTheorem` (under `OneKind`) | `NoSilentErase`: the end of a job is shown before it is erased |
| | `LedgerTheorem` (under `OneKind`, `Foreign = {}`) | `ImplementsLedger`: every step is one of `JobLedger` or none |
| `ShellLoop` | `TypeTheorem`, `MaskDisciplineTheorem` | `MaskDiscipline`: SIGCHLD is blocked while commands run, and only then |
| | `NoChildAtPromptTheorem` | `NoChildAtPrompt` |
| | `ExitIsRequestedTheorem` | `ExitIsRequested`: the loop ends because somebody asked for it, or because of a child left behind |
| `BgLaunch` | `TypeTheorem`, `RestoredTheorem` | `ShellRestored`: disposition and pipe are given back |
| | `ListedTheorem`, `StrayTheorem` | `ListedIsReal`, `NoStrayChild`: at most one exception for each Ctrl-C |
| `Redirect` | `TypeTheorem`, `CopiesTheorem` | `SavedIsOriginal`: the copies of an orderly list stay the shell's own files |
| | `RestoredTheorem` | `ShellFdsRestored`: what a command does not name is undisturbed, however it ends; after an orderly list all is restored |
| | `RequestTheorem` | `CommandSeesRequest`, for orderly lists of any length |
| `Pipeline` | `TypeTheorem`, `EofTheorem`, `NothingLeftTheorem` | `EofMeansOver`, `NothingLeft`, for any number of stages |
| `DashJobs` | `TypeTheorem`, `StatusTheorem` | `StatusIsTrue` |
| | `LostTheorem`, `WakeTheorem` | `NoLostChild`, `NoMissedWake` |
| `DashVars` | `TypeTheorem`, `TextsTheorem` | `TextsAreLive` |
| | `LookupTheorem` (under `Unprotectable`) | `LookupIsSearch` |
| | `ScopedTheorem`, `ScopesTheorem` (under `NoAllExport`) | `ScopesAreUndone`: every step is one of `Scopes` or none |
| `DashEval` | `InterruptsTheorem` | `InterruptsOn` |
| | `HandlerTheorem` | `HandlerIsInnermost`: a longjmp goes to the innermost frame that has called setjmp |
| | `FramesTheorem` (under `Tame`) | `FramesMatch`: handler, files, saved descriptors, local variables, loopnest and savestatus are what the stack says, and what is skipped has a loop to end |

### Hypotheses

These theorems have a hypothesis on the constants besides the assumption of the module. Each is needed, and the runs satisfy it.

* `OneKind`: the processes of jobs are all children, or none is, or job control is off. Otherwise `NoSilentErase` is false, as TLC shows: the loop of `updateStatus` over
  `kill` marks a job of non-children as done while `notified_` is still set from an earlier listing (`job_control.cpp:475`), and the check before a prompt, which is made for the children, erases it.
  The program itself always satisfies it: its background commands are nobody's children, and job control is off.
* `Foreign = {}` for the ledger: a process that may not be signalled counts as gone, and its job may end in the table before it ends.
* `Unprotectable`: PWD and OLDPWD are not among the variables that may become readonly. With OLDPWD readonly, `cd` changes the directory and returns before it marks the table (`cd.c:181`).
* `NoAllExport`: option a is off. With it on, `local` of a variable that is not set marks it for export, and `poplocalvars` keeps a variable with that mark when it takes it away (section 5).
* `Tame` (`TameScripts`): the nodes of the scripts have the fields the parser gives them, and two things that make the counts wrong are kept out. `evalcommand` catches an error for built-ins that are not special; of these `command eval` runs other commands, and it
  gives back neither `loopnest` nor `savestatus` nor the handler of a parent: so no loop, child or trap that may run in a text of `command eval` raises an error there (`eval.c:72`). And a trap contains no `break` or `continue`, which would end a command
  it came before. The hypothesis is about four sets of nodes, which are closed under taking parts (`Trees`, `Recoverable`, `Errorless`, `Steady`): all nodes, those in a text of `command eval`, those of them in a loop or child, and those of traps. Scripts without `command eval` and without `break` in a trap
  always satisfy it, with the second and third set empty; `MCDashEval` computes the sets for the programs of the run, in which `command eval` is around most constructs, and evaluates it.

The theorems about `Redirect` have no hypothesis: descriptors, tables and lists are any. The properties themselves distinguish, command by command, the lists for which `saved_fds` is enough (`Orderly`): no descriptor is named twice (the copy of
the first would be forgotten, `executor.cpp:526`), none is a place into which an earlier redirection has put its copy, and only the last is closed (a later copy would be put there). `Orderly` depends on the descriptors
that are open when the command begins, and a disorderly command may come at any time, before or after the command in question. Of any list `ShellFdsRestored` says that the damage stays within the descriptors it names. `CommandSeesRequest` leaves out the
places of the copies, which a command can see where standard descriptors were closed, and lists that duplicate one of them (`ReadsNoCopy`). Section 5 says what happens otherwise.

`PathAssumption` of `DashVars` says that what a directory named from the root holds does not depend on where one is, and that every value of PATH is a list;
the models of commands in `MCDashVars` satisfy it.

### The arguments

Hardly any of these properties is inductive. Each proof module defines an invariant that is (`IInv`, `Inv`), shows that `Init` implies it and that each action keeps it,
one lemma for an action and one step for a part of the invariant, and derives the properties from it.

* **JobControl.** `IInv` adds three facts: ids in use were given out (`IdsAreOpened`), so
  that a new job cannot take the place of another; processes of jobs were started (`LaunchedOnly`), so that a `kill` that
  finds nothing means an end and not a beginning; and a job is held to be done only when its processes are
  (`DoneIsCompleted`), so that `cleanupJobs` erases nothing that lives. The central lemma is `UpdateJobLearns`:
  `Job::updateStatus` marks only processes that are gone, or that this very `waitpid` removes.
  `Records` and `News` are built on top of it. `Records`: no two jobs share a process, so that an answer about one completes no other behind its status; no status lags behind
  the flags. `News`: a job that is done and has `notified_` set was shown to be done, or will be before the call in progress returns. The refinement
  maps every step by these three: erasing is closing what was announced.
* **ShellLoop.** A child that was not left behind is one the shell waits for (`ChildrenAreAwaited`), and it waits in one place; hence no child at the prompt, hence no SIGCHLD
  that fails the read, hence an end only by the user.
* **BgLaunch.** The bounds are about numbers of launches, so the invariant counts: the launches whose first child is left behind, and those that are or may still come into the background unlisted (`Unheard`),
  are each at most as many as the Ctrl-C. A launch enters these sets only by an interrupted `waitpid` or `read`. The rest says who holds which end of the pipe, so that a number that was written is read.
* **Redirect.** `Spared` holds for all lists: an open descriptor that the list does not name is as it was, and is the place of no copy, for `dup` takes free ones. For an orderly list the copies after n redirections are in the n lowest descriptors that were free when the command began;
  that is counted with cardinalities (`LowestOnes`), and `Untaken` says by the same count that no later target is among them. So a copy is in a place of its own that was free before, and holds the shell's own file; what was not saved is as it was; what is still to be applied was not saved.
  That `dup` takes the lowest free descriptor needs a least number of a set, by the well-foundedness of the numbers. What a list means is a fold; `SeenAll` and its lemmas unfold it, so that
  `CommandSeesRequest` holds for lists of any length.
* **Pipeline.** `Holders` says who may hold ends of a pipe, `Waited` that a process ends with its children. That with no failure all stages have ended is shown from the first to the last, by a smallest stage that has not.
* **DashJobs.** `Statuses` ties the entries of a job to the processes: final exactly when the process is gone. `Apart` keeps process numbers apart, `Chained` makes the list behind `curjob` the set of used slots, each once,
  through every insertion and removal. `Alert` is what `NoMissedWake` needs before the shell sleeps: between a `wait3` that found nothing and `sigsuspend`, news has set `gotsigchld`.
* **DashVars.** `Ownership` says who frees which text: a text a variable owns is in no saved variable, a text a scope owns is saved only once below it, nothing freed is pointed to. That a block is always free to be allocated follows
  from the bounds of the stack by the pigeonhole principle. `Trusted` says what the table of commands knows: an entry names the first place in PATH that holds the command, and one that is marked for rehashing
  is right as far as PATH names directories from the root. `AllFine` says that PATH keeps its function, in the table and in what is saved, so that no change of it passes by `changepath`.
  The refinement of `Scopes` needs to know what the mark STRFIXED means, for `unset` removes a variable or keeps its export mark by it: `Scoped` says that a variable has the mark if some scope will put it back, and
  otherwise only if it is PATH or a readonly variable that `local` refused to set; and the same of the marks that are saved, as of the scopes below. So a variable that was saved as not there is saved nowhere below, and may be removed when it is put back.
  While scopes are being popped, what is seen is what will be left (`View`): popping one variable shows nothing, and beginning to pop a scope is the step that leaves it.
* **DashEval.** For the first two theorems nothing is assumed of the scripts, not even that their trees have the shape the parser gives them. `Fits` is the order of frames: `cmdloop(1)` is at the bottom and nowhere else, the frame of a builtin or a function is right
  above that of its command and remembers the handler that was innermost below it. So when an exception cuts the stack, or a builtin or a function returns, the handler that is put back is again the innermost. `OffOnlyIn` says where interrupts may be off: while an exception is on
  its way, in the command that has caught it until its FORCEINTON, and once the shell is leaving. A process in `waitforjob` holds them off by one, which its own INTON gives back (`Waiting`).
  `FrameInv` is what `FramesMatch` needs besides. Each frame remembers registers of before, and what it remembers is true of the frames below it (`Placed`): the lists of a command are as long as the frames below say, the `loopnest` of a function is the number of
  loops below. So what a frame gives back when it ends, or when an exception cuts the stack down to it, is right again. `Num` counts the frames that hold something open, from the frame at which the process began (`Here`), since a child begins with empty lists
  and its parent's stack. Between two commands `Exact` and `Marks` say that the registers are these counts; on the way of an exception they may be wrong, except where it could be caught (`Thrown`), and that is where `Tame` enters: `Allowed` says which nodes
  may be evaluated where, and `Exposed` is where an error must not come from. A count that is skipped is at most the number of loops of the current function, since `break` takes the least of its argument and `loopnest`. A child that was told to exit (`EV_EXIT`) has
  nothing below it but frames that end at once (`OnlyTrees`), which is why it may leave them behind. All processes that wait have these facts of their own stack, so that they hold when the child is gone.

The theorems about `CommandSeesRequest`, `NothingLeft` and the walks through the job list are inductions over numbers; they are stated with least elements of sets of numbers, because the
induction theorems of the library take an operator.

### Only model-checked

* Liveness (`OverIsForgotten`, `LaunchReturns`, `PromptReturns`, `LineEnds`, `PipelineReturns`): fairness and ENABLED are out of reach of the prover.
* `Script` with `Lexer` and `Parser`, `EvalMeaning`, and the modules of `MCTexts`: they follow the recursion of the code with RECURSIVE operators, about which `tlapm` proves nothing. This leaves `RunsAsWritten` of both shells, `NothingLost`,
  `WordsMean`, `ProgramsReadBack`, `ArithMeans`, `BuiltinsMean` and `RedirsMean` to TLC. What they compute for every input would be an induction over data, too.

## 5. Where code and documents disagree

Shown by runs that violate a property (see `findings`):

* dash, `texts_subshell`: `closed_redirs` (`redir.c:80`) is wrong in a subshell whose own redirection opens
  a descriptor that an enclosing command has closed, so that a redirection inside closes it: `{ ( { echo in; } >f; echo out ) >f; } >&-` ends with an I/O error.
* dash-cpp, `line_comments`: the exception of `exit` is caught by `Executor::execute` at every node (`executor.cpp:92`) and becomes a status of 1, so commands that follow on the line still
  run, contrary to `exit_command.cpp:55`. For the same reason a `while` loop around `exit` never ends, and a child of a pipe that runs `exit` leaves with 1 instead of the last status.
* dash-cpp, `line_comments`: `&&` and `||` look at the status of the command after them: an operator is stored with the command that follows it (`node.cpp:115`) and read after it (`executor.cpp:336`), contrary
  to the comments there (338, 343), so `false && b` runs b.

### dash-cpp

Shown by earlier instances of these models, which the present runs leave out:

* `Job::updateStatus` takes a process it may not signal for gone (`job_control.cpp:71`), contrary to the comment at line 78. `NoFalseCompletion` excepts these processes (`Foreign`).
* A child left behind by an interrupted `waitpid` ends the shell: its SIGCHLD fails the read, which is taken for the end of the input (`shell.cpp:246`).
* `fg %1`, as `tests/jobtest.md:16` has it, is never read: `parseWord` returns an empty word without advancing at `%` (`lexer.cpp:274`), for ever.

Simple enough to be read off the code, and part of the models as the code has them:

* `fg`, `bg` and `wait` refuse unless job control is enabled (`fg_command.cpp:22`), and nothing calls
  `enableJobControl`; `tests/jobtest.md:16` expects `fg %1` to work.
* `exit` trusts the status of the last `jobs` (`exit_command.cpp:46`), so it refuses although all jobs have ended.
* `cleanupJobs` erases the current job and keeps `current_job_id_` (`job_control.cpp:634`), contrary to
  `job_control.h:413`.
* Background commands inherit an ignored SIGCHLD (`bg_job_adapter.cpp:97`), all commands of the loop a blocked one.
* Ctrl-C at the prompt ends the shell: the read fails (`input.cpp:104`) and is taken for Ctrl-D (`shell.cpp:247`).
* Ctrl-Z stops the shell along with the command: `waitpid` is called without `WUNTRACED` (`executor.cpp:685`);
  `tests/jobtest.md:25` expects a prompt.
* `cd > a` without `HOME` throws between applying and restoring the redirection (`executor.cpp:131`), and the shell
  keeps writing to `a`; `ShellFdsRestored` excepts this case.
* `echo x > a > b` overwrites the number of the saved copy of descriptor 1 with that of the redirected one (`executor.cpp:526`, comment at 518); the shell keeps writing to `a`.
* Copies are taken with `dup`, from the lowest free descriptor on (`executor.cpp:519`), so a later redirection can hit one: in `echo x > a 3> b` it takes the copy of descriptor 1 away, and if the map then gives 1 before 3 the shell goes on writing to `b`. With a standard descriptor closed, a copy takes its place and the
  command reads or writes the shell's file there; `n>&m` may duplicate a copy in the same way, and `n>&-` leaves n free for the copy of the next redirection.
  These lists are in the instance and not `Orderly`: of them `ShellFdsRestored` only says what stays untouched.
* A read of the number interrupted by Ctrl-C leaves a command that no job lists (`bg_job_adapter.cpp:194`): `StartedIsListed`, a part of `ListedIsReal`, allows one for
  each Ctrl-C.
* Built-ins get their arguments without the name of the command (`executor.cpp:119`) but look for them from index 1 on: `echo x` prints an
  empty line, `cd dir` goes to `HOME` (`cd_command.cpp:54`), `exit 3` ignores the 3 (`exit_command.cpp:27`), and `fg` and `bg` see no job
  number (`fg_command.cpp:31`).
* The status of the last command is not that of the shell: `runScript` returns `exit_status_`, which only `exit` sets (`shell.cpp:339`), so
  `dash -c false` ends with 0. Without a terminal and without `-c` or a file, `runScript` reads nothing at all (`shell.cpp:135`).
* Compound commands as they are usually written are syntax errors (see Parser above), and so are `a & b` (`parseList` goes on only after
  `;`, `&&` and `||`), `echo a=b` (an assignment ends the arguments, `parser.cpp:271`) and `> f` without a command before it.
* `&` after a compound command is consumed and forgotten (`parser.cpp:181`); `$(` becomes `$$` in the word (`lexer.cpp:144`).
* Assignments are stored in the node and never carried out (`executor.cpp:106`).
* `parsePipeline` never sets the background flag of a pipe: the branches `executor.cpp:155-247` and
  `shell.cpp:369-556` are not reached.

* `initialize` overwrites a PS1 that was in the environment (`variable_manager.cpp:70`) and the environment with it.

### dash-debian

Evaluation and jobs, left out of the instances that are checked:

* A command substitution or subshell that `command eval` started keeps the handler of its parent: an error in it goes on in the frames of the parent (`eval.c:952`; `forkreset` does not reset
  `handler`, and the comment at `main.c:406` is not followed by `mkinit`).
* `command eval` recovers from an error inside a loop with the `loopnest` of that loop and the `savestatus` of a trap (`eval.c:72`).
* A trap with `break` or `return` at the entry of `evaltree` (`eval.c:224`) lets the command run that it was to skip.
* `stoppedjobs` looks at the current job only (`jobs.c:1209`), although it is said to return 1 if there are stopped jobs (1197): a stopped job that is not the current one is not warned of.
* When `fork` fails in a pipeline whose first process was given the terminal, the job is freed (`jobs.c:909`) and nobody takes the terminal back.
* An interactive shell with `-e` leaves when a command fails, too (`eval.c:324` looks at `eflag` alone); the manual says "If not interactive, exit immediately if any untested command fails" (`dash.1:202`). `EvalMeaning`
  follows the manual, and `RunsAsWritten` leaves programs with both options out. A command behind `!` is tested for both the code and `EvalMeaning`; the manual's list of tests (`dash.1:203`) does not name it.
* A process number used twice within a pipeline makes the status go to the first of the two.
* `set -m -Z` sets the option and ends in an error before `optschanged` (`options.c:179`): the option is on, job control is not.

Redirections:

* `{ (a) >f; } >g` loses `>f`: the parser puts the outer redirection into the node of the subshell, in place of its own (`parser.c:493`).
* `savefd` closes the original descriptor before it raises the error that no copy could be made (`redir.c:452`), so the descriptor is lost.

Variables:

* `unset` and `local` leave a variable exported under `set -a` although it was not before (`var.c:455`): `ScopesAreUndone` does not hold with `AllExport`.
* `describe_command`, behind `type` and `command -v`, looks entries up without checking whether they are marked for rehashing (`exec.c:772`).
* With OLDPWD readonly, `cd` changes the directory and fails before it knows of it (`cd.c:181`).
* A `%builtin` inside an entry such as `dir%builtin` is not seen by `changepath` (`exec.c:578`).
* `unset PATH` and `unset OPTIND` call the function of the variable with a pointer behind the end of the text; the comment before `unsetcmd` (`var.c:577`) describes an order the code does not have.
* A readonly OPTARG leaves `optind` at -1 for ever (`options.c:443`), `local OPTIND` within a loop over `getopts` begins it anew, and `shift` resets `optind` and not OPTIND.

Words, programs and built-ins:

* `read` loses the end of a line whose last character that is no delimiter is behind a backslash (`expand.c:1055`): of `a \b`, `read x` keeps only `a`.
* Code and meaning differ in the empty fields of an unquoted value straight after a quoted `"$@"`, and in a quote within the word of a quoted substitution that is no pattern.
* A pattern that ends in `[a-` is read past its end (`expand.c:1551`).
* A here-document pending when the words of `for` end in a newline is not read there, one directly before the `)` of `$(` is empty, and `checkend` loses a byte from 0x80 on when it compares a line with the end mark (`parser.c`).
* `test ! ! -n a` is an error, and `test a -a`, `test \( a -o` read behind the end of the arguments (`bltin/test.c:449`).
* `-o vi` and `-o emacs` do not turn each other off as `-V` and `-E` do: `minus_o` sets the option itself (`options.c:264`), so `set -E -o vi` leaves both editors on; the manual says that these are the same options (`dash.1:170`) and that each disables the other (`dash.1:245`).
* `getopts` with a leading colon sets OPTARG to the letter of an option that is not allowed for (`options.c:467`); the manual says that OPTARG will be unset (`dash.1:1383`).
* `printf`: an empty numeric argument is read one byte too far (`bltin/printf.c:401`), and `%1*d` hands a `*` to the library without its argument.

## 6. What is not modelled, and what is left to do

Left out for good: texts and formatting; the wording of errors; `cd`, `echo`, `pwd` and `kill` of dash-cpp
(single system calls); the C job table of dash-cpp (its slots are never read); what nothing uses (`SignalHandler`, `Expand`, `Arithmetic`, `AliasManager`,
`Output`, `History`, the input stack); of dash, the listings, the history, locales, the stack allocator, the buffers of input and output, `umask`, `ulimit`, `times`, and the generators.
PROJECT.json says component by component what of it a model leaves out.

Left to do:

1. The loop variable of `for`, and what a child of a pipe sets, in `Script`.
2. Command substitutions (`FORK_NOJOB`) in `DashJobs`.
3. Proofs: what `popredir` undoes in `DashRedir`.
