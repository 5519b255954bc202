--------------------------- MODULE BgLaunch_proof ---------------------------
(***************************************************************************)
(* Proofs about BgLaunch, for any number of launches and of Ctrl-C: between *)
(* two commands SIGCHLD is handled again and no end of a pipe is left, the  *)
(* job table and what was printed agree with the processes that exist, and  *)
(* a first child left behind, or a command not listed, is always the work   *)
(* of a Ctrl-C of its own.                                                  *)
(***************************************************************************)
EXTENDS BgLaunch, FiniteSetTheorems, TLAPS

-----------------------------------------------------------------------------
(* The inductive invariant.                                                 *)

\* While a command is started there is a launch under way.
LaunchUnderWay == shell # "idle" => n \in Launch

\* What has not happened yet to a launch: nothing to those to come, no fork to
\* the one under way before its first, no listing before it is listed.
Coming(l, places) == l > n \/ (l = n /\ shell \in places)
NotYet ==
  \A l \in Launch :
    /\ Coming(l, {"pipe", "fork"}) => first[l] = "none" /\ second[l] = "none"
    /\ Coming(l, {"pipe", "fork", "close", "read", "list"}) => l \notin listed
    /\ Coming(l, ShellPc \ {"idle"}) => printed[l] = "nothing"

\* SIGCHLD is ignored from the beginning of a launch to the end of its wait.
Ignoring ==
  /\ oldDisp = "handler"
  /\ disp = IF shell \in {"idle", "print"} THEN "handler" ELSE "ignore"

\* The ends of the pipe the shell and the first child hold.
EndsHeld ==
  \A l \in Launch :
    /\ "shell" \in writers[l] => l = n /\ shell \in {"fork", "close"}
    /\ "shell" \in readers[l] <=> l = n /\ shell \in {"fork", "close", "read"}
    /\ first[l] \in {"start", "fork", "write", "close"} => "first" \in writers[l]

\* A number comes from a first child that has forked, and as long as the shell
\* reads, one that has forked and gone on has left it in the pipe.
NumberIsReal ==
  \A l \in Launch :
    /\ second[l] # "none" => first[l] \notin {"none", "start", "fork"}
    /\ first[l] = "write" \/ full[l] => second[l] # "none"
    /\ /\ l = n /\ shell \in {"close", "read"}
       /\ second[l] # "none" /\ first[l] # "write"
       => full[l]

\* What the shell knows of the launch under way.
KnownIsListed ==
  /\ childPid => n \in Launch /\ second[n] # "none"
  /\ shell \in {"wait", "print"} => (childPid <=> n \in listed)

\* What the table lists and what was printed.
ListedAgrees ==
  /\ \A l \in listed : second[l] # "none"
  /\ \A l \in Launch : printed[l] = "pid" => l \in listed
  /\ \A l \in Launch : printed[l] \in {"unknown", "error"} => l \notin listed

\* First children the shell no longer waits for, and launches that have put, or
\* still may put, a command into the background that will not be listed: each
\* is the work of a Ctrl-C of its own.
LeftBehind ==
  {l \in Launch : /\ first[l] \notin {"none", "gone"}
                  /\ ~ (l = n /\ shell \in {"close", "read", "list", "wait"})}
Unheard ==
  {l \in Launch : /\ second[l] # "none" \/ first[l] \in {"start", "fork"}
                  /\ l \notin listed
                  /\ ~ (l = n /\ (shell \in {"close", "read"} \/ (shell = "list" /\ childPid)))}
CtrlCIsToBlame ==
  /\ Cardinality(LeftBehind) <= sigints
  /\ Cardinality(Unheard) <= sigints
  /\ sigchld => sigints > 0

IInv ==
  /\ TypeOK
  /\ LaunchUnderWay
  /\ NotYet
  /\ Ignoring
  /\ EndsHeld
  /\ NumberIsReal
  /\ KnownIsListed
  /\ ListedAgrees
  /\ CtrlCIsToBlame

-----------------------------------------------------------------------------
(* Counting launches.                                                       *)

USE BgLaunchAssumption

\* There are finitely many launches, so a set of them has a number of members.
LEMMA LaunchFinite ==
  ASSUME NEW S, S \subseteq Launch
  PROVE  IsFiniteSet(S) /\ Cardinality(S) \in Nat
<1>1. IsFiniteSet(Launch)
  BY FS_Interval DEF Launch
<1>2. IsFiniteSet(S)
  BY <1>1, FS_Subset
<1> QED
  BY <1>2, FS_CardinalityType

\* A set of launches that does not grow keeps its bound.
LEMMA NoMore ==
  ASSUME NEW k \in Nat, NEW S, S \subseteq Launch, Cardinality(S) <= k,
         NEW T, T \subseteq S
  PROVE  Cardinality(T) <= k
<1>1. Cardinality(T) <= Cardinality(S)
  BY LaunchFinite, FS_Subset
<1> QED
  BY <1>1, LaunchFinite

\* One that grows by one launch needs one more Ctrl-C.
LEMMA OneMore ==
  ASSUME NEW k \in Nat, NEW S, S \subseteq Launch, Cardinality(S) <= k,
         NEW x, NEW T, T \subseteq S \cup {x}
  PROVE  Cardinality(T) <= k + 1
<1>1. IsFiniteSet(S \cup {x}) /\ Cardinality(S \cup {x}) <= Cardinality(S) + 1
  BY LaunchFinite, FS_AddElement
<1>2. Cardinality(T) <= Cardinality(S \cup {x})
  BY <1>1, FS_Subset
<1> QED
  BY <1>1, <1>2, LaunchFinite, FS_CardinalityType, FS_Subset


\* A step that leaves nobody else behind, and takes no Ctrl-C away, is covered.
LEMMA BlameStays ==
  ASSUME IInv, LeftBehind' \subseteq LeftBehind, Unheard' \subseteq Unheard,
         UNCHANGED sigints, sigchld' => sigchld \/ sigints > 0
  PROVE  CtrlCIsToBlame'
<1>1. PICK k : k = sigints
  OBVIOUS
<1>2. k \in Nat
  BY <1>1 DEF IInv, TypeOK, BgLaunchAssumption
<1>3. LeftBehind \subseteq Launch /\ Unheard \subseteq Launch
  BY DEF LeftBehind, Unheard
<1>4. Cardinality(LeftBehind) <= k /\ Cardinality(Unheard) <= k
  BY <1>1 DEF IInv, CtrlCIsToBlame
<1>5. Cardinality(LeftBehind') <= k
  BY <1>2, <1>3, <1>4, NoMore
<1>6. Cardinality(Unheard') <= k
  BY <1>2, <1>3, <1>4, NoMore
<1> QED
  BY <1>1, <1>5, <1>6 DEF IInv, CtrlCIsToBlame

\* A Ctrl-C accounts for one more first child and one more command.
LEMMA BlameGrows ==
  ASSUME IInv, NEW x, LeftBehind' \subseteq LeftBehind \cup {x}, Unheard' \subseteq Unheard \cup {x},
         sigints' = sigints + 1, UNCHANGED sigchld
  PROVE  CtrlCIsToBlame'
<1>1. PICK k : k = sigints
  OBVIOUS
<1>2. k \in Nat
  BY <1>1 DEF IInv, TypeOK, BgLaunchAssumption
<1>3. LeftBehind \subseteq Launch /\ Unheard \subseteq Launch
  BY DEF LeftBehind, Unheard
<1>4. Cardinality(LeftBehind) <= k /\ Cardinality(Unheard) <= k
  BY <1>1 DEF IInv, CtrlCIsToBlame
<1>5. Cardinality(LeftBehind') <= k + 1
  BY <1>2, <1>3, <1>4, OneMore
<1>6. Cardinality(Unheard') <= k + 1
  BY <1>2, <1>3, <1>4, OneMore
<1> QED
  BY <1>1, <1>2, <1>5, <1>6 DEF IInv, CtrlCIsToBlame

\* Whoever is left behind is the work of some Ctrl-C.
LEMMA BlamedForOne ==
  ASSUME IInv, NEW l \in LeftBehind
  PROVE  sigints > 0
<1>1. LeftBehind \subseteq Launch
  BY DEF LeftBehind
<1>2. IsFiniteSet(LeftBehind) /\ Cardinality(LeftBehind) \in Nat
  BY <1>1, LaunchFinite
<1>3. Cardinality(LeftBehind) # 0
  BY <1>2, FS_EmptySet
<1> QED
  BY <1>2, <1>3 DEF IInv, TypeOK, BgLaunchAssumption, CtrlCIsToBlame

\* A launch begins only when none is under way.
LEMMA BeginStep ==
  ASSUME IInv, Begin
  PROVE  IInv'
<1> USE DEF Launch
<1>1. TypeOK'
  <2>1. sigchld' \in BOOLEAN
    BY DEF Begin, BeginWith
  <2>2. n' \in 0 .. MaxLaunch /\ sigints' \in 0 .. MaxSigint
    BY DEF IInv, TypeOK, BgLaunchAssumption, Begin, BeginWith
  <2>3. childPid' \in BOOLEAN /\ disp' \in Disposition /\ oldDisp' \in Disposition /\ shell' \in ShellPc
    BY DEF IInv, TypeOK, Disposition, ShellPc, Begin, BeginWith
  <2>4. UNCHANGED <<first, second, writers, readers, full, listed, printed>>
    BY DEF Begin, BeginWith, pipeVars
  <2> QED
    BY <2>1, <2>2, <2>3, <2>4 DEF IInv, TypeOK
<1>2. LaunchUnderWay'
  BY DEF IInv, TypeOK, LaunchUnderWay, Begin, BeginWith, pipeVars
<1>3. NotYet'
  BY DEF IInv, TypeOK, LaunchUnderWay, NotYet, Coming, Begin, BeginWith, pipeVars
<1>4. Ignoring'
  BY DEF IInv, TypeOK, Ignoring, Begin, BeginWith, pipeVars
<1>5. EndsHeld'
  BY DEF IInv, TypeOK, LaunchUnderWay, NotYet, Coming, EndsHeld, Begin, BeginWith, pipeVars
<1>6. NumberIsReal'
  BY DEF IInv, TypeOK, LaunchUnderWay, NotYet, Coming, EndsHeld, NumberIsReal, Begin, BeginWith,
     pipeVars
<1>7. KnownIsListed'
  BY DEF IInv, TypeOK, LaunchUnderWay, NotYet, Coming, NumberIsReal, KnownIsListed, Begin,
     BeginWith, pipeVars
<1>8. ListedAgrees'
  BY DEF IInv, TypeOK, LaunchUnderWay, NotYet, Coming, KnownIsListed, ListedAgrees, Begin,
     BeginWith, pipeVars
<1>9. CtrlCIsToBlame'
  <2>1. LeftBehind' \subseteq LeftBehind
    BY DEF IInv, TypeOK, LaunchUnderWay, NotYet, Coming, EndsHeld, NumberIsReal, KnownIsListed,
       Ignoring, CtrlCIsToBlame, LeftBehind, Begin, BeginWith, pipeVars
  <2>2. Unheard' \subseteq Unheard
    BY DEF IInv, TypeOK, LaunchUnderWay, NotYet, Coming, EndsHeld, NumberIsReal, KnownIsListed,
       Ignoring, CtrlCIsToBlame, Unheard, Begin, BeginWith, pipeVars
  <2>3. UNCHANGED sigints /\ (sigchld' => sigchld)
    BY DEF Begin, BeginWith, pipeVars
  <2> QED
    BY <2>1, <2>2, <2>3, BlameStays
<1> QED
  BY <1>1, <1>2, <1>3, <1>4, <1>5, <1>6, <1>7, <1>8, <1>9 DEF IInv

\* Only the shell holds the new pipe.
LEMMA MakePipeStep ==
  ASSUME IInv, MakePipe
  PROVE  IInv'
<1> USE DEF Launch
<1>1. TypeOK'
  BY DEF IInv, TypeOK, LaunchUnderWay, BgLaunchAssumption, ShellPc, FirstPc, SecondPc,
     Disposition, Launch, Actor, MakePipe
<1>2. LaunchUnderWay'
  BY DEF IInv, TypeOK, LaunchUnderWay, MakePipe
<1>3. NotYet'
  BY DEF IInv, TypeOK, LaunchUnderWay, NotYet, Coming, MakePipe
<1>4. Ignoring'
  BY DEF IInv, TypeOK, Ignoring, MakePipe
<1>5. EndsHeld'
  BY DEF IInv, TypeOK, LaunchUnderWay, NotYet, Coming, EndsHeld, MakePipe
<1>6. NumberIsReal'
  BY DEF IInv, TypeOK, LaunchUnderWay, NotYet, Coming, EndsHeld, NumberIsReal, MakePipe
<1>7. KnownIsListed'
  BY DEF IInv, TypeOK, LaunchUnderWay, NotYet, Coming, NumberIsReal, KnownIsListed, MakePipe
<1>8. ListedAgrees'
  BY DEF IInv, TypeOK, LaunchUnderWay, NotYet, Coming, KnownIsListed, ListedAgrees, MakePipe
<1>9. CtrlCIsToBlame'
  <2>1. LeftBehind' \subseteq LeftBehind
    BY DEF IInv, TypeOK, LaunchUnderWay, NotYet, Coming, EndsHeld, NumberIsReal, KnownIsListed,
       Ignoring, CtrlCIsToBlame, LeftBehind, MakePipe
  <2>2. Unheard' \subseteq Unheard
    BY DEF IInv, TypeOK, LaunchUnderWay, NotYet, Coming, EndsHeld, NumberIsReal, KnownIsListed,
       Ignoring, CtrlCIsToBlame, Unheard, MakePipe
  <2>3. UNCHANGED sigints /\ (sigchld' => sigchld)
    BY DEF MakePipe
  <2> QED
    BY <2>1, <2>2, <2>3, BlameStays
<1> QED
  BY <1>1, <1>2, <1>3, <1>4, <1>5, <1>6, <1>7, <1>8, <1>9 DEF IInv

\* Without a pipe nothing was started.
LEMMA PipeFailsStep ==
  ASSUME IInv, PipeFails
  PROVE  IInv'
<1> USE DEF Launch
<1>1. TypeOK'
  BY DEF IInv, TypeOK, LaunchUnderWay, BgLaunchAssumption, ShellPc, FirstPc, SecondPc,
     Disposition, Launch, Actor, PipeFails, GiveUp, pipeVars
<1>2. LaunchUnderWay'
  BY DEF IInv, TypeOK, LaunchUnderWay, PipeFails, GiveUp, pipeVars
<1>3. NotYet'
  BY DEF IInv, TypeOK, LaunchUnderWay, NotYet, Coming, PipeFails, GiveUp, pipeVars
<1>4. Ignoring'
  BY DEF IInv, TypeOK, Ignoring, PipeFails, GiveUp, pipeVars
<1>5. EndsHeld'
  BY DEF IInv, TypeOK, LaunchUnderWay, NotYet, Coming, EndsHeld, PipeFails, GiveUp, pipeVars
<1>6. NumberIsReal'
  BY DEF IInv, TypeOK, LaunchUnderWay, NotYet, Coming, EndsHeld, NumberIsReal, PipeFails,
     GiveUp, pipeVars
<1>7. KnownIsListed'
  BY DEF IInv, TypeOK, LaunchUnderWay, NotYet, Coming, NumberIsReal, KnownIsListed, PipeFails,
     GiveUp, pipeVars
<1>8. ListedAgrees'
  BY DEF IInv, TypeOK, LaunchUnderWay, NotYet, Coming, KnownIsListed, ListedAgrees, PipeFails,
     GiveUp, pipeVars
<1>9. CtrlCIsToBlame'
  <2>1. LeftBehind' \subseteq LeftBehind
    BY DEF IInv, TypeOK, LaunchUnderWay, NotYet, Coming, EndsHeld, NumberIsReal, KnownIsListed,
       Ignoring, CtrlCIsToBlame, LeftBehind, PipeFails, GiveUp, pipeVars
  <2>2. Unheard' \subseteq Unheard
    BY DEF IInv, TypeOK, LaunchUnderWay, NotYet, Coming, EndsHeld, NumberIsReal, KnownIsListed,
       Ignoring, CtrlCIsToBlame, Unheard, PipeFails, GiveUp, pipeVars
  <2>3. UNCHANGED sigints /\ (sigchld' => sigchld)
    BY DEF PipeFails, GiveUp, pipeVars
  <2> QED
    BY <2>1, <2>2, <2>3, BlameStays
<1> QED
  BY <1>1, <1>2, <1>3, <1>4, <1>5, <1>6, <1>7, <1>8, <1>9 DEF IInv

\* The first child is awaited from its fork on.
LEMMA ForkFirstStep ==
  ASSUME IInv, ForkFirst
  PROVE  IInv'
<1> USE DEF Launch
<1>1. TypeOK'
  BY DEF IInv, TypeOK, LaunchUnderWay, BgLaunchAssumption, ShellPc, FirstPc, SecondPc,
     Disposition, Launch, Actor, ForkFirst
<1>2. LaunchUnderWay'
  BY DEF IInv, TypeOK, LaunchUnderWay, ForkFirst
<1>3. NotYet'
  BY DEF IInv, TypeOK, LaunchUnderWay, NotYet, Coming, ForkFirst
<1>4. Ignoring'
  BY DEF IInv, TypeOK, Ignoring, ForkFirst
<1>5. EndsHeld'
  BY DEF IInv, TypeOK, LaunchUnderWay, NotYet, Coming, EndsHeld, ForkFirst
<1>6. NumberIsReal'
  BY DEF IInv, TypeOK, LaunchUnderWay, NotYet, Coming, EndsHeld, NumberIsReal, ForkFirst
<1>7. KnownIsListed'
  BY DEF IInv, TypeOK, LaunchUnderWay, NotYet, Coming, NumberIsReal, KnownIsListed, ForkFirst
<1>8. ListedAgrees'
  BY DEF IInv, TypeOK, LaunchUnderWay, NotYet, Coming, KnownIsListed, ListedAgrees, ForkFirst
<1>9. CtrlCIsToBlame'
  <2>1. LeftBehind' \subseteq LeftBehind
    BY DEF IInv, TypeOK, LaunchUnderWay, NotYet, Coming, EndsHeld, NumberIsReal, KnownIsListed,
       Ignoring, CtrlCIsToBlame, LeftBehind, ForkFirst
  <2>2. Unheard' \subseteq Unheard
    BY DEF IInv, TypeOK, LaunchUnderWay, NotYet, Coming, EndsHeld, NumberIsReal, KnownIsListed,
       Ignoring, CtrlCIsToBlame, Unheard, ForkFirst
  <2>3. UNCHANGED sigints /\ (sigchld' => sigchld)
    BY DEF ForkFirst
  <2> QED
    BY <2>1, <2>2, <2>3, BlameStays
<1> QED
  BY <1>1, <1>2, <1>3, <1>4, <1>5, <1>6, <1>7, <1>8, <1>9 DEF IInv

\* Without a first child the pipe is closed again.
LEMMA ForkFirstFailsStep ==
  ASSUME IInv, ForkFirstFails
  PROVE  IInv'
<1> USE DEF Launch
<1>1. TypeOK'
  BY DEF IInv, TypeOK, LaunchUnderWay, BgLaunchAssumption, ShellPc, FirstPc, SecondPc,
     Disposition, Launch, Actor, ForkFirstFails, GiveUp, Closes
<1>2. LaunchUnderWay'
  BY DEF IInv, TypeOK, LaunchUnderWay, ForkFirstFails, GiveUp, Closes
<1>3. NotYet'
  BY DEF IInv, TypeOK, LaunchUnderWay, NotYet, Coming, ForkFirstFails, GiveUp, Closes
<1>4. Ignoring'
  BY DEF IInv, TypeOK, Ignoring, ForkFirstFails, GiveUp, Closes
<1>5. EndsHeld'
  BY DEF IInv, TypeOK, LaunchUnderWay, NotYet, Coming, EndsHeld, ForkFirstFails, GiveUp, Closes
<1>6. NumberIsReal'
  BY DEF IInv, TypeOK, LaunchUnderWay, NotYet, Coming, EndsHeld, NumberIsReal, ForkFirstFails,
     GiveUp, Closes
<1>7. KnownIsListed'
  BY DEF IInv, TypeOK, LaunchUnderWay, NotYet, Coming, NumberIsReal, KnownIsListed,
     ForkFirstFails, GiveUp, Closes
<1>8. ListedAgrees'
  BY DEF IInv, TypeOK, LaunchUnderWay, NotYet, Coming, KnownIsListed, ListedAgrees,
     ForkFirstFails, GiveUp, Closes
<1>9. CtrlCIsToBlame'
  <2>1. LeftBehind' \subseteq LeftBehind
    BY DEF IInv, TypeOK, LaunchUnderWay, NotYet, Coming, EndsHeld, NumberIsReal, KnownIsListed,
       Ignoring, CtrlCIsToBlame, LeftBehind, ForkFirstFails, GiveUp, Closes
  <2>2. Unheard' \subseteq Unheard
    BY DEF IInv, TypeOK, LaunchUnderWay, NotYet, Coming, EndsHeld, NumberIsReal, KnownIsListed,
       Ignoring, CtrlCIsToBlame, Unheard, ForkFirstFails, GiveUp, Closes
  <2>3. UNCHANGED sigints /\ (sigchld' => sigchld)
    BY DEF ForkFirstFails, GiveUp, Closes
  <2> QED
    BY <2>1, <2>2, <2>3, BlameStays
<1> QED
  BY <1>1, <1>2, <1>3, <1>4, <1>5, <1>6, <1>7, <1>8, <1>9 DEF IInv

\* From now on only the children can write.
LEMMA CloseWriteEndStep ==
  ASSUME IInv, CloseWriteEnd
  PROVE  IInv'
<1> USE DEF Launch
<1>1. TypeOK'
  BY DEF IInv, TypeOK, LaunchUnderWay, BgLaunchAssumption, ShellPc, FirstPc, SecondPc,
     Disposition, Launch, Actor, CloseWriteEnd, Closes
<1>2. LaunchUnderWay'
  BY DEF IInv, TypeOK, LaunchUnderWay, CloseWriteEnd, Closes
<1>3. NotYet'
  BY DEF IInv, TypeOK, LaunchUnderWay, NotYet, Coming, CloseWriteEnd, Closes
<1>4. Ignoring'
  BY DEF IInv, TypeOK, Ignoring, CloseWriteEnd, Closes
<1>5. EndsHeld'
  BY DEF IInv, TypeOK, LaunchUnderWay, NotYet, Coming, EndsHeld, CloseWriteEnd, Closes
<1>6. NumberIsReal'
  BY DEF IInv, TypeOK, LaunchUnderWay, NotYet, Coming, EndsHeld, NumberIsReal, CloseWriteEnd,
     Closes
<1>7. KnownIsListed'
  BY DEF IInv, TypeOK, LaunchUnderWay, NotYet, Coming, NumberIsReal, KnownIsListed,
     CloseWriteEnd, Closes
<1>8. ListedAgrees'
  BY DEF IInv, TypeOK, LaunchUnderWay, NotYet, Coming, KnownIsListed, ListedAgrees,
     CloseWriteEnd, Closes
<1>9. CtrlCIsToBlame'
  <2>1. LeftBehind' \subseteq LeftBehind
    BY DEF IInv, TypeOK, LaunchUnderWay, NotYet, Coming, EndsHeld, NumberIsReal, KnownIsListed,
       Ignoring, CtrlCIsToBlame, LeftBehind, CloseWriteEnd, Closes
  <2>2. Unheard' \subseteq Unheard
    BY DEF IInv, TypeOK, LaunchUnderWay, NotYet, Coming, EndsHeld, NumberIsReal, KnownIsListed,
       Ignoring, CtrlCIsToBlame, Unheard, CloseWriteEnd, Closes
  <2>3. UNCHANGED sigints /\ (sigchld' => sigchld)
    BY DEF CloseWriteEnd, Closes
  <2> QED
    BY <2>1, <2>2, <2>3, BlameStays
<1> QED
  BY <1>1, <1>2, <1>3, <1>4, <1>5, <1>6, <1>7, <1>8, <1>9 DEF IInv

\* The read returns the number unless the second fork failed.
LEMMA ReadPidStep ==
  ASSUME IInv, ReadPid
  PROVE  IInv'
<1> USE DEF Launch
<1>1. TypeOK'
  BY DEF IInv, TypeOK, LaunchUnderWay, BgLaunchAssumption, ShellPc, FirstPc, SecondPc,
     Disposition, Launch, Actor, ReadPid, Closes, Readable
<1>2. LaunchUnderWay'
  BY DEF IInv, TypeOK, LaunchUnderWay, ReadPid, Closes, Readable
<1>3. NotYet'
  BY DEF IInv, TypeOK, LaunchUnderWay, NotYet, Coming, ReadPid, Closes, Readable
<1>4. Ignoring'
  BY DEF IInv, TypeOK, Ignoring, ReadPid, Closes, Readable
<1>5. EndsHeld'
  BY DEF IInv, TypeOK, LaunchUnderWay, NotYet, Coming, EndsHeld, ReadPid, Closes, Readable
<1>6. NumberIsReal'
  BY DEF IInv, TypeOK, LaunchUnderWay, NotYet, Coming, EndsHeld, NumberIsReal, ReadPid, Closes,
     Readable
<1>7. KnownIsListed'
  BY DEF IInv, TypeOK, LaunchUnderWay, NotYet, Coming, NumberIsReal, KnownIsListed, ReadPid,
     Closes, Readable
<1>8. ListedAgrees'
  BY DEF IInv, TypeOK, LaunchUnderWay, NotYet, Coming, KnownIsListed, ListedAgrees, ReadPid,
     Closes, Readable
<1>9. CtrlCIsToBlame'
  <2>1. LeftBehind' \subseteq LeftBehind
    BY DEF IInv, TypeOK, LaunchUnderWay, NotYet, Coming, EndsHeld, NumberIsReal, KnownIsListed,
       Ignoring, CtrlCIsToBlame, LeftBehind, ReadPid, Closes, Readable
  <2>2. Unheard' \subseteq Unheard
    BY DEF IInv, TypeOK, LaunchUnderWay, NotYet, Coming, EndsHeld, NumberIsReal, KnownIsListed,
       Ignoring, CtrlCIsToBlame, Unheard, ReadPid, Closes, Readable
  <2>3. UNCHANGED sigints /\ (sigchld' => sigchld)
    BY DEF ReadPid, Closes, Readable
  <2> QED
    BY <2>1, <2>2, <2>3, BlameStays
<1> QED
  BY <1>1, <1>2, <1>3, <1>4, <1>5, <1>6, <1>7, <1>8, <1>9 DEF IInv

\* A number that was read is listed.
LEMMA ListJobStep ==
  ASSUME IInv, ListJob
  PROVE  IInv'
<1> USE DEF Launch
<1>1. TypeOK'
  BY DEF IInv, TypeOK, LaunchUnderWay, BgLaunchAssumption, ShellPc, FirstPc, SecondPc,
     Disposition, Launch, Actor, ListJob, ListIf, pipeVars
<1>2. LaunchUnderWay'
  BY DEF IInv, TypeOK, LaunchUnderWay, ListJob, ListIf, pipeVars
<1>3. NotYet'
  BY DEF IInv, TypeOK, LaunchUnderWay, NotYet, Coming, ListJob, ListIf, pipeVars
<1>4. Ignoring'
  BY DEF IInv, TypeOK, Ignoring, ListJob, ListIf, pipeVars
<1>5. EndsHeld'
  BY DEF IInv, TypeOK, LaunchUnderWay, NotYet, Coming, EndsHeld, ListJob, ListIf, pipeVars
<1>6. NumberIsReal'
  BY DEF IInv, TypeOK, LaunchUnderWay, NotYet, Coming, EndsHeld, NumberIsReal, ListJob, ListIf,
     pipeVars
<1>7. KnownIsListed'
  BY DEF IInv, TypeOK, LaunchUnderWay, NotYet, Coming, NumberIsReal, KnownIsListed, ListJob,
     ListIf, pipeVars
<1>8. ListedAgrees'
  BY DEF IInv, TypeOK, LaunchUnderWay, NotYet, Coming, KnownIsListed, ListedAgrees, ListJob,
     ListIf, pipeVars
<1>9. CtrlCIsToBlame'
  <2>1. LeftBehind' \subseteq LeftBehind
    BY DEF IInv, TypeOK, LaunchUnderWay, NotYet, Coming, EndsHeld, NumberIsReal, KnownIsListed,
       Ignoring, CtrlCIsToBlame, LeftBehind, ListJob, ListIf, pipeVars
  <2>2. Unheard' \subseteq Unheard
    BY DEF IInv, TypeOK, LaunchUnderWay, NotYet, Coming, EndsHeld, NumberIsReal, KnownIsListed,
       Ignoring, CtrlCIsToBlame, Unheard, ListJob, ListIf, pipeVars
  <2>3. UNCHANGED sigints /\ (sigchld' => sigchld)
    BY DEF ListJob, ListIf, pipeVars
  <2> QED
    BY <2>1, <2>2, <2>3, BlameStays
<1> QED
  BY <1>1, <1>2, <1>3, <1>4, <1>5, <1>6, <1>7, <1>8, <1>9 DEF IInv

\* The first child is gone when the wait returns.
LEMMA WaitFirstStep ==
  ASSUME IInv, WaitFirst
  PROVE  IInv'
<1> USE DEF Launch
<1>1. TypeOK'
  BY DEF IInv, TypeOK, LaunchUnderWay, BgLaunchAssumption, ShellPc, FirstPc, SecondPc,
     Disposition, Launch, Actor, WaitFirst, FirstIsOver, pipeVars
<1>2. LaunchUnderWay'
  BY DEF IInv, TypeOK, LaunchUnderWay, WaitFirst, FirstIsOver, pipeVars
<1>3. NotYet'
  BY DEF IInv, TypeOK, LaunchUnderWay, NotYet, Coming, WaitFirst, FirstIsOver, pipeVars
<1>4. Ignoring'
  BY DEF IInv, TypeOK, Ignoring, WaitFirst, FirstIsOver, pipeVars
<1>5. EndsHeld'
  BY DEF IInv, TypeOK, LaunchUnderWay, NotYet, Coming, EndsHeld, WaitFirst, FirstIsOver,
     pipeVars
<1>6. NumberIsReal'
  BY DEF IInv, TypeOK, LaunchUnderWay, NotYet, Coming, EndsHeld, NumberIsReal, WaitFirst,
     FirstIsOver, pipeVars
<1>7. KnownIsListed'
  BY DEF IInv, TypeOK, LaunchUnderWay, NotYet, Coming, NumberIsReal, KnownIsListed, WaitFirst,
     FirstIsOver, pipeVars
<1>8. ListedAgrees'
  BY DEF IInv, TypeOK, LaunchUnderWay, NotYet, Coming, KnownIsListed, ListedAgrees, WaitFirst,
     FirstIsOver, pipeVars
<1>9. CtrlCIsToBlame'
  <2>1. LeftBehind' \subseteq LeftBehind
    BY DEF IInv, TypeOK, LaunchUnderWay, NotYet, Coming, EndsHeld, NumberIsReal, KnownIsListed,
       Ignoring, CtrlCIsToBlame, LeftBehind, WaitFirst, FirstIsOver, pipeVars
  <2>2. Unheard' \subseteq Unheard
    BY DEF IInv, TypeOK, LaunchUnderWay, NotYet, Coming, EndsHeld, NumberIsReal, KnownIsListed,
       Ignoring, CtrlCIsToBlame, Unheard, WaitFirst, FirstIsOver, pipeVars
  <2>3. UNCHANGED sigints /\ (sigchld' => sigchld)
    BY DEF WaitFirst, FirstIsOver, pipeVars
  <2> QED
    BY <2>1, <2>2, <2>3, BlameStays
<1> QED
  BY <1>1, <1>2, <1>3, <1>4, <1>5, <1>6, <1>7, <1>8, <1>9 DEF IInv

\* What is printed is what was listed.
LEMMA PrintJobStep ==
  ASSUME IInv, PrintJob
  PROVE  IInv'
<1> USE DEF Launch
<1>1. TypeOK'
  BY DEF IInv, TypeOK, LaunchUnderWay, BgLaunchAssumption, ShellPc, FirstPc, SecondPc,
     Disposition, Launch, Actor, PrintJob, pipeVars
<1>2. LaunchUnderWay'
  BY DEF IInv, TypeOK, LaunchUnderWay, PrintJob, pipeVars
<1>3. NotYet'
  BY DEF IInv, TypeOK, LaunchUnderWay, NotYet, Coming, PrintJob, pipeVars
<1>4. Ignoring'
  BY DEF IInv, TypeOK, Ignoring, PrintJob, pipeVars
<1>5. EndsHeld'
  BY DEF IInv, TypeOK, LaunchUnderWay, NotYet, Coming, EndsHeld, PrintJob, pipeVars
<1>6. NumberIsReal'
  BY DEF IInv, TypeOK, LaunchUnderWay, NotYet, Coming, EndsHeld, NumberIsReal, PrintJob,
     pipeVars
<1>7. KnownIsListed'
  BY DEF IInv, TypeOK, LaunchUnderWay, NotYet, Coming, NumberIsReal, KnownIsListed, PrintJob,
     pipeVars
<1>8. ListedAgrees'
  BY DEF IInv, TypeOK, LaunchUnderWay, NotYet, Coming, KnownIsListed, ListedAgrees, PrintJob,
     pipeVars
<1>9. CtrlCIsToBlame'
  <2>1. LeftBehind' \subseteq LeftBehind
    BY DEF IInv, TypeOK, LaunchUnderWay, NotYet, Coming, EndsHeld, NumberIsReal, KnownIsListed,
       Ignoring, CtrlCIsToBlame, LeftBehind, PrintJob, pipeVars
  <2>2. Unheard' \subseteq Unheard
    BY DEF IInv, TypeOK, LaunchUnderWay, NotYet, Coming, EndsHeld, NumberIsReal, KnownIsListed,
       Ignoring, CtrlCIsToBlame, Unheard, PrintJob, pipeVars
  <2>3. UNCHANGED sigints /\ (sigchld' => sigchld)
    BY DEF PrintJob, pipeVars
  <2> QED
    BY <2>1, <2>2, <2>3, BlameStays
<1> QED
  BY <1>1, <1>2, <1>3, <1>4, <1>5, <1>6, <1>7, <1>8, <1>9 DEF IInv

\* The first child gives up its read end.
LEMMA FirstStartsStep ==
  ASSUME IInv, NEW l \in Launch, FirstStarts(l)
  PROVE  IInv'
<1> USE DEF Launch
<1>1. TypeOK'
  BY DEF IInv, TypeOK, LaunchUnderWay, BgLaunchAssumption, ShellPc, FirstPc, SecondPc,
     Disposition, Launch, Actor, FirstStarts, Closes
<1>2. LaunchUnderWay'
  BY DEF IInv, TypeOK, LaunchUnderWay, FirstStarts, Closes
<1>3. NotYet'
  BY DEF IInv, TypeOK, LaunchUnderWay, NotYet, Coming, FirstStarts, Closes
<1>4. Ignoring'
  BY DEF IInv, TypeOK, Ignoring, FirstStarts, Closes
<1>5. EndsHeld'
  BY DEF IInv, TypeOK, LaunchUnderWay, NotYet, Coming, EndsHeld, FirstStarts, Closes
<1>6. NumberIsReal'
  BY DEF IInv, TypeOK, LaunchUnderWay, NotYet, Coming, EndsHeld, NumberIsReal, FirstStarts,
     Closes
<1>7. KnownIsListed'
  BY DEF IInv, TypeOK, LaunchUnderWay, NotYet, Coming, NumberIsReal, KnownIsListed, FirstStarts,
     Closes
<1>8. ListedAgrees'
  BY DEF IInv, TypeOK, LaunchUnderWay, NotYet, Coming, KnownIsListed, ListedAgrees, FirstStarts,
     Closes
<1>9. CtrlCIsToBlame'
  <2>1. LeftBehind' \subseteq LeftBehind
    BY DEF IInv, TypeOK, LaunchUnderWay, NotYet, Coming, EndsHeld, NumberIsReal, KnownIsListed,
       Ignoring, CtrlCIsToBlame, LeftBehind, FirstStarts, Closes
  <2>2. Unheard' \subseteq Unheard
    BY DEF IInv, TypeOK, LaunchUnderWay, NotYet, Coming, EndsHeld, NumberIsReal, KnownIsListed,
       Ignoring, CtrlCIsToBlame, Unheard, FirstStarts, Closes
  <2>3. UNCHANGED sigints /\ (sigchld' => sigchld)
    BY DEF FirstStarts, Closes
  <2> QED
    BY <2>1, <2>2, <2>3, BlameStays
<1> QED
  BY <1>1, <1>2, <1>3, <1>4, <1>5, <1>6, <1>7, <1>8, <1>9 DEF IInv

\* A second child starts only here.
LEMMA ForkSecondStep ==
  ASSUME IInv, NEW l \in Launch, ForkSecond(l)
  PROVE  IInv'
<1> USE DEF Launch
<1>1. TypeOK'
  BY DEF IInv, TypeOK, LaunchUnderWay, BgLaunchAssumption, ShellPc, FirstPc, SecondPc,
     Disposition, Launch, Actor, ForkSecond
<1>2. LaunchUnderWay'
  BY DEF IInv, TypeOK, LaunchUnderWay, ForkSecond
<1>3. NotYet'
  BY DEF IInv, TypeOK, LaunchUnderWay, NotYet, Coming, ForkSecond
<1>4. Ignoring'
  BY DEF IInv, TypeOK, Ignoring, ForkSecond
<1>5. EndsHeld'
  BY DEF IInv, TypeOK, LaunchUnderWay, NotYet, Coming, EndsHeld, ForkSecond
<1>6. NumberIsReal'
  BY DEF IInv, TypeOK, LaunchUnderWay, NotYet, Coming, EndsHeld, NumberIsReal, ForkSecond
<1>7. KnownIsListed'
  BY DEF IInv, TypeOK, LaunchUnderWay, NotYet, Coming, NumberIsReal, KnownIsListed, ForkSecond
<1>8. ListedAgrees'
  BY DEF IInv, TypeOK, LaunchUnderWay, NotYet, Coming, KnownIsListed, ListedAgrees, ForkSecond
<1>9. CtrlCIsToBlame'
  <2>1. LeftBehind' \subseteq LeftBehind
    BY DEF IInv, TypeOK, LaunchUnderWay, NotYet, Coming, EndsHeld, NumberIsReal, KnownIsListed,
       Ignoring, CtrlCIsToBlame, LeftBehind, ForkSecond
  <2>2. Unheard' \subseteq Unheard
    BY DEF IInv, TypeOK, LaunchUnderWay, NotYet, Coming, EndsHeld, NumberIsReal, KnownIsListed,
       Ignoring, CtrlCIsToBlame, Unheard, ForkSecond
  <2>3. UNCHANGED sigints /\ (sigchld' => sigchld)
    BY DEF ForkSecond
  <2> QED
    BY <2>1, <2>2, <2>3, BlameStays
<1> QED
  BY <1>1, <1>2, <1>3, <1>4, <1>5, <1>6, <1>7, <1>8, <1>9 DEF IInv

\* Without a second child nothing will be written.
LEMMA ForkSecondFailsStep ==
  ASSUME IInv, NEW l \in Launch, ForkSecondFails(l)
  PROVE  IInv'
<1> USE DEF Launch
<1>1. TypeOK'
  BY DEF IInv, TypeOK, LaunchUnderWay, BgLaunchAssumption, ShellPc, FirstPc, SecondPc,
     Disposition, Launch, Actor, ForkSecondFails, pipeVars
<1>2. LaunchUnderWay'
  BY DEF IInv, TypeOK, LaunchUnderWay, ForkSecondFails, pipeVars
<1>3. NotYet'
  BY DEF IInv, TypeOK, LaunchUnderWay, NotYet, Coming, ForkSecondFails, pipeVars
<1>4. Ignoring'
  BY DEF IInv, TypeOK, Ignoring, ForkSecondFails, pipeVars
<1>5. EndsHeld'
  BY DEF IInv, TypeOK, LaunchUnderWay, NotYet, Coming, EndsHeld, ForkSecondFails, pipeVars
<1>6. NumberIsReal'
  BY DEF IInv, TypeOK, LaunchUnderWay, NotYet, Coming, EndsHeld, NumberIsReal, ForkSecondFails,
     pipeVars
<1>7. KnownIsListed'
  BY DEF IInv, TypeOK, LaunchUnderWay, NotYet, Coming, NumberIsReal, KnownIsListed,
     ForkSecondFails, pipeVars
<1>8. ListedAgrees'
  BY DEF IInv, TypeOK, LaunchUnderWay, NotYet, Coming, KnownIsListed, ListedAgrees,
     ForkSecondFails, pipeVars
<1>9. CtrlCIsToBlame'
  <2>1. LeftBehind' \subseteq LeftBehind
    BY DEF IInv, TypeOK, LaunchUnderWay, NotYet, Coming, EndsHeld, NumberIsReal, KnownIsListed,
       Ignoring, CtrlCIsToBlame, LeftBehind, ForkSecondFails, pipeVars
  <2>2. Unheard' \subseteq Unheard
    BY DEF IInv, TypeOK, LaunchUnderWay, NotYet, Coming, EndsHeld, NumberIsReal, KnownIsListed,
       Ignoring, CtrlCIsToBlame, Unheard, ForkSecondFails, pipeVars
  <2>3. UNCHANGED sigints /\ (sigchld' => sigchld)
    BY DEF ForkSecondFails, pipeVars
  <2> QED
    BY <2>1, <2>2, <2>3, BlameStays
<1> QED
  BY <1>1, <1>2, <1>3, <1>4, <1>5, <1>6, <1>7, <1>8, <1>9 DEF IInv

\* The number is in the pipe as long as the shell reads.
LEMMA WritePidStep ==
  ASSUME IInv, NEW l \in Launch, WritePid(l)
  PROVE  IInv'
<1> USE DEF Launch
<1>1. TypeOK'
  BY DEF IInv, TypeOK, LaunchUnderWay, BgLaunchAssumption, ShellPc, FirstPc, SecondPc,
     Disposition, Launch, Actor, WritePid
<1>2. LaunchUnderWay'
  BY DEF IInv, TypeOK, LaunchUnderWay, WritePid
<1>3. NotYet'
  BY DEF IInv, TypeOK, LaunchUnderWay, NotYet, Coming, WritePid
<1>4. Ignoring'
  BY DEF IInv, TypeOK, Ignoring, WritePid
<1>5. EndsHeld'
  BY DEF IInv, TypeOK, LaunchUnderWay, NotYet, Coming, EndsHeld, WritePid
<1>6. NumberIsReal'
  BY DEF IInv, TypeOK, LaunchUnderWay, NotYet, Coming, EndsHeld, NumberIsReal, WritePid
<1>7. KnownIsListed'
  BY DEF IInv, TypeOK, LaunchUnderWay, NotYet, Coming, NumberIsReal, KnownIsListed, WritePid
<1>8. ListedAgrees'
  BY DEF IInv, TypeOK, LaunchUnderWay, NotYet, Coming, KnownIsListed, ListedAgrees, WritePid
<1>9. CtrlCIsToBlame'
  <2>1. LeftBehind' \subseteq LeftBehind
    BY DEF IInv, TypeOK, LaunchUnderWay, NotYet, Coming, EndsHeld, NumberIsReal, KnownIsListed,
       Ignoring, CtrlCIsToBlame, LeftBehind, WritePid
  <2>2. Unheard' \subseteq Unheard
    BY DEF IInv, TypeOK, LaunchUnderWay, NotYet, Coming, EndsHeld, NumberIsReal, KnownIsListed,
       Ignoring, CtrlCIsToBlame, Unheard, WritePid
  <2>3. UNCHANGED sigints /\ (sigchld' => sigchld)
    BY DEF WritePid
  <2> QED
    BY <2>1, <2>2, <2>3, BlameStays
<1> QED
  BY <1>1, <1>2, <1>3, <1>4, <1>5, <1>6, <1>7, <1>8, <1>9 DEF IInv

\* The first child writes no more.
LEMMA FirstClosesStep ==
  ASSUME IInv, NEW l \in Launch, FirstCloses(l)
  PROVE  IInv'
<1> USE DEF Launch
<1>1. TypeOK'
  BY DEF IInv, TypeOK, LaunchUnderWay, BgLaunchAssumption, ShellPc, FirstPc, SecondPc,
     Disposition, Launch, Actor, FirstCloses, Closes
<1>2. LaunchUnderWay'
  BY DEF IInv, TypeOK, LaunchUnderWay, FirstCloses, Closes
<1>3. NotYet'
  BY DEF IInv, TypeOK, LaunchUnderWay, NotYet, Coming, FirstCloses, Closes
<1>4. Ignoring'
  BY DEF IInv, TypeOK, Ignoring, FirstCloses, Closes
<1>5. EndsHeld'
  BY DEF IInv, TypeOK, LaunchUnderWay, NotYet, Coming, EndsHeld, FirstCloses, Closes
<1>6. NumberIsReal'
  BY DEF IInv, TypeOK, LaunchUnderWay, NotYet, Coming, EndsHeld, NumberIsReal, FirstCloses,
     Closes
<1>7. KnownIsListed'
  BY DEF IInv, TypeOK, LaunchUnderWay, NotYet, Coming, NumberIsReal, KnownIsListed, FirstCloses,
     Closes
<1>8. ListedAgrees'
  BY DEF IInv, TypeOK, LaunchUnderWay, NotYet, Coming, KnownIsListed, ListedAgrees, FirstCloses,
     Closes
<1>9. CtrlCIsToBlame'
  <2>1. LeftBehind' \subseteq LeftBehind
    BY DEF IInv, TypeOK, LaunchUnderWay, NotYet, Coming, EndsHeld, NumberIsReal, KnownIsListed,
       Ignoring, CtrlCIsToBlame, LeftBehind, FirstCloses, Closes
  <2>2. Unheard' \subseteq Unheard
    BY DEF IInv, TypeOK, LaunchUnderWay, NotYet, Coming, EndsHeld, NumberIsReal, KnownIsListed,
       Ignoring, CtrlCIsToBlame, Unheard, FirstCloses, Closes
  <2>3. UNCHANGED sigints /\ (sigchld' => sigchld)
    BY DEF FirstCloses, Closes
  <2> QED
    BY <2>1, <2>2, <2>3, BlameStays
<1> QED
  BY <1>1, <1>2, <1>3, <1>4, <1>5, <1>6, <1>7, <1>8, <1>9 DEF IInv

\* The exit is heard only when the shell waits no more.
LEMMA FirstExitsStep ==
  ASSUME IInv, NEW l \in Launch, FirstExits(l)
  PROVE  IInv'
<1> USE DEF Launch
<1>1. TypeOK'
  BY DEF IInv, TypeOK, LaunchUnderWay, BgLaunchAssumption, ShellPc, FirstPc, SecondPc,
     Disposition, Launch, Actor, FirstExits, pipeVars
<1>2. LaunchUnderWay'
  BY DEF IInv, TypeOK, LaunchUnderWay, FirstExits, pipeVars
<1>3. NotYet'
  BY DEF IInv, TypeOK, LaunchUnderWay, NotYet, Coming, FirstExits, pipeVars
<1>4. Ignoring'
  BY DEF IInv, TypeOK, Ignoring, FirstExits, pipeVars
<1>5. EndsHeld'
  BY DEF IInv, TypeOK, LaunchUnderWay, NotYet, Coming, EndsHeld, FirstExits, pipeVars
<1>6. NumberIsReal'
  BY DEF IInv, TypeOK, LaunchUnderWay, NotYet, Coming, EndsHeld, NumberIsReal, FirstExits,
     pipeVars
<1>7. KnownIsListed'
  BY DEF IInv, TypeOK, LaunchUnderWay, NotYet, Coming, NumberIsReal, KnownIsListed, FirstExits,
     pipeVars
<1>8. ListedAgrees'
  BY DEF IInv, TypeOK, LaunchUnderWay, NotYet, Coming, KnownIsListed, ListedAgrees, FirstExits,
     pipeVars
<1>9. CtrlCIsToBlame'
  <2>1. LeftBehind' \subseteq LeftBehind
    BY DEF IInv, TypeOK, LaunchUnderWay, NotYet, Coming, EndsHeld, NumberIsReal, KnownIsListed,
       Ignoring, CtrlCIsToBlame, LeftBehind, FirstExits, pipeVars
  <2>2. Unheard' \subseteq Unheard
    BY DEF IInv, TypeOK, LaunchUnderWay, NotYet, Coming, EndsHeld, NumberIsReal, KnownIsListed,
       Ignoring, CtrlCIsToBlame, Unheard, FirstExits, pipeVars
  <2>3. UNCHANGED sigints /\ (sigchld' => sigchld \/ sigints > 0)
    <3>1. disp = "handler" => l \in LeftBehind
      BY DEF IInv, Ignoring, LeftBehind, FirstExits, pipeVars
    <3> QED
      BY <3>1, BlamedForOne DEF FirstExits, pipeVars
  <2> QED
    BY <2>1, <2>2, <2>3, BlameStays
<1> QED
  BY <1>1, <1>2, <1>3, <1>4, <1>5, <1>6, <1>7, <1>8, <1>9 DEF IInv

\* The second child drops the write end.
LEMMA SecondClosesStep ==
  ASSUME IInv, NEW l \in Launch, SecondCloses(l)
  PROVE  IInv'
<1> USE DEF Launch
<1>1. TypeOK'
  BY DEF IInv, TypeOK, LaunchUnderWay, BgLaunchAssumption, ShellPc, FirstPc, SecondPc,
     Disposition, Launch, Actor, SecondCloses, Closes
<1>2. LaunchUnderWay'
  BY DEF IInv, TypeOK, LaunchUnderWay, SecondCloses, Closes
<1>3. NotYet'
  BY DEF IInv, TypeOK, LaunchUnderWay, NotYet, Coming, SecondCloses, Closes
<1>4. Ignoring'
  BY DEF IInv, TypeOK, Ignoring, SecondCloses, Closes
<1>5. EndsHeld'
  BY DEF IInv, TypeOK, LaunchUnderWay, NotYet, Coming, EndsHeld, SecondCloses, Closes
<1>6. NumberIsReal'
  BY DEF IInv, TypeOK, LaunchUnderWay, NotYet, Coming, EndsHeld, NumberIsReal, SecondCloses,
     Closes
<1>7. KnownIsListed'
  BY DEF IInv, TypeOK, LaunchUnderWay, NotYet, Coming, NumberIsReal, KnownIsListed,
     SecondCloses, Closes
<1>8. ListedAgrees'
  BY DEF IInv, TypeOK, LaunchUnderWay, NotYet, Coming, KnownIsListed, ListedAgrees,
     SecondCloses, Closes
<1>9. CtrlCIsToBlame'
  <2>1. LeftBehind' \subseteq LeftBehind
    BY DEF IInv, TypeOK, LaunchUnderWay, NotYet, Coming, EndsHeld, NumberIsReal, KnownIsListed,
       Ignoring, CtrlCIsToBlame, LeftBehind, SecondCloses, Closes
  <2>2. Unheard' \subseteq Unheard
    BY DEF IInv, TypeOK, LaunchUnderWay, NotYet, Coming, EndsHeld, NumberIsReal, KnownIsListed,
       Ignoring, CtrlCIsToBlame, Unheard, SecondCloses, Closes
  <2>3. UNCHANGED sigints /\ (sigchld' => sigchld)
    BY DEF SecondCloses, Closes
  <2> QED
    BY <2>1, <2>2, <2>3, BlameStays
<1> QED
  BY <1>1, <1>2, <1>3, <1>4, <1>5, <1>6, <1>7, <1>8, <1>9 DEF IInv

\* The command runs.
LEMMA ExecStep ==
  ASSUME IInv, NEW l \in Launch, Exec(l)
  PROVE  IInv'
<1> USE DEF Launch
<1>1. TypeOK'
  BY DEF IInv, TypeOK, LaunchUnderWay, BgLaunchAssumption, ShellPc, FirstPc, SecondPc,
     Disposition, Launch, Actor, Exec, pipeVars
<1>2. LaunchUnderWay'
  BY DEF IInv, TypeOK, LaunchUnderWay, Exec, pipeVars
<1>3. NotYet'
  BY DEF IInv, TypeOK, LaunchUnderWay, NotYet, Coming, Exec, pipeVars
<1>4. Ignoring'
  BY DEF IInv, TypeOK, Ignoring, Exec, pipeVars
<1>5. EndsHeld'
  BY DEF IInv, TypeOK, LaunchUnderWay, NotYet, Coming, EndsHeld, Exec, pipeVars
<1>6. NumberIsReal'
  BY DEF IInv, TypeOK, LaunchUnderWay, NotYet, Coming, EndsHeld, NumberIsReal, Exec, pipeVars
<1>7. KnownIsListed'
  BY DEF IInv, TypeOK, LaunchUnderWay, NotYet, Coming, NumberIsReal, KnownIsListed, Exec,
     pipeVars
<1>8. ListedAgrees'
  BY DEF IInv, TypeOK, LaunchUnderWay, NotYet, Coming, KnownIsListed, ListedAgrees, Exec,
     pipeVars
<1>9. CtrlCIsToBlame'
  <2>1. LeftBehind' \subseteq LeftBehind
    BY DEF IInv, TypeOK, LaunchUnderWay, NotYet, Coming, EndsHeld, NumberIsReal, KnownIsListed,
       Ignoring, CtrlCIsToBlame, LeftBehind, Exec, pipeVars
  <2>2. Unheard' \subseteq Unheard
    BY DEF IInv, TypeOK, LaunchUnderWay, NotYet, Coming, EndsHeld, NumberIsReal, KnownIsListed,
       Ignoring, CtrlCIsToBlame, Unheard, Exec, pipeVars
  <2>3. UNCHANGED sigints /\ (sigchld' => sigchld)
    BY DEF Exec, pipeVars
  <2> QED
    BY <2>1, <2>2, <2>3, BlameStays
<1> QED
  BY <1>1, <1>2, <1>3, <1>4, <1>5, <1>6, <1>7, <1>8, <1>9 DEF IInv

\* The command ends.
LEMMA CommandEndsStep ==
  ASSUME IInv, NEW l \in Launch, CommandEnds(l)
  PROVE  IInv'
<1> USE DEF Launch
<1>1. TypeOK'
  BY DEF IInv, TypeOK, LaunchUnderWay, BgLaunchAssumption, ShellPc, FirstPc, SecondPc,
     Disposition, Launch, Actor, CommandEnds, pipeVars
<1>2. LaunchUnderWay'
  BY DEF IInv, TypeOK, LaunchUnderWay, CommandEnds, pipeVars
<1>3. NotYet'
  BY DEF IInv, TypeOK, LaunchUnderWay, NotYet, Coming, CommandEnds, pipeVars
<1>4. Ignoring'
  BY DEF IInv, TypeOK, Ignoring, CommandEnds, pipeVars
<1>5. EndsHeld'
  BY DEF IInv, TypeOK, LaunchUnderWay, NotYet, Coming, EndsHeld, CommandEnds, pipeVars
<1>6. NumberIsReal'
  BY DEF IInv, TypeOK, LaunchUnderWay, NotYet, Coming, EndsHeld, NumberIsReal, CommandEnds,
     pipeVars
<1>7. KnownIsListed'
  BY DEF IInv, TypeOK, LaunchUnderWay, NotYet, Coming, NumberIsReal, KnownIsListed, CommandEnds,
     pipeVars
<1>8. ListedAgrees'
  BY DEF IInv, TypeOK, LaunchUnderWay, NotYet, Coming, KnownIsListed, ListedAgrees, CommandEnds,
     pipeVars
<1>9. CtrlCIsToBlame'
  <2>1. LeftBehind' \subseteq LeftBehind
    BY DEF IInv, TypeOK, LaunchUnderWay, NotYet, Coming, EndsHeld, NumberIsReal, KnownIsListed,
       Ignoring, CtrlCIsToBlame, LeftBehind, CommandEnds, pipeVars
  <2>2. Unheard' \subseteq Unheard
    BY DEF IInv, TypeOK, LaunchUnderWay, NotYet, Coming, EndsHeld, NumberIsReal, KnownIsListed,
       Ignoring, CtrlCIsToBlame, Unheard, CommandEnds, pipeVars
  <2>3. UNCHANGED sigints /\ (sigchld' => sigchld)
    BY DEF CommandEnds, pipeVars
  <2> QED
    BY <2>1, <2>2, <2>3, BlameStays
<1> QED
  BY <1>1, <1>2, <1>3, <1>4, <1>5, <1>6, <1>7, <1>8, <1>9 DEF IInv

\* A Ctrl-C may leave one first child behind, or one command unlisted.
LEMMA SigintStep ==
  ASSUME IInv, Sigint
  PROVE  IInv'
<1> DEFINE Interrupted == shell = "read" /\ ~ Readable
           Abandoned == shell = "wait" /\ ~ FirstIsOver
<1>1. CASE Interrupted
  <2> USE DEF Launch
  <2>0. /\ shell = "read" /\ ~ Readable
        /\ shell' = "list" /\ UNCHANGED disp /\ Closes("shell", n, {"read"})
        /\ sigints < MaxSigint /\ sigints' = sigints + 1
        /\ UNCHANGED <<n, oldDisp, first, second, full, childPid, listed, printed, sigchld>>
    BY <1>1 DEF Sigint
  <2>1. TypeOK'
    BY <2>0 DEF IInv, TypeOK, LaunchUnderWay, BgLaunchAssumption, ShellPc, FirstPc, SecondPc,
       Disposition, Launch, Actor, Closes, Readable
  <2>2. LaunchUnderWay'
    BY <2>0 DEF IInv, TypeOK, LaunchUnderWay, Closes, Readable
  <2>3. NotYet'
    BY <2>0 DEF IInv, TypeOK, LaunchUnderWay, NotYet, Coming, Closes, Readable
  <2>4. Ignoring'
    BY <2>0 DEF IInv, TypeOK, Ignoring, Closes, Readable
  <2>5. EndsHeld'
    BY <2>0 DEF IInv, TypeOK, LaunchUnderWay, NotYet, Coming, EndsHeld, Closes, Readable
  <2>6. NumberIsReal'
    BY <2>0 DEF IInv, TypeOK, LaunchUnderWay, NotYet, Coming, EndsHeld, NumberIsReal, Closes,
       Readable
  <2>7. KnownIsListed'
    BY <2>0 DEF IInv, TypeOK, LaunchUnderWay, NotYet, Coming, NumberIsReal, KnownIsListed,
       Closes, Readable
  <2>8. ListedAgrees'
    BY <2>0 DEF IInv, TypeOK, LaunchUnderWay, NotYet, Coming, KnownIsListed, ListedAgrees,
       Closes, Readable
  <2>9. CtrlCIsToBlame'
    <3>1. LeftBehind' \subseteq LeftBehind \cup {n}
      BY <2>0 DEF IInv, TypeOK, LaunchUnderWay, NotYet, Coming, EndsHeld, NumberIsReal,
         KnownIsListed, Ignoring, Closes, Readable, LeftBehind
    <3>2. Unheard' \subseteq Unheard \cup {n}
      BY <2>0 DEF IInv, TypeOK, LaunchUnderWay, NotYet, Coming, EndsHeld, NumberIsReal,
         KnownIsListed, Ignoring, Closes, Readable, Unheard
    <3> QED
      BY <2>0, <3>1, <3>2, BlameGrows
  <2> QED
    BY <2>1, <2>2, <2>3, <2>4, <2>5, <2>6, <2>7, <2>8, <2>9 DEF IInv
<1>2. CASE Abandoned
  <2> USE DEF Launch
  <2>0. /\ shell = "wait" /\ ~ FirstIsOver
        /\ shell' = "print" /\ disp' = oldDisp /\ UNCHANGED <<writers, readers>>
        /\ sigints < MaxSigint /\ sigints' = sigints + 1
        /\ UNCHANGED <<n, oldDisp, first, second, full, childPid, listed, printed, sigchld>>
    BY <1>2 DEF Sigint
  <2>1. TypeOK'
    BY <2>0 DEF IInv, TypeOK, LaunchUnderWay, BgLaunchAssumption, ShellPc, FirstPc, SecondPc,
       Disposition, Launch, Actor, FirstIsOver
  <2>2. LaunchUnderWay'
    BY <2>0 DEF IInv, TypeOK, LaunchUnderWay, FirstIsOver
  <2>3. NotYet'
    BY <2>0 DEF IInv, TypeOK, LaunchUnderWay, NotYet, Coming, FirstIsOver
  <2>4. Ignoring'
    BY <2>0 DEF IInv, TypeOK, Ignoring, FirstIsOver
  <2>5. EndsHeld'
    BY <2>0 DEF IInv, TypeOK, LaunchUnderWay, NotYet, Coming, EndsHeld, FirstIsOver
  <2>6. NumberIsReal'
    BY <2>0 DEF IInv, TypeOK, LaunchUnderWay, NotYet, Coming, EndsHeld, NumberIsReal,
       FirstIsOver
  <2>7. KnownIsListed'
    BY <2>0 DEF IInv, TypeOK, LaunchUnderWay, NotYet, Coming, NumberIsReal, KnownIsListed,
       FirstIsOver
  <2>8. ListedAgrees'
    BY <2>0 DEF IInv, TypeOK, LaunchUnderWay, NotYet, Coming, KnownIsListed, ListedAgrees,
       FirstIsOver
  <2>9. CtrlCIsToBlame'
    <3>1. LeftBehind' \subseteq LeftBehind \cup {n}
      BY <2>0 DEF IInv, TypeOK, LaunchUnderWay, NotYet, Coming, EndsHeld, NumberIsReal,
         KnownIsListed, Ignoring, FirstIsOver, LeftBehind
    <3>2. Unheard' \subseteq Unheard \cup {n}
      BY <2>0 DEF IInv, TypeOK, LaunchUnderWay, NotYet, Coming, EndsHeld, NumberIsReal,
         KnownIsListed, Ignoring, FirstIsOver, Unheard
    <3> QED
      BY <2>0, <3>1, <3>2, BlameGrows
  <2> QED
    BY <2>1, <2>2, <2>3, <2>4, <2>5, <2>6, <2>7, <2>8, <2>9 DEF IInv
<1>3. CASE ~ Interrupted /\ ~ Abandoned
  <2> USE DEF Launch
  <2>0. /\ sigints < MaxSigint /\ sigints' = sigints + 1 /\ shell # "idle"
        /\ UNCHANGED <<n, shell, disp, oldDisp, first, second, writers, readers, full,
                       childPid, listed, printed, sigchld>>
    BY <1>3 DEF Sigint
  <2>1. TypeOK'
    BY <2>0 DEF IInv, TypeOK, LaunchUnderWay, BgLaunchAssumption, ShellPc, FirstPc, SecondPc,
       Disposition, Launch, Actor
  <2>2. LaunchUnderWay'
    BY <2>0 DEF IInv, TypeOK, LaunchUnderWay
  <2>3. NotYet'
    BY <2>0 DEF IInv, TypeOK, LaunchUnderWay, NotYet, Coming
  <2>4. Ignoring'
    BY <2>0 DEF IInv, TypeOK, Ignoring
  <2>5. EndsHeld'
    BY <2>0 DEF IInv, TypeOK, LaunchUnderWay, NotYet, Coming, EndsHeld
  <2>6. NumberIsReal'
    BY <2>0 DEF IInv, TypeOK, LaunchUnderWay, NotYet, Coming, EndsHeld, NumberIsReal
  <2>7. KnownIsListed'
    BY <2>0 DEF IInv, TypeOK, LaunchUnderWay, NotYet, Coming, NumberIsReal, KnownIsListed
  <2>8. ListedAgrees'
    BY <2>0 DEF IInv, TypeOK, LaunchUnderWay, NotYet, Coming, KnownIsListed, ListedAgrees
  <2>9. CtrlCIsToBlame'
    <3>1. LeftBehind' \subseteq LeftBehind \cup {n}
      BY <2>0 DEF IInv, TypeOK, LaunchUnderWay, NotYet, Coming, EndsHeld, NumberIsReal,
         KnownIsListed, Ignoring, LeftBehind
    <3>2. Unheard' \subseteq Unheard \cup {n}
      BY <2>0 DEF IInv, TypeOK, LaunchUnderWay, NotYet, Coming, EndsHeld, NumberIsReal,
         KnownIsListed, Ignoring, Unheard
    <3> QED
      BY <2>0, <3>1, <3>2, BlameGrows
  <2> QED
    BY <2>1, <2>2, <2>3, <2>4, <2>5, <2>6, <2>7, <2>8, <2>9 DEF IInv
<1> QED
  BY <1>1, <1>2, <1>3

\* The program starts with no launch.
LEMMA InitIInv ==
  ASSUME Init
  PROVE  IInv
<1>1. TypeOK
  <2>1. n \in 0 .. MaxLaunch /\ sigints \in 0 .. MaxSigint
    BY DEF Init, BgLaunchAssumption
  <2>2. childPid \in BOOLEAN /\ sigchld \in BOOLEAN
    BY DEF Init
  <2>3. full \in [Launch -> BOOLEAN]
    BY DEF Init
  <2>4. /\ first \in [Launch -> FirstPc] /\ second \in [Launch -> SecondPc]
        /\ printed \in [Launch -> {"nothing", "pid", "unknown", "error"}]
    BY DEF Init, FirstPc, SecondPc
  <2>5. writers \in [Launch -> SUBSET Actor] /\ readers \in [Launch -> SUBSET Actor]
    BY DEF Init
  <2> QED
    BY <2>1, <2>2, <2>3, <2>4, <2>5 DEF Init, TypeOK, ShellPc, Disposition
<1>2. LaunchUnderWay /\ NotYet /\ Ignoring /\ EndsHeld /\ NumberIsReal /\ KnownIsListed /\ ListedAgrees
  BY DEF Init, Launch, LaunchUnderWay, NotYet, Coming, Ignoring, EndsHeld, NumberIsReal,
         KnownIsListed, ListedAgrees
<1>3. LeftBehind = {} /\ Unheard = {}
  BY DEF Init, LeftBehind, Unheard
<1>4. CtrlCIsToBlame
  BY <1>3, FS_EmptySet DEF Init, CtrlCIsToBlame
<1> QED
  BY <1>1, <1>2, <1>4 DEF IInv

\* Every step, and every stuttering step, keeps the invariant.
LEMMA NextIInv ==
  ASSUME IInv, [Next]_vars
  PROVE  IInv'
<1>1. CASE Begin
  BY <1>1, BeginStep
<1>2. CASE Shell
  BY <1>2, MakePipeStep, PipeFailsStep, ForkFirstStep, ForkFirstFailsStep, CloseWriteEndStep,
     ReadPidStep, ListJobStep, WaitFirstStep, PrintJobStep DEF Shell
<1>3. CASE Sigint
  BY <1>3, SigintStep
<1>4. ASSUME NEW l \in Launch, First(l)
      PROVE  IInv'
  BY <1>4, FirstStartsStep, ForkSecondStep, ForkSecondFailsStep, WritePidStep,
     FirstClosesStep, FirstExitsStep DEF First
<1>5. ASSUME NEW l \in Launch, Second(l) \/ CommandEnds(l)
      PROVE  IInv'
  BY <1>5, SecondClosesStep, ExecStep, CommandEndsStep DEF Second
<1>6. CASE UNCHANGED vars
  BY <1>6 DEF vars, pipeVars, IInv, TypeOK, LaunchUnderWay, NotYet, Coming, Ignoring, EndsHeld,
         NumberIsReal, KnownIsListed, ListedAgrees, CtrlCIsToBlame, LeftBehind, Unheard
<1> QED
  BY <1>1, <1>2, <1>3, <1>4, <1>5, <1>6 DEF Next

-----------------------------------------------------------------------------
(* Theorems.                                                                *)

\* The inductive invariant holds throughout.
THEOREM InvariantTheorem == Spec => []IInv
<1> QED
  BY InitIInv, NextIInv, PTL DEF Spec

\* Every variable keeps its type, for any number of launches and Ctrl-C.
THEOREM TypeTheorem == Spec => []TypeOK
<1>1. IInv => TypeOK
  BY DEF IInv
<1> QED
  BY <1>1, InvariantTheorem, PTL

\* Whatever failed or interrupted a launch, the prompt finds the handler
\* installed and no end of a pipe in the shell's hands.
THEOREM RestoredTheorem == Spec => []ShellRestored
<1>1. IInv => ShellRestored
  BY DEF IInv, Ignoring, EndsHeld, ShellRestored
<1> QED
  BY <1>1, InvariantTheorem, PTL

\* The job table lists real commands only, what is printed agrees with it, and a
\* command it misses at the prompt is the work of a Ctrl-C of its own.
THEOREM ListedTheorem == Spec => []ListedIsReal
<1>1. ASSUME IInv, shell = "idle"
      PROVE  Cardinality(Unlisted) <= sigints
  <2>1. Unlisted \subseteq Unheard
    BY <1>1 DEF Unlisted, Unheard
  <2>2. Unheard \subseteq Launch
    BY DEF Unheard
  <2>3. sigints \in Nat /\ Cardinality(Unheard) <= sigints
    BY <1>1 DEF IInv, TypeOK, BgLaunchAssumption, CtrlCIsToBlame
  <2> QED
    BY <2>1, <2>2, <2>3, NoMore
<1>2. IInv => ListedIsReal
  BY <1>1 DEF IInv, ListedAgrees, ListedIsReal, StartedIsListed
<1> QED
  BY <1>2, InvariantTheorem, PTL

\* A first child that outlives its launch, and a SIGCHLD from one, is the work of
\* a Ctrl-C of its own.
THEOREM StrayTheorem == Spec => []NoStrayChild
<1>1. ASSUME IInv, shell = "idle"
      PROVE  Cardinality(Strays) <= sigints /\ (sigchld => sigints > 0)
  <2>1. Strays = LeftBehind
    BY <1>1 DEF Strays, LeftBehind
  <2> QED
    BY <1>1, <2>1 DEF IInv, CtrlCIsToBlame
<1>2. IInv => NoStrayChild
  BY <1>1 DEF NoStrayChild
<1> QED
  BY <1>2, InvariantTheorem, PTL
=============================================================================
