--------------------------- MODULE ShellLoop_proof --------------------------
(***************************************************************************)
(* Theorems about ShellLoop and their proofs.                              *)
(***************************************************************************)
EXTENDS ShellLoop, SequenceTheorems, TLAPS

-----------------------------------------------------------------------------
(* The inductive invariant.  That the shell has no child at the prompt      *)
(* rests on two facts about the whole round: a child that was not left      *)
(* behind is one the shell is waiting for, and it waits nowhere else than   *)
(* in waitpid.  That only the user ends the shell rests on those: with no   *)
(* child, no SIGCHLD can make the read fail.                                *)

\* The shell waits only where it waits.
WaitsOnlyInWait == waiting # <<>> => pc = "wait"

\* Every child is still to be waited for, unless one was left behind.
ChildrenAreAwaited ==
  ~ stray => \A k \in Kid : kid[k] # "none" => \E i \in 1 .. Len(waiting) : waiting[i] = k

\* The end of the input has one of the three causes, and the loop is left
\* because of it or on request.
EofHasCause == eof => cause \in {"ctrl-d", "sigint"} \/ (stray /\ cause = "sigchld")
ExitHasReason == pc = "exited" => exitReq \/ eof

IInv ==
  /\ TypeOK
  /\ MaskDiscipline
  /\ WaitsOnlyInWait
  /\ ChildrenAreAwaited
  /\ EofHasCause
  /\ ExitHasReason

USE DEF Line, At, Goto

-----------------------------------------------------------------------------
(* Types.                                                                  *)

\* The parts of TypeOK, to be carried over a step one by one.
SignalsOK ==
  /\ blocked \in BOOLEAN /\ origMask \in BOOLEAN /\ pending \in BOOLEAN
  /\ gotChld \in BOOLEAN /\ gotInt \in BOOLEAN
KidsOK == kid \in [Kid -> {"none", "running", "stopped", "zombie"}]
AwaitedOK == waiting \in Seq(Kid) /\ Len(waiting) <= 2
PlaceOK ==
  /\ pc \in {"top", "unblock", "prompt", "read", "parsed", "block", "run",
             "wait", "restore", "exited"}
  /\ cmd \in Line
InputOK == eof \in BOOLEAN /\ cause \in {"none", "ctrl-d", "sigint", "sigchld"}
RestOK == exitReq \in BOOLEAN /\ suspended \in BOOLEAN /\ stray \in BOOLEAN
UserOK == lines \in 0 .. MaxLines /\ sigints \in 0 .. MaxSigint /\ tstps \in 0 .. MaxTstp

\* TypeOK is the conjunction of its parts, before and after a step.
LEMMA TypeParts ==
  /\ TypeOK <=> /\ SignalsOK /\ KidsOK /\ AwaitedOK /\ PlaceOK
                /\ InputOK /\ RestOK /\ UserOK
  /\ TypeOK' <=> /\ SignalsOK' /\ KidsOK' /\ AwaitedOK' /\ PlaceOK'
                 /\ InputOK' /\ RestOK' /\ UserOK'
BY DEF TypeOK, SignalsOK, KidsOK, AwaitedOK, PlaceOK, InputOK, RestOK, UserOK

\* Every step of the loop keeps the types.
LEMMA LoopType == ASSUME TypeOK, Loop PROVE TypeOK'
<1> USE DEF signalVars, inputVars, userVars
<1>1. CASE Top \/ Unblock \/ Prompt
  <2>1. SignalsOK'
    BY <1>1 DEF Top, Unblock, Prompt, SetMask, TypeOK, SignalsOK
  <2>2. PlaceOK'
    BY <1>1 DEF Top, Unblock, Prompt, SetMask, TypeOK, PlaceOK
  <2>3. KidsOK' /\ AwaitedOK' /\ InputOK' /\ RestOK' /\ UserOK'
    BY <1>1 DEF Top, Unblock, Prompt, SetMask, TypeOK, KidsOK, AwaitedOK, InputOK, RestOK, UserOK
  <2> QED BY <2>1, <2>2, <2>3, TypeParts
<1>2. CASE Block \/ Restore
  <2>1. SignalsOK'
    BY <1>2 DEF Block, Restore, SetMask, TypeOK, SignalsOK
  <2>2. PlaceOK'
    BY <1>2 DEF Block, Restore, SetMask, TypeOK, PlaceOK
  <2>3. KidsOK' /\ AwaitedOK' /\ InputOK' /\ RestOK' /\ UserOK'
    BY <1>2 DEF Block, Restore, SetMask, TypeOK, KidsOK, AwaitedOK, InputOK, RestOK, UserOK
  <2> QED BY <2>1, <2>2, <2>3, TypeParts
<1>3. CASE ReadAtEnd \/ EndOfInput \/ Parsed
  <2>1. PlaceOK'
    BY <1>3 DEF ReadAtEnd, EndOfInput, Parsed, TypeOK, PlaceOK
  <2>2. SignalsOK' /\ KidsOK' /\ AwaitedOK' /\ InputOK' /\ RestOK' /\ UserOK'
    BY <1>3 DEF ReadAtEnd, EndOfInput, Parsed, TypeOK, SignalsOK, KidsOK, AwaitedOK, InputOK, RestOK, UserOK
  <2> QED BY <2>1, <2>2, TypeParts
<1>4. CASE SyntaxError
  <2>1. SignalsOK'
    BY <1>4 DEF SyntaxError, SetMask, TypeOK, SignalsOK
  <2>2. PlaceOK'
    BY <1>4 DEF SyntaxError, SetMask, TypeOK, PlaceOK
  <2>3. KidsOK' /\ AwaitedOK' /\ InputOK' /\ RestOK' /\ UserOK'
    BY <1>4 DEF SyntaxError, SetMask, TypeOK, KidsOK, AwaitedOK, InputOK, RestOK, UserOK
  <2> QED BY <2>1, <2>2, <2>3, TypeParts
<1>5. CASE RunForeground
  <2>1. KidsOK'
    BY <1>5 DEF RunForeground, Free, WaitsFor, TypeOK, KidsOK
  <2>2. AwaitedOK'
    <3>1. (\E k \in Kid : waiting' = <<k>>) \/ (\E k, m \in Kid : waiting' = <<k, m>>)
      BY <1>5 DEF RunForeground, Free, WaitsFor
    <3>2. ASSUME NEW k \in Kid, waiting' = <<k>> PROVE AwaitedOK'
      BY <3>2 DEF AwaitedOK
    <3>3. ASSUME NEW k \in Kid, NEW m \in Kid, waiting' = <<k, m>> PROVE AwaitedOK'
      BY <3>3 DEF AwaitedOK
    <3> QED BY <3>1, <3>2, <3>3
  <2>3. PlaceOK'
    BY <1>5 DEF RunForeground, Free, WaitsFor, TypeOK, PlaceOK
  <2>4. SignalsOK' /\ InputOK' /\ RestOK' /\ UserOK'
    BY <1>5 DEF RunForeground, Free, WaitsFor, TypeOK, SignalsOK, InputOK, RestOK, UserOK
  <2> QED BY <2>1, <2>2, <2>3, <2>4, TypeParts
<1>6. CASE ForkFails
  <2>1. KidsOK'
    BY <1>6 DEF ForkFails, Free, TypeOK, KidsOK
  <2>2. PlaceOK'
    BY <1>6 DEF ForkFails, Free, TypeOK, PlaceOK
  <2>3. RestOK'
    BY <1>6 DEF ForkFails, Free, TypeOK, RestOK
  <2>4. SignalsOK' /\ AwaitedOK' /\ InputOK' /\ UserOK'
    BY <1>6 DEF ForkFails, Free, TypeOK, SignalsOK, AwaitedOK, InputOK, UserOK
  <2> QED BY <2>1, <2>2, <2>3, <2>4, TypeParts
<1>7. CASE WaitReturns
  <2>1. KidsOK'
    BY <1>7 DEF WaitReturns, TypeOK, KidsOK
  <2>2. AwaitedOK'
    BY <1>7 DEF WaitReturns, TypeOK, AwaitedOK
  <2>3. SignalsOK' /\ PlaceOK' /\ InputOK' /\ RestOK' /\ UserOK'
    BY <1>7 DEF WaitReturns, TypeOK, SignalsOK, PlaceOK, InputOK, RestOK, UserOK
  <2> QED BY <2>1, <2>2, <2>3, TypeParts
<1>8. CASE WaitEnds \/ RunJobs \/ RunExit
  <2>1. KidsOK'
    BY <1>8 DEF WaitEnds, RunJobs, RunExit, TypeOK, KidsOK
  <2>2. PlaceOK'
    BY <1>8 DEF WaitEnds, RunJobs, RunExit, TypeOK, PlaceOK
  <2>3. RestOK'
    BY <1>8 DEF WaitEnds, RunJobs, RunExit, TypeOK, RestOK
  <2>4. SignalsOK' /\ AwaitedOK' /\ InputOK' /\ UserOK'
    BY <1>8 DEF WaitEnds, RunJobs, RunExit, TypeOK, SignalsOK, AwaitedOK, InputOK, UserOK
  <2> QED BY <2>1, <2>2, <2>3, <2>4, TypeParts
<1>9. CASE RunBackground
  <2>1. SignalsOK'
    BY <1>9 DEF RunBackground, TypeOK, SignalsOK
  <2>2. KidsOK'
    BY <1>9 DEF RunBackground, TypeOK, KidsOK
  <2>3. PlaceOK'
    BY <1>9 DEF RunBackground, TypeOK, PlaceOK
  <2>4. AwaitedOK' /\ InputOK' /\ RestOK' /\ UserOK'
    BY <1>9 DEF RunBackground, TypeOK, AwaitedOK, InputOK, RestOK, UserOK
  <2> QED BY <2>1, <2>2, <2>3, <2>4, TypeParts
<1> QED BY <1>1, <1>2, <1>3, <1>4, <1>5, <1>6, <1>7, <1>8, <1>9 DEF Loop

\* What the user and the children do keeps the types.
LEMMA UserType ==
  ASSUME TypeOK, User \/ \E k \in Kid : ChildExits(k)
  PROVE  TypeOK'
<1> USE DEF signalVars, inputVars, userVars
<1>1. CASE (\E line \in Line : Type(line)) \/ CtrlD
  <2>1. PlaceOK'
    BY <1>1 DEF Type, CtrlD, TypeOK, PlaceOK
  <2>2. InputOK'
    BY <1>1 DEF Type, CtrlD, TypeOK, InputOK
  <2>3. UserOK'
    BY <1>1, ShellLoopAssumption DEF Type, CtrlD, TypeOK, UserOK
  <2>4. SignalsOK' /\ KidsOK' /\ AwaitedOK' /\ RestOK'
    BY <1>1 DEF Type, CtrlD, TypeOK, SignalsOK, KidsOK, AwaitedOK, RestOK
  <2> QED BY <2>1, <2>2, <2>3, <2>4, TypeParts
<1>2. CASE CtrlC
  <2>1. SignalsOK'
    BY <1>2 DEF CtrlC, ReadFails, Interrupted, TypeOK, SignalsOK
  <2>2. AwaitedOK'
    BY <1>2 DEF CtrlC, ReadFails, Interrupted, TypeOK, AwaitedOK
  <2>3. PlaceOK'
    BY <1>2 DEF CtrlC, ReadFails, Interrupted, TypeOK, PlaceOK
  <2>4. InputOK'
    BY <1>2 DEF CtrlC, ReadFails, Interrupted, TypeOK, InputOK
  <2>5. RestOK'
    BY <1>2 DEF CtrlC, ReadFails, Interrupted, TypeOK, RestOK
  <2>6. UserOK'
    BY <1>2, ShellLoopAssumption DEF CtrlC, ReadFails, Interrupted, TypeOK, UserOK
  <2>7. KidsOK'
    BY <1>2 DEF CtrlC, ReadFails, Interrupted, TypeOK, KidsOK
  <2> QED BY <2>1, <2>2, <2>3, <2>4, <2>5, <2>6, <2>7, TypeParts
<1>3. CASE CtrlZ
  <2>1. SignalsOK'
    BY <1>3 DEF CtrlZ, TypeOK, SignalsOK
  <2>2. KidsOK'
    BY <1>3 DEF CtrlZ, TypeOK, KidsOK
  <2>3. RestOK'
    BY <1>3 DEF CtrlZ, TypeOK, RestOK
  <2>4. UserOK'
    BY <1>3, ShellLoopAssumption DEF CtrlZ, TypeOK, UserOK
  <2>5. AwaitedOK' /\ PlaceOK' /\ InputOK'
    BY <1>3 DEF CtrlZ, TypeOK, AwaitedOK, PlaceOK, InputOK
  <2> QED BY <2>1, <2>2, <2>3, <2>4, <2>5, TypeParts
<1>4. CASE Foregrounded
  <2>1. SignalsOK'
    BY <1>4 DEF Foregrounded, TypeOK, SignalsOK
  <2>2. KidsOK'
    BY <1>4 DEF Foregrounded, TypeOK, KidsOK
  <2>3. RestOK'
    BY <1>4 DEF Foregrounded, TypeOK, RestOK
  <2>4. AwaitedOK' /\ PlaceOK' /\ InputOK' /\ UserOK'
    BY <1>4 DEF Foregrounded, TypeOK, AwaitedOK, PlaceOK, InputOK, UserOK
  <2> QED BY <2>1, <2>2, <2>3, <2>4, TypeParts
<1>5. CASE RunBackgroundInterrupted
  <2>1. SignalsOK'
    BY <1>5 DEF RunBackgroundInterrupted, Free, TypeOK, SignalsOK
  <2>2. KidsOK'
    BY <1>5 DEF RunBackgroundInterrupted, Free, TypeOK, KidsOK
  <2>3. PlaceOK'
    BY <1>5 DEF RunBackgroundInterrupted, Free, TypeOK, PlaceOK
  <2>4. RestOK'
    BY <1>5 DEF RunBackgroundInterrupted, Free, TypeOK, RestOK
  <2>5. UserOK'
    BY <1>5, ShellLoopAssumption DEF RunBackgroundInterrupted, Free, TypeOK, UserOK
  <2>6. AwaitedOK' /\ InputOK'
    BY <1>5 DEF RunBackgroundInterrupted, Free, TypeOK, AwaitedOK, InputOK
  <2> QED BY <2>1, <2>2, <2>3, <2>4, <2>5, <2>6, TypeParts
<1>6. ASSUME NEW k \in Kid, ChildExits(k)
      PROVE  TypeOK'
  <2>1. SignalsOK'
    BY <1>6 DEF ChildExits, ChildMoves, RaiseSigchld, ReadFails, TypeOK, SignalsOK
  <2>2. KidsOK'
    BY <1>6 DEF ChildExits, ChildMoves, RaiseSigchld, ReadFails, TypeOK, KidsOK
  <2>3. PlaceOK'
    BY <1>6 DEF ChildExits, ChildMoves, RaiseSigchld, ReadFails, TypeOK, PlaceOK
  <2>4. InputOK'
    BY <1>6 DEF ChildExits, ChildMoves, RaiseSigchld, ReadFails, TypeOK, InputOK
  <2>5. AwaitedOK' /\ RestOK' /\ UserOK'
    BY <1>6 DEF ChildExits, ChildMoves, RaiseSigchld, ReadFails, TypeOK, AwaitedOK, RestOK, UserOK
  <2> QED BY <2>1, <2>2, <2>3, <2>4, <2>5, TypeParts
<1> QED BY <1>1, <1>2, <1>3, <1>4, <1>5, <1>6 DEF User

\* Initially the invariant holds.
LEMMA InitIInv == Init => IInv
<1> SUFFICES ASSUME Init PROVE IInv
  OBVIOUS
<1>1. SignalsOK /\ PlaceOK /\ InputOK /\ RestOK
  BY DEF Init, SignalsOK, PlaceOK, InputOK, RestOK
<1>2. KidsOK /\ AwaitedOK
  BY DEF Init, KidsOK, AwaitedOK
<1>3. UserOK
  BY ShellLoopAssumption DEF Init, UserOK
<1>4. TypeOK
  BY <1>1, <1>2, <1>3, TypeParts
<1> QED BY <1>4 DEF Init, IInv, MaskDiscipline, WaitsOnlyInWait, ChildrenAreAwaited,
                    EofHasCause, ExitHasReason

-----------------------------------------------------------------------------
(* The invariant over a step, one part at a time.  A step is one of the     *)
(* loop, of the user, of a child, or none at all.                           *)

\* The cases of a step.
LEMMA Steps ==
  [Next]_vars => \/ Loop
                 \/ User \/ \E k \in Kid : ChildExits(k)
                 \/ UNCHANGED vars
BY DEF Next, Terminated

\* The mask is restored on every path through the loop.
LEMMA MaskStep == ASSUME TypeOK, MaskDiscipline, [Next]_vars PROVE MaskDiscipline'
<1> USE DEF signalVars, MaskDiscipline
<1>1. CASE Loop
  <2>1. CASE Top \/ Unblock \/ Prompt
    BY <2>1 DEF Top, Unblock, Prompt, SetMask, TypeOK
  <2>2. CASE Block \/ Restore \/ SyntaxError
    BY <2>2 DEF Block, Restore, SyntaxError, SetMask, TypeOK
  <2>3. CASE ReadAtEnd \/ EndOfInput \/ Parsed
    BY <2>3 DEF ReadAtEnd, EndOfInput, Parsed
  <2>4. CASE RunForeground \/ ForkFails \/ RunBackground \/ RunJobs \/ RunExit
    BY <2>4 DEF RunForeground, ForkFails, RunBackground, RunJobs, RunExit
  <2>5. CASE WaitReturns \/ WaitEnds
    BY <2>5 DEF WaitReturns, WaitEnds
  <2> QED BY <1>1, <2>1, <2>2, <2>3, <2>4, <2>5 DEF Loop
<1>2. CASE User
  BY <1>2 DEF User, Type, CtrlD, CtrlC, ReadFails, CtrlZ, Foregrounded, RunBackgroundInterrupted
<1>3. CASE \E k \in Kid : ChildExits(k)
  BY <1>3 DEF ChildExits, ChildMoves, RaiseSigchld, ReadFails
<1>4. CASE UNCHANGED vars
  BY <1>4 DEF vars
<1> QED BY <1>1, <1>2, <1>3, <1>4, Steps

\* The shell waits in waitpid only.
LEMMA WaitsStep == ASSUME TypeOK, WaitsOnlyInWait, [Next]_vars PROVE WaitsOnlyInWait'
<1> USE DEF WaitsOnlyInWait
<1>1. CASE Loop
  <2>1. CASE Top \/ Unblock \/ Prompt \/ Block \/ Restore \/ SyntaxError
    BY <2>1 DEF Top, Unblock, Prompt, Block, Restore, SyntaxError
  <2>2. CASE ReadAtEnd \/ EndOfInput \/ Parsed
    BY <2>2 DEF ReadAtEnd, EndOfInput, Parsed
  <2>3. CASE RunForeground \/ ForkFails \/ RunBackground \/ RunJobs \/ RunExit
    BY <2>3 DEF RunForeground, ForkFails, RunBackground, RunJobs, RunExit
  <2>4. CASE WaitReturns \/ WaitEnds
    BY <2>4 DEF WaitReturns, WaitEnds
  <2> QED BY <1>1, <2>1, <2>2, <2>3, <2>4 DEF Loop
<1>2. CASE User
  <2>1. CASE CtrlC
    BY <2>1 DEF CtrlC, ReadFails
  <2>2. CASE User /\ ~ CtrlC
    BY <2>2 DEF User, Type, CtrlD, CtrlZ, Foregrounded, RunBackgroundInterrupted
  <2> QED BY <1>2, <2>1, <2>2
<1>3. CASE \E k \in Kid : ChildExits(k)
  BY <1>3 DEF ChildExits, ChildMoves, RaiseSigchld, ReadFails
<1>4. CASE UNCHANGED vars
  BY <1>4 DEF vars
<1> QED BY <1>1, <1>2, <1>3, <1>4, Steps

\* A step that takes on no child and waits for the same ones keeps every
\* child awaited; so does any step that leaves one behind.
LEMMA NoNewChild ==
  ASSUME ChildrenAreAwaited,
         \/ stray'
         \/ /\ stray' = stray /\ waiting' = waiting
            /\ \A k \in Kid : kid'[k] # "none" => kid[k] # "none"
  PROVE  ChildrenAreAwaited'
BY DEF ChildrenAreAwaited

\* Every child is awaited, or one was left behind.
LEMMA AwaitStep ==
  ASSUME TypeOK, WaitsOnlyInWait, ChildrenAreAwaited, [Next]_vars
  PROVE  ChildrenAreAwaited'
<1>1. CASE Loop
  <2>1. CASE Top \/ Unblock \/ Prompt \/ Block \/ Restore \/ SyntaxError
    BY <2>1, NoNewChild DEF Top, Unblock, Prompt, Block, Restore, SyntaxError
  <2>2. CASE ReadAtEnd \/ EndOfInput \/ Parsed \/ WaitEnds \/ RunExit
    BY <2>2, NoNewChild DEF ReadAtEnd, EndOfInput, Parsed, WaitEnds, RunExit
  <2>3. CASE RunBackground \/ RunJobs
    BY <2>3, NoNewChild DEF RunBackground, RunJobs
  <2>4. CASE ForkFails
    BY <2>4, NoNewChild DEF ForkFails
  <2>5. CASE RunForeground
    \* The shell waited for nobody, so it had no child; now it waits for the new ones.
    <3>1. stray' = stray /\ waiting = <<>>
      BY <2>5 DEF RunForeground, WaitsOnlyInWait
    <3>2. ~ stray => \A k \in Kid : kid[k] = "none"
      BY <3>1 DEF ChildrenAreAwaited
    <3>3. ASSUME NEW k \in Kid, waiting' = <<k>>, kid' = [kid EXCEPT ![k] = "running"]
          PROVE  ChildrenAreAwaited'
      BY <3>1, <3>2, <3>3 DEF ChildrenAreAwaited, TypeOK
    <3>4. ASSUME NEW k \in Kid, NEW m \in Kid, waiting' = <<k, m>>,
                 kid' = [kid EXCEPT ![k] = "running", ![m] = "running"]
          PROVE  ChildrenAreAwaited'
      BY <3>1, <3>2, <3>4 DEF ChildrenAreAwaited, TypeOK
    <3> QED BY <2>5, <3>3, <3>4 DEF RunForeground, Free, WaitsFor
  <2>6. CASE WaitReturns
    \* The child that is removed from the list is no child any more.
    <3> SUFFICES ASSUME ~ stray, NEW k \in Kid, kid'[k] # "none"
                 PROVE  \E i \in 1 .. Len(waiting') : waiting'[i] = k
      BY <2>6 DEF WaitReturns, ChildrenAreAwaited
    <3>1. waiting \in Seq(Kid) /\ waiting # <<>> /\ Head(waiting) \in Kid
      BY <2>6 DEF WaitReturns, TypeOK
    <3>2. k # Head(waiting) /\ kid[k] # "none"
      BY <2>6, <3>1 DEF WaitReturns, TypeOK
    <3>3. PICK i \in 1 .. Len(waiting) : waiting[i] = k
      BY <3>2 DEF ChildrenAreAwaited
    <3>4. waiting' = Tail(waiting) /\ Head(waiting) = waiting[1]
      BY <2>6, <3>1 DEF WaitReturns
    <3>5. i - 1 \in 1 .. Len(waiting) - 1
      BY <3>1, <3>2, <3>3, <3>4
    <3>6. Len(Tail(waiting)) = Len(waiting) - 1
      BY <3>1, HeadTailProperties
    <3>7. Tail(waiting)[i - 1] = waiting[(i - 1) + 1]
      BY <3>1, <3>5, <3>6, HeadTailProperties
    <3> QED BY <3>3, <3>4, <3>5, <3>6, <3>7
  <2> QED BY <1>1, <2>1, <2>2, <2>3, <2>4, <2>5, <2>6 DEF Loop
<1>2. CASE User
  <2>1. CASE CtrlC
    BY <2>1, NoNewChild DEF CtrlC
  <2>2. CASE (\E line \in Line : Type(line)) \/ CtrlD \/ RunBackgroundInterrupted
    BY <2>2, NoNewChild DEF Type, CtrlD, RunBackgroundInterrupted
  <2>3. CASE CtrlZ \/ Foregrounded
    BY <2>3, NoNewChild DEF CtrlZ, Foregrounded
  <2> QED BY <1>2, <2>1, <2>2, <2>3 DEF User
<1>3. ASSUME NEW k \in Kid, ChildExits(k)
      PROVE  ChildrenAreAwaited'
  <2>1. \A m \in Kid : kid'[m] # "none" => kid[m] # "none"
    BY <1>3 DEF ChildExits, ChildMoves, TypeOK
  <2> QED BY <1>3, <2>1, NoNewChild DEF ChildExits, ChildMoves
<1>4. CASE UNCHANGED vars
  BY <1>4, NoNewChild DEF vars
<1> QED BY <1>1, <1>2, <1>3, <1>4, Steps

\* What a step that is neither Ctrl-D nor a failing read keeps of the reasons
\* to stop.
LEMMA SameInput ==
  ASSUME EofHasCause, UNCHANGED inputVars, stray => stray'
  PROVE  EofHasCause'
BY DEF EofHasCause, inputVars

\* The end of the input is the user's, unless a child was left behind.
LEMMA EofStep ==
  ASSUME TypeOK, WaitsOnlyInWait, ChildrenAreAwaited, EofHasCause, [Next]_vars
  PROVE  EofHasCause'
<1>1. CASE Loop
  BY <1>1, SameInput
     DEF Loop, Top, Unblock, Prompt, ReadAtEnd, SyntaxError, EndOfInput, Parsed, Block,
         RunForeground, ForkFails, WaitReturns, WaitEnds, RunBackground, RunJobs, RunExit,
         Restore
<1>2. CASE User
  <2>1. CASE CtrlD \/ CtrlC
    BY <2>1 DEF CtrlD, CtrlC, ReadFails, EofHasCause, inputVars
  <2>2. CASE User /\ ~ CtrlD /\ ~ CtrlC
    BY <2>2, SameInput DEF User, Type, CtrlZ, Foregrounded, RunBackgroundInterrupted
  <2> QED BY <1>2, <2>1, <2>2
<1>3. ASSUME NEW k \in Kid, ChildExits(k)
      PROVE  EofHasCause'
  <2>1. stray' = stray /\ kid[k] # "none"
    BY <1>3 DEF ChildExits, ChildMoves
  <2>2. CASE UNCHANGED inputVars
    BY <2>1, <2>2, SameInput
  <2>3. CASE pc = "read" /\ ReadFails("sigchld")
    \* At the prompt nobody is awaited, so the child was left behind.
    <3>1. waiting = <<>>
      BY <2>3 DEF WaitsOnlyInWait
    <3>2. stray
      BY <2>1, <3>1 DEF ChildrenAreAwaited
    <3> QED BY <2>1, <2>3, <3>2 DEF ReadFails, EofHasCause
  <2> QED BY <1>3, <2>2, <2>3 DEF ChildExits, ChildMoves, RaiseSigchld
<1>4. CASE UNCHANGED vars
  BY <1>4, SameInput DEF vars
<1> QED BY <1>1, <1>2, <1>3, <1>4, Steps

\* The loop is left on request or at the end of the input.
LEMMA ExitStep == ASSUME TypeOK, ExitHasReason, [Next]_vars PROVE ExitHasReason'
<1> USE DEF ExitHasReason, inputVars
<1>1. CASE Loop
  <2>1. CASE Top \/ Unblock \/ Prompt \/ Block \/ Restore \/ SyntaxError
    BY <2>1 DEF Top, LeaveLoop, Unblock, Prompt, Block, Restore, SyntaxError
  <2>2. CASE ReadAtEnd \/ EndOfInput \/ Parsed \/ WaitReturns \/ WaitEnds
    BY <2>2 DEF ReadAtEnd, EndOfInput, Parsed, WaitReturns, WaitEnds
  <2>3. CASE RunForeground \/ ForkFails \/ RunBackground \/ RunJobs \/ RunExit
    BY <2>3 DEF RunForeground, ForkFails, RunBackground, RunJobs, RunExit
  <2> QED BY <1>1, <2>1, <2>2, <2>3 DEF Loop
<1>2. CASE User
  BY <1>2 DEF User, Type, CtrlD, CtrlC, ReadFails, CtrlZ, Foregrounded, RunBackgroundInterrupted
<1>3. CASE \E k \in Kid : ChildExits(k)
  BY <1>3 DEF ChildExits, ChildMoves, RaiseSigchld, ReadFails
<1>4. CASE UNCHANGED vars
  BY <1>4 DEF vars
<1> QED BY <1>1, <1>2, <1>3, <1>4, Steps

\* Every step keeps the invariant.
LEMMA NextIInv == ASSUME IInv, [Next]_vars PROVE IInv'
<1>1. TypeOK'
  <2>1. CASE UNCHANGED vars
    BY <2>1 DEF IInv, TypeOK, vars, signalVars, inputVars, userVars
  <2> QED BY <2>1, LoopType, UserType, Steps DEF IInv
<1>2. MaskDiscipline' /\ WaitsOnlyInWait' /\ ChildrenAreAwaited'
  BY MaskStep, WaitsStep, AwaitStep DEF IInv
<1>3. EofHasCause' /\ ExitHasReason'
  BY EofStep, ExitStep DEF IInv
<1> QED BY <1>1, <1>2, <1>3 DEF IInv

-----------------------------------------------------------------------------
(* The theorems.                                                           *)

\* The invariant holds in every reachable state, for any number of children
\* and of signals.
THEOREM InvariantTheorem == Spec => []IInv
BY InitIInv, NextIInv, PTL DEF Spec

\* Every variable keeps its type.
THEOREM TypeTheorem == Spec => []TypeOK
<1>1. IInv => TypeOK
  BY DEF IInv
<1> QED BY <1>1, InvariantTheorem, PTL

\* On every path through Shell::runInteractive, that of a syntax error
\* included, SIGCHLD is blocked exactly while commands run and flags are
\* examined, and orig_mask never holds the blocked mask.
THEOREM MaskDisciplineTheorem == Spec => []MaskDiscipline
<1>1. IInv => MaskDiscipline
  BY DEF IInv
<1> QED BY <1>1, InvariantTheorem, PTL

\* Unless an interrupted waitpid or a failed fork left one behind, the shell has
\* no child when it prompts: all it forked in the round were waited for.
THEOREM NoChildAtPromptTheorem == Spec => []NoChildAtPrompt
<1>1. IInv => NoChildAtPrompt
  <2> SUFFICES ASSUME IInv, pc \in {"prompt", "read"}, ~ stray, NEW k \in Kid
               PROVE  kid[k] = "none"
    BY DEF NoChildAtPrompt
  <2>1. waiting = <<>>
    BY DEF IInv, WaitsOnlyInWait
  <2> QED BY <2>1 DEF IInv, ChildrenAreAwaited
<1> QED BY <1>1, InvariantTheorem, PTL

\* The shell ends only when the user asked for it, with exit, Ctrl-D or Ctrl-C
\* at the prompt; a SIGCHLD can end it only after a child was left behind.
THEOREM ExitIsRequestedTheorem == Spec => []ExitIsRequested
<1>1. IInv => ExitIsRequested
  BY DEF IInv, EofHasCause, ExitHasReason, ExitIsRequested
<1> QED BY <1>1, InvariantTheorem, PTL

=============================================================================
