--------------------------- MODULE Pipeline_proof ---------------------------
(***************************************************************************)
(* Proofs about Pipeline, for any number of commands, any capacity of a    *)
(* pipe and any failing system calls: who reads the end of a stream reads  *)
(* it after its writer has ended, and when the prompt is back the whole    *)
(* pipeline is gone, however long it was.                                  *)
(***************************************************************************)
EXTENDS Pipeline, WellFoundedInduction, TLAPS

USE PipelineAssumption

-----------------------------------------------------------------------------
(* The inductive invariant.                                                *)

\* Where a process of each kind can be.
Places ==
  /\ \A k \in Pipe : pc[Left(k)] \in {"none", "setup", "run", "over", "end"}
  /\ pc[Last] \in {"none", "setup", "run", "over", "end"}
  /\ pc[Main(1)] \notin {"none", "setup", "end"}

\* The order of the forks: nobody is there before he is forked, and the right
\* child comes after the left one.
Forks ==
  \A k \in Pipe :
    /\ pc[Left(k)] # "none" => pc[Main(k)] \notin {"none", "setup", "pipe", "left"}
    /\ pc[Main(k)] = "right" => pc[Left(k)] # "none"
    /\ pc[Main(k + 1)] # "none" =>
         /\ pc[Left(k)] # "none"
         /\ pc[Main(k)] \notin {"none", "setup", "pipe", "left", "right"}

\* What Main(k) has waited for is over, and it ends with its children unless one
\* of its own system calls failed.
Waited ==
  \A k \in Pipe :
    /\ pc[Main(k)] \in {"waitRight", "run"} => pc[Left(k)] = "end"
    /\ pc[Main(k)] = "run" => pc[Main(k + 1)] = "end"
    /\ Ended(Main(k)) =>
         Main(k) \in failed \/ (pc[Left(k)] = "end" /\ pc[Main(k + 1)] = "end")

\* The writer of a pipe holds its write end from the making of the pipe to its own
\* end.
Writer ==
  \A k \in Pipe :
    /\ pc[Main(k)] \in {"left", "right", "close"} => Main(k) \in writers[k]
    /\ pc[Left(k)] \in {"setup", "run"} => Left(k) \in writers[k]

\* Who is not there holds nothing; the shell holds the ends of the first pipe only,
\* and only while it forks, unless a system call failed.
Holders ==
  \A k \in Pipe :
    /\ \A p \in Process :
         pc[p] = "none" \/ (Ended(p) /\ p # Main(1)) => p \notin writers[k] \cup readers[k]
    /\ Main(1) \in writers[k] \cup readers[k] =>
         k = 1 /\ (pc[Main(1)] \in {"left", "right", "close"} \/ Main(1) \in failed)

IInv ==
  /\ TypeOK
  /\ Places
  /\ Forks
  /\ Waited
  /\ Writer
  /\ Holders
  /\ EofMeansOver

-----------------------------------------------------------------------------
(* The processes.                                                          *)

\* No two processes have the same name.
LEMMA Names ==
  /\ \A i, j : Main(i) = Main(j) => i = j
  /\ \A i, j : Left(i) = Left(j) => i = j
  /\ \A i, j : Main(i) # Left(j)
<1> QED
  BY DEF Main, Left

\* Who the processes are, and which place a pipe has among them.
LEMMA Processes ==
  /\ \A k \in 1 .. Stages : Main(k) \in Process
  /\ \A k \in Pipe : /\ Left(k) \in Process /\ Main(k) \in Process /\ Main(k + 1) \in Process
                     /\ k \in 1 .. Stages /\ k + 1 \in 1 .. Stages /\ k # k + 1
  /\ \A p \in Process : (\E k \in 1 .. Stages : p = Main(k)) \/ (\E k \in Pipe : p = Left(k))
  /\ Last = Main(Stages) /\ Last \in Process /\ 1 \in Pipe
  /\ \A k \in 1 .. Stages : k \in Pipe \/ k = Stages
  /\ Stages \notin Pipe
<1> QED
  BY DEF Process, Pipe, Last, PipelineAssumption

\* The commands are the left children and the last process.
LEMMA Commands ==
  ASSUME NEW p \in Command
  PROVE  p \in Process /\ p # Main(1) /\ ((\E k \in Pipe : p = Left(k)) \/ p = Main(Stages))
<1> QED
  BY Names, Processes DEF Command, PipelineAssumption

\* Only Main(k) holds the new pipe.
LEMMA MakePipeStep ==
  ASSUME IInv, NEW k \in Pipe, MakePipe(k)
  PROVE  IInv'
<1>1. TypeOK'
  BY Names, Processes DEF IInv, TypeOK, Code, PcOfMain, MakePipe, Goto, ends
<1>2. Places'
  BY Names, Processes DEF IInv, TypeOK, Places, MakePipe, Goto, ends
<1>3. Forks'
  BY Names, Processes DEF IInv, TypeOK, Places, Forks, MakePipe, Goto, ends
<1>4. Waited'
  BY Names, Processes DEF IInv, TypeOK, Places, Forks, Waited, Ended, MakePipe, Goto, ends
<1>5. Writer'
  BY Names, Processes DEF IInv, TypeOK, Places, Forks, Writer, Holders, MakePipe, Goto, ends
<1>6. Holders'
  BY Names, Processes DEF IInv, TypeOK, Places, Forks, Writer, Holders, Ended, MakePipe, Goto,
     ends
<1>7. EofMeansOver'
  BY Names, Processes DEF IInv, TypeOK, Places, Forks, EofMeansOver, Ended, Writer, MakePipe,
     Goto, ends
<1> QED
  BY <1>1, <1>2, <1>3, <1>4, <1>5, <1>6, <1>7 DEF IInv

\* The left child inherits both ends of its pipe.
LEMMA ForkLeftStep ==
  ASSUME IInv, NEW k \in Pipe, ForkLeft(k)
  PROVE  IInv'
<1>1. TypeOK'
  BY Names, Processes DEF IInv, TypeOK, Code, PcOfMain, ForkLeft, Goto, ends, Inherits
<1>2. Places'
  BY Names, Processes DEF IInv, TypeOK, Places, ForkLeft, Goto, ends, Inherits
<1>3. Forks'
  BY Names, Processes DEF IInv, TypeOK, Places, Forks, ForkLeft, Goto, ends, Inherits
<1>4. Waited'
  BY Names, Processes DEF IInv, TypeOK, Places, Forks, Waited, Ended, ForkLeft, Goto, ends,
     Inherits
<1>5. Writer'
  BY Names, Processes DEF IInv, TypeOK, Places, Forks, Writer, Holders, ForkLeft, Goto, ends,
     Inherits
<1>6. Holders'
  BY Names, Processes DEF IInv, TypeOK, Places, Forks, Writer, Holders, Ended, ForkLeft, Goto,
     ends, Inherits
<1>7. EofMeansOver'
  BY Names, Processes DEF IInv, TypeOK, Places, Forks, EofMeansOver, Ended, Writer, ForkLeft,
     Goto, ends, Inherits
<1> QED
  BY <1>1, <1>2, <1>3, <1>4, <1>5, <1>6, <1>7 DEF IInv

\* So does the right child.
LEMMA ForkRightStep ==
  ASSUME IInv, NEW k \in Pipe, ForkRight(k)
  PROVE  IInv'
<1>1. TypeOK'
  BY Names, Processes DEF IInv, TypeOK, Code, PcOfMain, ForkRight, Goto, ends, Inherits
<1>2. Places'
  BY Names, Processes DEF IInv, TypeOK, Places, ForkRight, Goto, ends, Inherits
<1>3. Forks'
  BY Names, Processes DEF IInv, TypeOK, Places, Forks, ForkRight, Goto, ends, Inherits
<1>4. Waited'
  BY Names, Processes DEF IInv, TypeOK, Places, Forks, Waited, Ended, ForkRight, Goto, ends,
     Inherits
<1>5. Writer'
  BY Names, Processes DEF IInv, TypeOK, Places, Forks, Writer, Holders, ForkRight, Goto, ends,
     Inherits
<1>6. Holders'
  BY Names, Processes DEF IInv, TypeOK, Places, Forks, Writer, Holders, Ended, ForkRight, Goto,
     ends, Inherits
<1>7. EofMeansOver'
  BY Names, Processes DEF IInv, TypeOK, Places, Forks, EofMeansOver, Ended, Writer, ForkRight,
     Goto, ends, Inherits
<1> QED
  BY <1>1, <1>2, <1>3, <1>4, <1>5, <1>6, <1>7 DEF IInv

\* A failing call ends the process it fails in.
LEMMA FailsStep ==
  ASSUME IInv, NEW k \in Pipe, Fails(k)
  PROVE  IInv'
<1>1. TypeOK'
  BY Names, Processes DEF IInv, TypeOK, Code, PcOfMain, Fails, Goto, ends, Ends, Closes
<1>2. Places'
  BY Names, Processes DEF IInv, TypeOK, Places, Fails, Goto, ends, Ends, Closes
<1>3. Forks'
  BY Names, Processes DEF IInv, TypeOK, Places, Forks, Fails, Goto, ends, Ends, Closes
<1>4. Waited'
  BY Names, Processes DEF IInv, TypeOK, Places, Forks, Waited, Ended, Fails, Goto, ends, Ends,
     Closes
<1>5. Writer'
  BY Names, Processes DEF IInv, TypeOK, Places, Forks, Writer, Holders, Fails, Goto, ends, Ends,
     Closes
<1>6. Holders'
  BY Names, Processes DEF IInv, TypeOK, Places, Forks, Writer, Holders, Ended, Fails, Goto,
     ends, Ends, Closes
<1>7. EofMeansOver'
  BY Names, Processes DEF IInv, TypeOK, Places, Forks, EofMeansOver, Ended, Writer, Fails, Goto,
     ends, Ends, Closes
<1> QED
  BY <1>1, <1>2, <1>3, <1>4, <1>5, <1>6, <1>7 DEF IInv

\* From now on the children alone hold the pipe.
LEMMA CloseBothStep ==
  ASSUME IInv, NEW k \in Pipe, CloseBoth(k)
  PROVE  IInv'
<1>1. TypeOK'
  BY Names, Processes DEF IInv, TypeOK, Code, PcOfMain, CloseBoth, Goto, ends, Closes
<1>2. Places'
  BY Names, Processes DEF IInv, TypeOK, Places, CloseBoth, Goto, ends, Closes
<1>3. Forks'
  BY Names, Processes DEF IInv, TypeOK, Places, Forks, CloseBoth, Goto, ends, Closes
<1>4. Waited'
  BY Names, Processes DEF IInv, TypeOK, Places, Forks, Waited, Ended, CloseBoth, Goto, ends,
     Closes
<1>5. Writer'
  BY Names, Processes DEF IInv, TypeOK, Places, Forks, Writer, Holders, CloseBoth, Goto, ends,
     Closes
<1>6. Holders'
  BY Names, Processes DEF IInv, TypeOK, Places, Forks, Writer, Holders, Ended, CloseBoth, Goto,
     ends, Closes
<1>7. EofMeansOver'
  BY Names, Processes DEF IInv, TypeOK, Places, Forks, EofMeansOver, Ended, Writer, CloseBoth,
     Goto, ends, Closes
<1> QED
  BY <1>1, <1>2, <1>3, <1>4, <1>5, <1>6, <1>7 DEF IInv

\* The left child is over when the wait returns.
LEMMA WaitLeftStep ==
  ASSUME IInv, NEW k \in Pipe, WaitLeft(k)
  PROVE  IInv'
<1>1. TypeOK'
  BY Names, Processes DEF IInv, TypeOK, Code, PcOfMain, WaitLeft, Waits, ends
<1>2. Places'
  BY Names, Processes DEF IInv, TypeOK, Places, WaitLeft, Waits, ends
<1>3. Forks'
  BY Names, Processes DEF IInv, TypeOK, Places, Forks, WaitLeft, Waits, ends
<1>4. Waited'
  BY Names, Processes DEF IInv, TypeOK, Places, Forks, Waited, Ended, WaitLeft, Waits, ends
<1>5. Writer'
  BY Names, Processes DEF IInv, TypeOK, Places, Forks, Writer, Holders, WaitLeft, Waits, ends
<1>6. Holders'
  BY Names, Processes DEF IInv, TypeOK, Places, Forks, Writer, Holders, Ended, WaitLeft, Waits,
     ends
<1>7. EofMeansOver'
  BY Names, Processes DEF IInv, TypeOK, Places, Forks, EofMeansOver, Ended, Writer, WaitLeft,
     Waits, ends
<1> QED
  BY <1>1, <1>2, <1>3, <1>4, <1>5, <1>6, <1>7 DEF IInv

\* The right child is over when the wait returns.
LEMMA WaitRightStep ==
  ASSUME IInv, NEW k \in Pipe, WaitRight(k)
  PROVE  IInv'
<1>1. TypeOK'
  BY Names, Processes DEF IInv, TypeOK, Code, PcOfMain, WaitRight, Waits, ends
<1>2. Places'
  BY Names, Processes DEF IInv, TypeOK, Places, WaitRight, Waits, ends
<1>3. Forks'
  BY Names, Processes DEF IInv, TypeOK, Places, Forks, WaitRight, Waits, ends
<1>4. Waited'
  BY Names, Processes DEF IInv, TypeOK, Places, Forks, Waited, Ended, WaitRight, Waits, ends
<1>5. Writer'
  BY Names, Processes DEF IInv, TypeOK, Places, Forks, Writer, Holders, WaitRight, Waits, ends
<1>6. Holders'
  BY Names, Processes DEF IInv, TypeOK, Places, Forks, Writer, Holders, Ended, WaitRight, Waits,
     ends
<1>7. EofMeansOver'
  BY Names, Processes DEF IInv, TypeOK, Places, Forks, EofMeansOver, Ended, Writer, WaitRight,
     Waits, ends
<1> QED
  BY <1>1, <1>2, <1>3, <1>4, <1>5, <1>6, <1>7 DEF IInv

\* Both children are over when the process ends.
LEMMA ReturnStep ==
  ASSUME IInv, NEW k \in Pipe, Return(k)
  PROVE  IInv'
<1>1. TypeOK'
  BY Names, Processes DEF IInv, TypeOK, Code, PcOfMain, Return, Goto, ends, Ends, Closes, Code,
     Result
<1>2. Places'
  BY Names, Processes DEF IInv, TypeOK, Places, Return, Goto, ends, Ends, Closes, Code, Result
<1>3. Forks'
  BY Names, Processes DEF IInv, TypeOK, Places, Forks, Return, Goto, ends, Ends, Closes, Code,
     Result
<1>4. Waited'
  BY Names, Processes DEF IInv, TypeOK, Places, Forks, Waited, Ended, Return, Goto, ends, Ends,
     Closes, Code, Result
<1>5. Writer'
  BY Names, Processes DEF IInv, TypeOK, Places, Forks, Writer, Holders, Return, Goto, ends,
     Ends, Closes, Code, Result
<1>6. Holders'
  BY Names, Processes DEF IInv, TypeOK, Places, Forks, Writer, Holders, Ended, Return, Goto,
     ends, Ends, Closes, Code, Result
<1>7. EofMeansOver'
  BY Names, Processes DEF IInv, TypeOK, Places, Forks, EofMeansOver, Ended, Writer, Return,
     Goto, ends, Ends, Closes, Code, Result
<1> QED
  BY <1>1, <1>2, <1>3, <1>4, <1>5, <1>6, <1>7 DEF IInv

\* The left child keeps the write end.
LEMMA LeftSetupStep ==
  ASSUME IInv, NEW k \in Pipe, LeftSetup(k)
  PROVE  IInv'
<1>1. TypeOK'
  BY Names, Processes DEF IInv, TypeOK, Code, PcOfMain, LeftSetup, Goto, ends, Closes
<1>2. Places'
  BY Names, Processes DEF IInv, TypeOK, Places, LeftSetup, Goto, ends, Closes
<1>3. Forks'
  BY Names, Processes DEF IInv, TypeOK, Places, Forks, LeftSetup, Goto, ends, Closes
<1>4. Waited'
  BY Names, Processes DEF IInv, TypeOK, Places, Forks, Waited, Ended, LeftSetup, Goto, ends,
     Closes
<1>5. Writer'
  BY Names, Processes DEF IInv, TypeOK, Places, Forks, Writer, Holders, LeftSetup, Goto, ends,
     Closes
<1>6. Holders'
  BY Names, Processes DEF IInv, TypeOK, Places, Forks, Writer, Holders, Ended, LeftSetup, Goto,
     ends, Closes
<1>7. EofMeansOver'
  BY Names, Processes DEF IInv, TypeOK, Places, Forks, EofMeansOver, Ended, Writer, LeftSetup,
     Goto, ends, Closes
<1> QED
  BY <1>1, <1>2, <1>3, <1>4, <1>5, <1>6, <1>7 DEF IInv

\* The right child keeps neither end of the pipe it reads and writes by.
LEMMA RightSetupStep ==
  ASSUME IInv, NEW k \in Pipe, RightSetup(k)
  PROVE  IInv'
<1>1. TypeOK'
  BY Names, Processes DEF IInv, TypeOK, Code, PcOfMain, RightSetup, Goto, ends, Closes
<1>2. Places'
  BY Names, Processes DEF IInv, TypeOK, Places, RightSetup, Goto, ends, Closes
<1>3. Forks'
  BY Names, Processes DEF IInv, TypeOK, Places, Forks, RightSetup, Goto, ends, Closes
<1>4. Waited'
  BY Names, Processes DEF IInv, TypeOK, Places, Forks, Waited, Ended, RightSetup, Goto, ends,
     Closes
<1>5. Writer'
  BY Names, Processes DEF IInv, TypeOK, Places, Forks, Writer, Holders, RightSetup, Goto, ends,
     Closes
<1>6. Holders'
  BY Names, Processes DEF IInv, TypeOK, Places, Forks, Writer, Holders, Ended, RightSetup, Goto,
     ends, Closes
<1>7. EofMeansOver'
  BY Names, Processes DEF IInv, TypeOK, Places, Forks, EofMeansOver, Ended, Writer, RightSetup,
     Goto, ends, Closes
<1> QED
  BY <1>1, <1>2, <1>3, <1>4, <1>5, <1>6, <1>7 DEF IInv

\* A command that stops lets go of everything.
LEMMA StopsStep ==
  ASSUME IInv, NEW p \in Command, Stops(p)
  PROVE  IInv'
<1>1. TypeOK'
  BY Names, Processes, Commands DEF IInv, TypeOK, Code, PcOfMain, Stops, Goto, ends, Ends,
     Closes, Running, Code
<1>2. Places'
  BY Names, Processes, Commands DEF IInv, TypeOK, Places, Stops, Goto, ends, Ends, Closes,
     Running, Code
<1>3. Forks'
  BY Names, Processes, Commands DEF IInv, TypeOK, Places, Forks, Stops, Goto, ends, Ends,
     Closes, Running, Code
<1>4. Waited'
  BY Names, Processes, Commands DEF IInv, TypeOK, Places, Forks, Waited, Ended, Stops, Goto,
     ends, Ends, Closes, Running, Code
<1>5. Writer'
  BY Names, Processes, Commands DEF IInv, TypeOK, Places, Forks, Writer, Holders, Stops, Goto,
     ends, Ends, Closes, Running, Code
<1>6. Holders'
  BY Names, Processes, Commands DEF IInv, TypeOK, Places, Forks, Writer, Holders, Ended, Stops,
     Goto, ends, Ends, Closes, Running, Code
<1>7. EofMeansOver'
  BY Names, Processes, Commands DEF IInv, TypeOK, Places, Forks, EofMeansOver, Ended, Writer,
     Stops, Goto, ends, Ends, Closes, Running, Code
<1> QED
  BY <1>1, <1>2, <1>3, <1>4, <1>5, <1>6, <1>7 DEF IInv

\* So does one that is killed.
LEMMA KilledStep ==
  ASSUME IInv, NEW k \in Pipe, Killed(k)
  PROVE  IInv'
<1>1. TypeOK'
  BY Names, Processes DEF IInv, TypeOK, Code, PcOfMain, Killed, Goto, ends, Ends, Closes,
     Running
<1>2. Places'
  BY Names, Processes DEF IInv, TypeOK, Places, Killed, Goto, ends, Ends, Closes, Running
<1>3. Forks'
  BY Names, Processes DEF IInv, TypeOK, Places, Forks, Killed, Goto, ends, Ends, Closes, Running
<1>4. Waited'
  BY Names, Processes DEF IInv, TypeOK, Places, Forks, Waited, Ended, Killed, Goto, ends, Ends,
     Closes, Running
<1>5. Writer'
  BY Names, Processes DEF IInv, TypeOK, Places, Forks, Writer, Holders, Killed, Goto, ends,
     Ends, Closes, Running
<1>6. Holders'
  BY Names, Processes DEF IInv, TypeOK, Places, Forks, Writer, Holders, Ended, Killed, Goto,
     ends, Ends, Closes, Running
<1>7. EofMeansOver'
  BY Names, Processes DEF IInv, TypeOK, Places, Forks, EofMeansOver, Ended, Writer, Killed,
     Goto, ends, Ends, Closes, Running
<1> QED
  BY <1>1, <1>2, <1>3, <1>4, <1>5, <1>6, <1>7 DEF IInv

\* Passing on data moves nobody.
LEMMA PassesStep ==
  ASSUME IInv, NEW k \in Pipe, Passes(k)
  PROVE  IInv'
<1>1. TypeOK'
  BY Names, Processes DEF IInv, TypeOK, Code, PcOfMain, Passes, Goto, ends
<1>2. Places'
  BY Names, Processes DEF IInv, TypeOK, Places, Passes, Goto, ends
<1>3. Forks'
  BY Names, Processes DEF IInv, TypeOK, Places, Forks, Passes, Goto, ends
<1>4. Waited'
  BY Names, Processes DEF IInv, TypeOK, Places, Forks, Waited, Ended, Passes, Goto, ends
<1>5. Writer'
  BY Names, Processes DEF IInv, TypeOK, Places, Forks, Writer, Holders, Passes, Goto, ends
<1>6. Holders'
  BY Names, Processes DEF IInv, TypeOK, Places, Forks, Writer, Holders, Ended, Passes, Goto,
     ends
<1>7. EofMeansOver'
  BY Names, Processes DEF IInv, TypeOK, Places, Forks, EofMeansOver, Ended, Writer, Passes,
     Goto, ends
<1> QED
  BY <1>1, <1>2, <1>3, <1>4, <1>5, <1>6, <1>7 DEF IInv

\* Writing moves nobody.
LEMMA SuppliesStep ==
  ASSUME IInv, Supplies
  PROVE  IInv'
<1>1. TypeOK'
  BY Names, Processes DEF IInv, TypeOK, Code, PcOfMain, Supplies, Goto, ends
<1>2. Places'
  BY Names, Processes DEF IInv, TypeOK, Places, Supplies, Goto, ends
<1>3. Forks'
  BY Names, Processes DEF IInv, TypeOK, Places, Forks, Supplies, Goto, ends
<1>4. Waited'
  BY Names, Processes DEF IInv, TypeOK, Places, Forks, Waited, Ended, Supplies, Goto, ends
<1>5. Writer'
  BY Names, Processes DEF IInv, TypeOK, Places, Forks, Writer, Holders, Supplies, Goto, ends
<1>6. Holders'
  BY Names, Processes DEF IInv, TypeOK, Places, Forks, Writer, Holders, Ended, Supplies, Goto,
     ends
<1>7. EofMeansOver'
  BY Names, Processes DEF IInv, TypeOK, Places, Forks, EofMeansOver, Ended, Writer, Supplies,
     Goto, ends
<1> QED
  BY <1>1, <1>2, <1>3, <1>4, <1>5, <1>6, <1>7 DEF IInv

\* Reading moves nobody.
LEMMA ReadsStep ==
  ASSUME IInv, Reads
  PROVE  IInv'
<1>1. TypeOK'
  BY Names, Processes DEF IInv, TypeOK, Code, PcOfMain, Reads, Goto, ends
<1>2. Places'
  BY Names, Processes DEF IInv, TypeOK, Places, Reads, Goto, ends
<1>3. Forks'
  BY Names, Processes DEF IInv, TypeOK, Places, Forks, Reads, Goto, ends
<1>4. Waited'
  BY Names, Processes DEF IInv, TypeOK, Places, Forks, Waited, Ended, Reads, Goto, ends
<1>5. Writer'
  BY Names, Processes DEF IInv, TypeOK, Places, Forks, Writer, Holders, Reads, Goto, ends
<1>6. Holders'
  BY Names, Processes DEF IInv, TypeOK, Places, Forks, Writer, Holders, Ended, Reads, Goto, ends
<1>7. EofMeansOver'
  BY Names, Processes DEF IInv, TypeOK, Places, Forks, EofMeansOver, Ended, Writer, Reads, Goto,
     ends
<1> QED
  BY <1>1, <1>2, <1>3, <1>4, <1>5, <1>6, <1>7 DEF IInv

\* The end of a file is read after its writer has ended.
LEMMA FinishesStep ==
  ASSUME IInv, NEW p \in Command, NEW k \in 1 .. Stages, Finishes(p, k)
  PROVE  IInv'
<1>1. TypeOK'
  BY Names, Processes, Commands DEF IInv, TypeOK, Code, PcOfMain, Finishes, Goto, ends, Ends,
     Closes, Running
<1>2. Places'
  BY Names, Processes, Commands DEF IInv, TypeOK, Places, Finishes, Goto, ends, Ends, Closes,
     Running
<1>3. Forks'
  BY Names, Processes, Commands DEF IInv, TypeOK, Places, Forks, Finishes, Goto, ends, Ends,
     Closes, Running
<1>4. Waited'
  BY Names, Processes, Commands DEF IInv, TypeOK, Places, Forks, Waited, Ended, Finishes, Goto,
     ends, Ends, Closes, Running
<1>5. Writer'
  BY Names, Processes, Commands DEF IInv, TypeOK, Places, Forks, Writer, Holders, Finishes,
     Goto, ends, Ends, Closes, Running
<1>6. Holders'
  BY Names, Processes, Commands DEF IInv, TypeOK, Places, Forks, Writer, Holders, Ended,
     Finishes, Goto, ends, Ends, Closes, Running
<1>7. EofMeansOver'
  BY Names, Processes, Commands DEF IInv, TypeOK, Places, Forks, EofMeansOver, Ended, Writer,
     Finishes, Goto, ends, Ends, Closes, Running
<1> QED
  BY <1>1, <1>2, <1>3, <1>4, <1>5, <1>6, <1>7 DEF IInv

\* At the beginning there is only the shell.
LEMMA InitIInv ==
  ASSUME Init
  PROVE  IInv
<1>1. TypeOK
  <2>1. amount \in [Pipe -> 0 .. Capacity] /\ (supply = Endless \/ supply \in Nat)
    BY DEF Init, PipelineAssumption
  <2> QED
    BY <2>1 DEF Init, TypeOK, Code, PcOfMain
<1>2. Places /\ Forks /\ Waited
  BY Names, Processes DEF Init, Places, Forks, Waited, Ended, PipelineAssumption
<1>3. Writer /\ Holders /\ EofMeansOver
  BY Names, Processes DEF Init, Writer, Holders, EofMeansOver
<1> QED
  BY <1>1, <1>2, <1>3 DEF IInv

\* Every step, and every stuttering step, keeps the invariant.
LEMMA NextIInv ==
  ASSUME IInv, [Next]_vars
  PROVE  IInv'
<1>1. ASSUME NEW k \in Pipe, ExecutePipe(k)
      PROVE  IInv'
  BY <1>1, MakePipeStep, ForkLeftStep, ForkRightStep, CloseBothStep, WaitLeftStep,
     WaitRightStep, ReturnStep DEF ExecutePipe
<1>2. ASSUME NEW k \in Pipe, Fails(k) \/ LeftSetup(k) \/ RightSetup(k)
      PROVE  IInv'
  BY <1>2, FailsStep, LeftSetupStep, RightSetupStep
<1>3. ASSUME NEW p \in Command, Stops(p)
      PROVE  IInv'
  BY <1>3, StopsStep
<1>4. CASE Works
  BY <1>4, KilledStep, PassesStep, SuppliesStep, ReadsStep, FinishesStep DEF Works
<1>5. CASE UNCHANGED vars
  BY <1>5 DEF vars, ends, IInv, TypeOK, Places, Forks, Waited, Writer, Holders, EofMeansOver,
     Ended
<1> QED
  BY <1>1, <1>2, <1>3, <1>4, <1>5 DEF Next

-----------------------------------------------------------------------------
(* The whole pipeline.                                                     *)

\* Induction over numbers, for a set of them: the least one missing would be the
\* successor of one that is there.
LEMMA AllNumbers ==
  ASSUME NEW T, 0 \in T, \A k \in Nat : k \in T => k + 1 \in T
  PROVE  \A k \in Nat : k \in T
<1> DEFINE Rest == Nat \ T
           R == {ss \in Nat \X Nat : ss[1] < ss[2]}
<1>1. SUFFICES ASSUME Rest # {}
               PROVE  FALSE
  OBVIOUS
<1>2. IsWellFoundedOn(R, Nat)
  BY NatLessThanWellFounded DEF OpToRel
<1>3. PICK x \in Rest : \A y \in Rest : ~ (<<y, x>> \in R)
  <2>1. Rest \subseteq Nat
    OBVIOUS
  <2> HIDE DEF Rest, R
  <2> QED
    BY <1>1, <1>2, <2>1, WFMin
<1>4. x \in Nat /\ x # 0
  BY <1>3
<1>5. x - 1 \in Nat /\ x - 1 \notin T
  BY <1>3, <1>4
<1>6. <<x - 1, x>> \in Nat \X Nat /\ <<x - 1, x>>[1] = x - 1 /\ <<x - 1, x>>[2] = x
  BY <1>4, <1>5
<1>7. <<x - 1, x>> \in R
  BY <1>4, <1>5, <1>6
<1> QED
  BY <1>3, <1>5, <1>7

\* When the shell is back and nothing failed, one process after the other has been
\* waited for.
LEMMA AllWaited ==
  ASSUME IInv, Returned, failed = {}
  PROVE  /\ \A k \in Pipe : pc[Left(k)] = "end" /\ pc[Main(k + 1)] = "end"
<1> DEFINE T == {k \in Nat : k + 1 \in Pipe =>
                   Ended(Main(k + 1)) /\ pc[Left(k + 1)] = "end" /\ pc[Main(k + 2)] = "end"}
<1>1. ASSUME NEW k \in Pipe, Ended(Main(k))
      PROVE  pc[Left(k)] = "end" /\ pc[Main(k + 1)] = "end"
  BY <1>1 DEF IInv, Waited
<1>2. 0 \in T
  BY <1>1 DEF Returned, Ended
<1>3. ASSUME NEW k \in Nat, k \in T
      PROVE  k + 1 \in T
  <2>1. SUFFICES ASSUME k + 2 \in Pipe
                 PROVE  Ended(Main(k + 2)) /\ pc[Left(k + 2)] = "end" /\ pc[Main(k + 3)] = "end"
    OBVIOUS
  <2>2. k + 1 \in Pipe
    BY <2>1 DEF Pipe, PipelineAssumption
  <2>3. Ended(Main(k + 2))
    BY <1>3, <2>2 DEF Ended
  <2> QED
    BY <1>1, <2>1, <2>3
<1> HIDE DEF T
<1>4. \A k \in Nat : k \in T
  BY <1>2, <1>3, AllNumbers
<1>5. ASSUME NEW k \in Pipe
      PROVE  pc[Left(k)] = "end" /\ pc[Main(k + 1)] = "end"
  <2>1. k - 1 \in Nat /\ (k - 1) + 1 = k /\ (k - 1) + 2 = k + 1
    BY DEF Pipe, PipelineAssumption
  <2> QED
    BY <1>4, <2>1 DEF T
<1> QED
  BY <1>5

-----------------------------------------------------------------------------
(* Theorems.                                                               *)

\* The inductive invariant holds throughout.
THEOREM InvariantTheorem == Spec => []IInv
<1> QED
  BY InitIInv, NextIInv, PTL DEF Spec

\* Every variable keeps its type, for any number of commands.
THEOREM TypeTheorem == Spec => []TypeOK
<1>1. IInv => TypeOK
  BY DEF IInv
<1> QED
  BY <1>1, InvariantTheorem, PTL

\* No stream is cut short: who reads its end reads it after the writer has ended,
\* because the writer holds the write end until then.
THEOREM EofTheorem == Spec => []EofMeansOver
<1>1. IInv => EofMeansOver
  BY DEF IInv
<1> QED
  BY <1>1, InvariantTheorem, PTL

\* When the prompt is back after a pipeline of any length, none of its processes
\* is left and nobody holds an end of its pipes, provided no system call failed.
THEOREM NothingLeftTheorem == Spec => []NothingLeft
<1>1. ASSUME IInv, Returned, failed = {}
      PROVE  /\ \A p \in Process \ {Main(1)} : pc[p] = "end"
             /\ \A k \in Pipe : writers[k] = {} /\ readers[k] = {}
  <2>1. ASSUME NEW p \in Process \ {Main(1)}
        PROVE  pc[p] = "end"
    <3>1. CASE \E k \in Pipe : p = Left(k)
      BY <1>1, <3>1, AllWaited
    <3>2. ASSUME NEW k \in 1 .. Stages, p = Main(k)
          PROVE  pc[p] = "end"
      <4>1. k - 1 \in Pipe /\ (k - 1) + 1 = k
        BY <2>1, <3>2 DEF Pipe, PipelineAssumption
      <4> QED
        BY <1>1, <3>2, <4>1, AllWaited
    <3> QED
      BY <3>1, <3>2, Processes
  <2>2. ASSUME NEW k \in Pipe, NEW p \in writers[k] \cup readers[k]
        PROVE  FALSE
    <3>1. p \in Process
      BY <1>1, <2>2 DEF IInv, TypeOK
    <3>2. p # Main(1)
      BY <1>1, <2>2 DEF IInv, Holders, Returned
    <3> QED
      BY <1>1, <2>1, <2>2, <3>1, <3>2 DEF IInv, Holders, Ended
  <2> QED
    BY <2>1, <2>2
<1>2. IInv => NothingLeft
  BY <1>1 DEF NothingLeft
<1> QED
  BY <1>2, InvariantTheorem, PTL

=============================================================================
