-------------------------- MODULE DashEval_proof --------------------------
(***************************************************************************)
(* Proofs about DashEval.  For any scripts, whatever their trees and       *)
(* traps: the handler is always that of the innermost frame that has one,  *)
(* and interrupts are on whenever a command begins.  For scripts that are  *)
(* Tame: the registers say what the stack says whenever a command begins,  *)
(* and a break or continue on its way has a loop to end.                   *)
(***************************************************************************)
EXTENDS DashEval, SequenceTheorems, FiniteSetTheorems, WellFoundedInduction, TLAPS

\* The nodes of the scripts, and those of them that may be in a text of command
\* eval, in a loop or child in such a text, and in a trap (see Tame).
CONSTANTS Trees, Recoverable, Errorless, Steady

-----------------------------------------------------------------------------
(* The inductive invariant.  Nothing is assumed of the trees, so that the  *)
(* values in frames and registers are only as typed as these proofs need.  *)

\* A sequence, of whatever.
IsStack(s) == s \in Seq({s[i] : i \in DOMAIN s})

\* The frames that put up a handler, and the innermost of the first m.
Handlers == {"bltin", "fun", "exit"}
Innermost(s, m, h) ==
  /\ h \in 0..m
  /\ h > 0 => s[h].t \in Handlers
  /\ \A j \in (h + 1)..m : s[j].t \notin Handlers

\* The order of frames: cmdloop(1) is at the bottom and nowhere else, a command
\* is below its builtin or function, which remembers the handler of before, and
\* a trap knows how evaltree goes on.
Fits(s, i) ==
  /\ "t" \in DOMAIN s[i]
  /\ s[i].t = "top" <=> i = 1
  /\ s[i].t \in {"bltin", "fun"} =>
       s[i - 1].t = "cmd" /\ Innermost(s, i - 1, s[i].handler)
  /\ s[i].t = "trap" =>
       /\ "go" \in DOMAIN s[i].then
       /\ s[i].then.go \in {"enter", "leave"}
       /\ s[i].then.go = "leave" => s[i - 1].t = "tree"

\* A stack in that order, and the handler of its innermost frame.
Stacked(s, h) ==
  /\ IsStack(s) /\ Len(s) > 0
  /\ \A i \in 1..Len(s) : Fits(s, i)
  /\ Innermost(s, Len(s), h)

IsReg(r) ==
  {"supp", "handler", "exited"} \subseteq DOMAIN r /\ r.supp \in Nat /\ r.exited \in BOOLEAN

Controls == {"eval", "enter", "ret", "leave", "next", "throw", "halt"}

\* Interrupts are off only on the way of an exception, up to the command
\* that has caught it, and when the shell is on its way out.
OffOnlyIn(c, s, r) ==
  r.supp = 0 \/ r.exited \/ c.go \in {"throw", "halt"} \/ (c.go = "ret" /\ Last(s).t = "cmd")

\* The process that runs.
Running(c, s, r) ==
  /\ "go" \in DOMAIN c /\ c.go \in Controls
  /\ IsReg(r)
  /\ c.go # "halt" => Stacked(s, r.handler)
  /\ c.go = "leave" => Last(s).t = "tree"
  /\ OffOnlyIn(c, s, r)

\* A process that waits for its child in waitforjob, with interrupts off.
Waiting(p) ==
  /\ {"k", "reg"} \subseteq DOMAIN p
  /\ IsReg(p.reg)
  /\ Stacked(p.k, p.reg.handler)
  /\ Last(p.k).t = "fork"
  /\ p.reg.supp > 0 /\ (p.reg.supp = 1 \/ p.reg.exited)

AllWait(ps) == IsStack(ps) /\ \A j \in 1..Len(ps) : Waiting(ps[j])

Inv == Running(ctl, k, reg) /\ AllWait(parents)

-----------------------------------------------------------------------------
(* Sequences.                                                              *)

\* What a sequence is.
LEMMA StackShape ==
  ASSUME NEW s, IsStack(s)
  PROVE  Len(s) \in Nat /\ DOMAIN s = 1..Len(s)
<1> DEFINE S == {s[i] : i \in DOMAIN s}
<1>1. s \in Seq(S)
  BY DEF IsStack
<1> HIDE DEF S
<1> QED
  BY <1>1, LenProperties

\* A sequence of members of any set is one.
LEMMA IsStackIf ==
  ASSUME NEW S, NEW s \in Seq(S)
  PROVE  IsStack(s)
<1> DEFINE T == {s[i] : i \in DOMAIN s}
<1>1. Len(s) \in Nat /\ s \in [1..Len(s) -> S] /\ DOMAIN s = 1..Len(s)
  BY LenProperties
<1>2. s \in [1..Len(s) -> T]
  BY <1>1
<1>3. s \in Seq(T)
  BY <1>1, <1>2, SeqDef
<1> QED
  BY <1>3 DEF IsStack

\* The sequence with one more.
LEMMA Appended ==
  ASSUME NEW s, IsStack(s), NEW f
  PROVE  /\ IsStack(Append(s, f))
         /\ Len(Append(s, f)) = Len(s) + 1
         /\ Last(Append(s, f)) = f
         /\ Append(s, f)[Len(s) + 1] = f
         /\ \A i \in 1..Len(s) : Append(s, f)[i] = s[i]
<1> DEFINE S == {s[i] : i \in DOMAIN s}
           T == S \cup {f}
<1>1. s \in Seq(S) /\ S \subseteq T /\ f \in T
  BY DEF IsStack
<1> HIDE DEF S, T
<1>2. s \in Seq(T)
  BY <1>1, SeqMonotonic
<1>3. /\ Append(s, f) \in Seq(T)
      /\ Len(Append(s, f)) = Len(s) + 1
      /\ Append(s, f)[Len(s) + 1] = f
      /\ \A i \in 1..Len(s) : Append(s, f)[i] = s[i]
  BY <1>1, <1>2, AppendProperties
<1>4. IsStack(Append(s, f))
  BY <1>3, IsStackIf
<1> QED
  BY <1>3, <1>4 DEF Last

\* The first n of a sequence.
LEMMA Cut ==
  ASSUME NEW s, IsStack(s), NEW n \in 0..Len(s)
  PROVE  /\ IsStack(SubSeq(s, 1, n))
         /\ Len(SubSeq(s, 1, n)) = n
         /\ \A i \in 1..n : SubSeq(s, 1, n)[i] = s[i]
<1> DEFINE S == {s[i] : i \in DOMAIN s}
<1>1. Len(s) \in Nat /\ DOMAIN s = 1..Len(s)
  BY StackShape
<1>2. \A i \in 1..n : s[i] \in S
  BY <1>1
<1> HIDE DEF S
<1>3. /\ SubSeq(s, 1, n) \in Seq(S)
      /\ Len(SubSeq(s, 1, n)) = IF 1 <= n THEN n - 1 + 1 ELSE 0
      /\ \A i \in 1..(n - 1 + 1) : SubSeq(s, 1, n)[i] = s[1 + i - 1]
  BY <1>1, <1>2, SubSeqProperties
<1>4. IsStack(SubSeq(s, 1, n))
  BY <1>3, IsStackIf
<1>5. n \in Nat /\ n - 1 + 1 = n /\ (~(1 <= n) => n = 0)
  BY <1>1
<1>6. \A i \in 1..n : 1 + i - 1 = i
  BY <1>1
<1> QED
  BY <1>3, <1>4, <1>5, <1>6

\* Two, three and four more are one after another.
LEMMA OneByOne ==
  ASSUME NEW s, IsStack(s), NEW a, NEW b
  PROVE  /\ s \o <<a, b>> = Append(Append(s, a), b)
         /\ \A c : s \o <<a, b, c>> = Append(Append(Append(s, a), b), c)
         /\ \A c, d : s \o <<a, b, c, d>> = Append(Append(Append(Append(s, a), b), c), d)
<1> SUFFICES ASSUME NEW c, NEW d
             PROVE  /\ s \o <<a, b>> = Append(Append(s, a), b)
                    /\ s \o <<a, b, c>> = Append(Append(Append(s, a), b), c)
                    /\ s \o <<a, b, c, d>> = Append(Append(Append(Append(s, a), b), c), d)
  OBVIOUS
<1> DEFINE S == {s[i] : i \in DOMAIN s}
           T == S \cup {a, b, c, d}
<1>1. s \in Seq(S) /\ S \subseteq T /\ a \in T /\ b \in T /\ c \in T /\ d \in T
  BY DEF IsStack
<1> HIDE DEF S, T
<1>2. s \in Seq(T)
  BY <1>1, SeqMonotonic
<1>3. Len(s) \in Nat
  BY <1>2, LenProperties
<1>4. /\ Append(s, a) \in Seq(T) /\ Append(Append(s, a), b) \in Seq(T)
      /\ Append(Append(Append(s, a), b), c) \in Seq(T)
      /\ Append(Append(Append(Append(s, a), b), c), d) \in Seq(T)
  BY <1>1, <1>2, AppendProperties
<1>5. /\ s \o <<a, b>> \in Seq(T) /\ s \o <<a, b, c>> \in Seq(T)
      /\ s \o <<a, b, c, d>> \in Seq(T)
  BY <1>1, <1>2, ConcatProperties
<1>6. s \o <<a, b>> = Append(Append(s, a), b)
  BY <1>1, <1>2, <1>3, <1>4, <1>5, SeqEqual
<1>7. s \o <<a, b, c>> = Append(Append(Append(s, a), b), c)
  BY <1>1, <1>2, <1>3, <1>4, <1>5, SeqEqual
<1>8. s \o <<a, b, c, d>> = Append(Append(Append(Append(s, a), b), c), d)
  BY <1>1, <1>2, <1>3, <1>4, <1>5, SeqEqual
<1> QED
  BY <1>6, <1>7, <1>8

-----------------------------------------------------------------------------
(* The order of frames.                                                    *)

\* What Innermost and Fits say depends on the frames up to theirs only.
LEMMA SameInnermost ==
  ASSUME NEW s, NEW u, NEW m \in Nat, NEW h, \A j \in 1..m : u[j] = s[j], Innermost(s, m, h)
  PROVE  Innermost(u, m, h)
BY DEF Innermost

\* Fits looks at a frame and those below it only.
LEMMA SameFits ==
  ASSUME NEW s, NEW u, NEW i \in Nat, i > 0, \A j \in 1..i : u[j] = s[j], Fits(s, i)
  PROVE  Fits(u, i)
<1>1. u[i] = s[i]
  OBVIOUS
<1>2. i # 1 => u[i - 1] = s[i - 1] /\ i - 1 \in Nat
  OBVIOUS
<1>3. i # 1 => \A h : Innermost(s, i - 1, h) => Innermost(u, i - 1, h)
  BY <1>2, SameInnermost
<1>4. i = 1 => s[i].t \notin {"bltin", "fun", "trap"}
  BY DEF Fits
<1> QED
  BY <1>1, <1>2, <1>3, <1>4 DEF Fits

\* One frame more: what the order asks of it is said of it and the stack below.
LEMMA Pushed1 ==
  ASSUME NEW s, NEW h, NEW f, NEW g, Stacked(s, h),
         "t" \in DOMAIN f, f.t # "top",
         f.t \in {"bltin", "fun"} => Last(s).t = "cmd" /\ f.handler = h,
         f.t = "trap" => /\ "go" \in DOMAIN f.then
                         /\ f.then.go \in {"enter", "leave"}
                         /\ f.then.go = "leave" => Last(s).t = "tree",
         g = IF f.t \in Handlers THEN Len(s) + 1 ELSE h
  PROVE  Stacked(Append(s, f), g)
<1> DEFINE u == Append(s, f)
           n == Len(s)
<1>1. n \in Nat /\ n > 0
  BY StackShape DEF Stacked
<1>2. IsStack(u) /\ Len(u) = n + 1 /\ u[n + 1] = f /\ \A i \in 1..n : u[i] = s[i]
  BY Appended DEF Stacked
<1>3. Innermost(s, n, h) /\ Innermost(u, n, h)
  BY <1>1, <1>2, SameInnermost DEF Stacked
<1> HIDE DEF u, n
<1>4. \A i \in 1..n : Fits(u, i)
  <2> SUFFICES ASSUME NEW i \in 1..n
               PROVE  Fits(u, i)
    OBVIOUS
  <2>1. i \in Nat /\ i > 0 /\ \A j \in 1..i : u[j] = s[j]
    BY <1>1, <1>2
  <2>2. Fits(s, i)
    BY DEF Stacked, n
  <2> QED
    BY <2>1, <2>2, SameFits
<1>5. Last(s) = s[n]
  BY DEF Last, n
<1>6. (n + 1) - 1 = n /\ n + 1 # 1 /\ u[n] = s[n]
  BY <1>1, <1>2
<1>7. Fits(u, n + 1)
  BY <1>2, <1>3, <1>5, <1>6 DEF Fits
<1>8. Innermost(u, n + 1, g)
  BY <1>1, <1>2, <1>3 DEF Innermost, n
<1>9. \A i \in 1..Len(u) : Fits(u, i)
  BY <1>1, <1>2, <1>4, <1>7
<1> QED
  BY <1>1, <1>2, <1>8, <1>9 DEF Stacked, u

\* The first m frames, when the handler of the stack is not among the others.
LEMMA Cut1 ==
  ASSUME NEW s, NEW h, NEW g, Stacked(s, h), NEW m \in 1..Len(s), Innermost(s, m, g)
  PROVE  Stacked(SubSeq(s, 1, m), g) /\ Last(SubSeq(s, 1, m)) = s[m]
<1> DEFINE u == SubSeq(s, 1, m)
<1>1. Len(s) \in Nat /\ m \in 0..Len(s) /\ m \in Nat /\ m > 0
  BY StackShape DEF Stacked
<1>2. IsStack(u) /\ Len(u) = m /\ \A i \in 1..m : u[i] = s[i]
  BY <1>1, Cut DEF Stacked
<1> HIDE DEF u
<1>3. \A i \in 1..m : Fits(u, i)
  <2> SUFFICES ASSUME NEW i \in 1..m
               PROVE  Fits(u, i)
    OBVIOUS
  <2>1. i \in Nat /\ i > 0 /\ i \in 1..Len(s) /\ \A j \in 1..i : u[j] = s[j]
    BY <1>1, <1>2
  <2>2. Fits(s, i)
    BY <2>1 DEF Stacked
  <2> QED
    BY <2>1, <2>2, SameFits
<1>4. Innermost(u, m, g)
  BY <1>1, <1>2, SameInnermost
<1>5. Last(u) = s[m]
  BY <1>1, <1>2 DEF Last
<1> QED
  BY <1>1, <1>2, <1>3, <1>4, <1>5 DEF Stacked, u

\* A frame of its own: neither the bottom nor a handler nor a trap.
Plain(f) == "t" \in DOMAIN f /\ f.t \notin Handlers \cup {"top", "trap"}

\* A plain frame on top.
LEMMA Push ==
  ASSUME NEW s, NEW h, NEW f, Stacked(s, h), Plain(f)
  PROVE  Stacked(Append(s, f), h) /\ Last(Append(s, f)) = f
<1>1. Stacked(Append(s, f), h)
  BY Pushed1 DEF Plain, Handlers
<1>2. Last(Append(s, f)) = f
  BY Appended DEF Stacked
<1> QED
  BY <1>1, <1>2

\* Two plain frames on top.
LEMMA Push2 ==
  ASSUME NEW s, NEW h, NEW f, NEW g, Stacked(s, h), Plain(f), Plain(g)
  PROVE  Stacked(s \o <<f, g>>, h)
<1>1. s \o <<f, g>> = Append(Append(s, f), g)
  BY OneByOne DEF Stacked
<1>2. Stacked(Append(s, f), h)
  BY Push
<1>3. Stacked(Append(Append(s, f), g), h)
  BY <1>2, Push
<1> QED
  BY <1>1, <1>3

\* The second of two that are pushed is the last.
LEMMA LastOfTwo ==
  ASSUME NEW s, IsStack(s), NEW f, NEW g
  PROVE  Last(s \o <<f, g>>) = g
<1>1. s \o <<f, g>> = Append(Append(s, f), g)
  BY OneByOne
<1>2. IsStack(Append(s, f))
  BY Appended
<1>3. Last(Append(Append(s, f), g)) = g
  BY <1>2, Appended
<1> QED
  BY <1>1, <1>3

\* The top frame is given up.
LEMMA Pop ==
  ASSUME NEW s, NEW h, Stacked(s, h), Last(s).t \notin Handlers \cup {"top"}
  PROVE  Stacked(Front(s), h)
<1> DEFINE n == Len(s)
<1>1. n \in Nat /\ n > 0 /\ Last(s) = s[n] /\ Fits(s, n) /\ Innermost(s, n, h)
  BY StackShape DEF Stacked, Last
<1>2. n # 1 /\ h \in 0..n /\ h # n
  BY <1>1 DEF Fits, Innermost
<1> HIDE DEF n
<1>3. n - 1 \in 1..n /\ h \in 0..(n - 1)
  BY <1>1, <1>2
<1>4. Innermost(s, n - 1, h)
  BY <1>1, <1>3 DEF Innermost
<1>5. Stacked(SubSeq(s, 1, n - 1), h)
  BY <1>3, <1>4, Cut1 DEF n
<1> QED
  BY <1>5 DEF Front, n

\* The top frame is replaced by another of no handler.
LEMMA Replace ==
  ASSUME NEW s, NEW h, NEW f, Stacked(s, h), Last(s).t \notin Handlers \cup {"top"}, Plain(f)
  PROVE  Stacked(Append(Front(s), f), h) /\ Last(Append(Front(s), f)) = f
BY Pop, Push

\* The frame of a builtin or a function is cut off, with what is above it.
LEMMA CutHandler ==
  ASSUME NEW s, NEW h, Stacked(s, h), h # 0, s[h].t \in {"bltin", "fun"}
  PROVE  /\ Stacked(SubSeq(s, 1, h - 1), s[h].handler)
         /\ Last(SubSeq(s, 1, h - 1)).t = "cmd"
<1> DEFINE n == Len(s)
<1>1. n \in Nat /\ n > 0 /\ h \in 0..n /\ h \in 1..n
  BY StackShape DEF Stacked, Innermost
<1>2. Fits(s, h)
  BY <1>1 DEF Stacked
<1>3. h # 1 /\ s[h - 1].t = "cmd" /\ Innermost(s, h - 1, s[h].handler)
  BY <1>2 DEF Fits
<1>4. h - 1 \in 1..Len(s)
  BY <1>1, <1>3
<1> QED
  BY <1>3, <1>4, Cut1

\* The top frame goes, and gives back the handler it remembers.
LEMMA PopHandler ==
  ASSUME NEW s, NEW h, Stacked(s, h), Last(s).t \in {"bltin", "fun"}
  PROVE  Stacked(Front(s), Last(s).handler) /\ Last(Front(s)).t = "cmd"
<1>1. Len(s) \in Nat /\ Len(s) > 0 /\ Innermost(s, Len(s), h)
  BY StackShape DEF Stacked
<1>2. h = Len(s) /\ h # 0
  BY <1>1 DEF Innermost, Last, Handlers
<1> QED
  BY <1>2, CutHandler DEF Front, Last

\* The bottom, alone.
LEMMA Bottom ==
  ASSUME NEW f, "t" \in DOMAIN f, f.t = "top"
  PROVE  Stacked(<<f>>, 0)
<1>1. <<f>> \in Seq({f}) /\ Len(<<f>>) = 1 /\ <<f>>[1] = f
  OBVIOUS
<1>2. IsStack(<<f>>)
  BY <1>1, IsStackIf
<1>3. Fits(<<f>>, 1)
  BY <1>1 DEF Fits
<1>4. Innermost(<<f>>, 1, 0)
  BY <1>1 DEF Innermost, Handlers
<1> HIDE DEF IsStack
<1>5. \A i \in 1..1 : i = 1
  OBVIOUS
<1> QED
  BY <1>1, <1>2, <1>3, <1>4, <1>5 DEF Stacked

\* cmdloop(1) is at the bottom, and with nothing above it there is no handler.
LEMMA AtBottom ==
  ASSUME NEW s, NEW h, Stacked(s, h)
  PROVE  /\ s[1].t = "top" /\ "t" \in DOMAIN s[1]
         /\ Last(s).t = "top" => h = 0
         /\ "t" \in DOMAIN Last(s)
<1>1. Len(s) \in Nat /\ Len(s) > 0 /\ Fits(s, 1) /\ Fits(s, Len(s)) /\ Innermost(s, Len(s), h)
  BY StackShape DEF Stacked
<1>2. Last(s).t = "top" => Len(s) = 1
  BY <1>1 DEF Fits, Last
<1>3. Len(s) = 1 => h \in {0, 1}
  BY <1>1 DEF Innermost
<1>4. s[1].t = "top" /\ "t" \in DOMAIN s[1] /\ "t" \in DOMAIN s[Len(s)]
  BY <1>1 DEF Fits
<1>5. h # 1
  BY <1>1, <1>4 DEF Innermost, Handlers
<1> QED
  BY <1>2, <1>3, <1>4, <1>5 DEF Last

-----------------------------------------------------------------------------
(* One step of the process that runs.                                      *)

\* Registers with interrupts on, or of a shell that exits.
Calm(r) == IsReg(r) /\ (r.supp = 0 \/ r.exited)

\* Interrupts are on, or the shell exits, where no exception is on its way.
LEMMA IsCalm ==
  ASSUME NEW c, NEW s, NEW r, Running(c, s, r), c.go \notin {"throw", "halt"},
         c.go = "ret" => Last(s).t # "cmd"
  PROVE  Calm(r)
BY DEF Running, OffOnlyIn, Calm

\* A step that goes on with interrupts on keeps the invariant.
LEMMA Goes ==
  ASSUME NEW c, NEW s, NEW r, Calm(r), Stacked(s, r.handler), "go" \in DOMAIN c,
         c.go \in {"eval", "enter", "ret", "next"} \/ (c.go = "leave" /\ Last(s).t = "tree")
  PROVE  Running(c, s, r)
BY DEF Running, OffOnlyIn, Calm, Controls

\* So does one that raises an exception, whatever holds interrupts off,
LEMMA Throws ==
  ASSUME NEW c, NEW s, NEW r, IsReg(r), Stacked(s, r.handler), c = [go |-> "throw"]
  PROVE  Running(c, s, r)
BY DEF Running, OffOnlyIn, Controls

\* and one that ends the process.
LEMMA Halts ==
  ASSUME NEW c, NEW s, NEW r, NEW st, IsReg(r), c = [go |-> "halt", st |-> st]
  PROVE  Running(c, s, r)
BY DEF Running, OffOnlyIn, Controls

\* exraise leaves the handler alone: the jump is still to come.
LEMMA RaisedReg ==
  ASSUME NEW e, NEW r, IsReg(r)
  PROVE  IsReg(Raised(e, r)) /\ Raised(e, r).handler = r.handler
BY DEF IsReg, Raised

\* What Resume says of the next state.
Resumed(c, s, r, c2, s2, r2) ==
  IF r.intp /\ r.supp = 0
  THEN /\ c2 = IF r.root THEN [go |-> "throw"] ELSE [go |-> "halt", st |-> 130]
       /\ s2 = s
       /\ r2 = Raised("INT", [r EXCEPT !.intp = FALSE, !.exit = 130])
  ELSE c2 = c /\ s2 = s /\ r2 = r

\* A step that goes on, unless a signal that was waiting raises an exception.
LEMMA ResumedRuns ==
  ASSUME NEW c, NEW s, NEW r, NEW c2, NEW s2, NEW r2, Resumed(c, s, r, c2, s2, r2),
         Calm(r), Stacked(s, r.handler), "go" \in DOMAIN c, c.go \in {"eval", "enter", "ret", "next"}
  PROVE  Running(c2, s2, r2)
<1> DEFINE q == [r EXCEPT !.intp = FALSE, !.exit = 130]
<1>1. IsReg(q) /\ q.handler = r.handler
  BY DEF Calm, IsReg
<1> HIDE DEF q
<1>2. IsReg(Raised("INT", q)) /\ Raised("INT", q).handler = r.handler
  BY <1>1, RaisedReg
<1>3. CASE r.intp /\ r.supp = 0
  <2>1. s2 = s /\ r2 = Raised("INT", q)
    BY <1>3 DEF Resumed, q
  <2>2. c2 = [go |-> "throw"] \/ c2 = [go |-> "halt", st |-> 130]
    BY <1>3 DEF Resumed
  <2> QED
    BY <1>2, <2>1, <2>2, Throws, Halts
<1>4. CASE ~(r.intp /\ r.supp = 0)
  <2>1. c2 = c /\ s2 = s /\ r2 = r
    BY <1>4 DEF Resumed
  <2> QED
    BY <2>1, Goes
<1> QED
  BY <1>3, <1>4

-----------------------------------------------------------------------------
(* evaltree and loops.                                                     *)

\* What the invariant says to an action that enters a node or has a status.
LEMMA AtNode ==
  ASSUME Inv, Entering
  PROVE  /\ Calm(reg) /\ Stacked(k, reg.handler)
         /\ "go" \in DOMAIN ctl /\ ctl.go \in {"eval", "enter"}
<1>1. ctl.go \in {"eval", "enter"}
  BY DEF Entering
<1> QED
  BY <1>1, IsCalm DEF Inv, Running

\* What the invariant says to an action that goes on with the top frame.
LEMMA AtFrame ==
  ASSUME Inv, NEW t, Frame(t), t # "cmd"
  PROVE  /\ Calm(reg) /\ Stacked(k, reg.handler)
         /\ "go" \in DOMAIN ctl /\ ctl.go = "ret" /\ Last(k).t = t
BY IsCalm DEF Inv, Running, Frame, Top

\* A node is entered, with two plain frames to come back to.
LEMMA IntoRuns ==
  ASSUME NEW s, NEW r, NEW f, NEW g, NEW n, NEW fl, NEW c2, NEW s2, NEW r2,
         Calm(r), Stacked(s, r.handler), Plain(f), Plain(g),
         c2 = Eval(n, fl), s2 = s \o <<f, g>>, r2 = r
  PROVE  Running(c2, s2, r2)
<1>1. Stacked(s2, r2.handler)
  BY Push2
<1>2. "go" \in DOMAIN c2 /\ c2.go = "eval"
  BY DEF Eval
<1> QED
  BY <1>1, <1>2, Goes

\* The frame of evaltree is a plain one.
LEMMA TreeIsPlain ==
  ASSUME NEW ce
  PROVE  Plain(Tree(ce))
BY DEF Plain, Tree, Handlers

\* evaltree finds what node it has.
LEMMA EnterKeeps ==
  ASSUME Inv, Enter
  PROVE  Running(ctl', k', reg')
<1>1. Calm(reg) /\ Stacked(k, reg.handler)
  BY AtNode DEF Enter
<1> DEFINE f == [t |-> ctl.n.t, n |-> ctl.n, fl |-> ctl.fl]
<1>2. Plain(f)
  BY DEF Plain, Handlers, Enter
<1>3. Plain(Tree(FALSE))
  BY TreeIsPlain
<1> HIDE DEF f
<1>4. PICK fl : ctl' = Eval(ctl.n.a, fl) /\ k' = k \o <<Tree(FALSE), f>> /\ reg' = reg
  BY DEF Enter, Into, Step, f
<1> QED
  BY ONLY <1>1, <1>2, <1>3, <1>4, IntoRuns

\* ! of a command.
LEMMA NotKeeps ==
  ASSUME Inv, Not
  PROVE  Running(ctl', k', reg')
<1>1. Calm(reg) /\ Stacked(k, reg.handler) /\ Last(k).t = "not"
  BY AtFrame DEF Not
<1>2. Stacked(Front(k), reg.handler)
  BY <1>1, Pop DEF Handlers
<1>3. k' = Front(k) /\ reg' = reg /\ "go" \in DOMAIN ctl' /\ ctl'.go = "ret"
  BY DEF Not, Step, Ret
<1> QED
  BY <1>1, <1>2, <1>3, Goes

\* Lists with ;, && and ||.
LEMMA BinaryKeeps ==
  ASSUME Inv, Binary
  PROVE  Running(ctl', k', reg')
<1>1. PICK t \in {"and", "or", "seq"} : Frame(t)
  BY DEF Binary
<1>2. /\ Calm(reg) /\ Stacked(k, reg.handler) /\ "go" \in DOMAIN ctl
      /\ ctl.go = "ret" /\ Last(k).t \notin Handlers \cup {"top"}
  BY <1>1, AtFrame DEF Handlers
<1>3. Stacked(Front(k), reg.handler)
  BY <1>2, Pop
<1>4. k' = Front(k) /\ reg' = reg /\ "go" \in DOMAIN ctl' /\ ctl'.go \in {"ret", "eval"}
  BY <1>2 DEF Binary, Step, Eval
<1> QED
  BY <1>2, <1>3, <1>4, Goes

\* if.
LEMMA IfKeeps ==
  ASSUME Inv, If
  PROVE  Running(ctl', k', reg')
<1>1. /\ Calm(reg) /\ Stacked(k, reg.handler) /\ "go" \in DOMAIN ctl
      /\ ctl.go = "ret" /\ Last(k).t = "if"
  BY AtFrame DEF If
<1>2. Stacked(Front(k), reg.handler)
  BY <1>1, Pop DEF Handlers
<1>3. k' = Front(k) /\ reg' = reg /\ "go" \in DOMAIN ctl' /\ ctl'.go \in {"ret", "eval"}
  BY <1>1 DEF If, Step, Eval, Ret
<1> QED
  BY <1>1, <1>2, <1>3, Goes

\* evaltree returns, and runs what traps are pending.
LEMMA LeaveKeeps ==
  ASSUME Inv, Leave
  PROVE  Running(ctl', k', reg')
<1>1. Calm(reg) /\ Stacked(k, reg.handler) /\ Last(k).t = "tree"
  <2>1. CASE ctl.go = "leave"
    BY <2>1, IsCalm DEF Inv, Running
  <2>2. CASE Frame("tree")
    BY <2>2, AtFrame
  <2> QED
    BY <2>1, <2>2 DEF Leave
<1> DEFINE r == IF ctl.go = "leave" THEN reg ELSE [reg EXCEPT !.exit = ctl.st]
<1>2. Calm(r) /\ r.handler = reg.handler
  BY <1>1 DEF Calm, IsReg
<1>3. \/ ctl' = [go |-> "throw"] /\ k' = k /\ reg' = Raised("END", r)
      \/ ctl' = Ret(r.exit) /\ k' = Front(k) /\ reg' = r
  BY DEF Leave, exraise, Step
<1> HIDE DEF r
<1>4. Stacked(Front(k), reg.handler)
  BY <1>1, Pop DEF Handlers
<1>5. IsReg(Raised("END", r)) /\ Raised("END", r).handler = reg.handler
  BY <1>2, RaisedReg DEF Calm
<1>6. \A st : "go" \in DOMAIN Ret(st) /\ Ret(st).go = "ret"
  BY DEF Ret
<1>7. CASE ctl' = [go |-> "throw"] /\ k' = k /\ reg' = Raised("END", r)
  BY <1>1, <1>5, <1>7, Throws
<1>8. CASE ctl' = Ret(r.exit) /\ k' = Front(k) /\ reg' = r
  BY <1>2, <1>4, <1>6, <1>8, Goes
<1> QED
  BY <1>3, <1>7, <1>8

\* A loop begins.
LEMMA EnterLoopKeeps ==
  ASSUME Inv, EnterLoop
  PROVE  Running(ctl', k', reg')
<1>1. Calm(reg) /\ Stacked(k, reg.handler)
  BY AtNode DEF EnterLoop
<1> DEFINE r == [reg EXCEPT !.nest = @ + 1]
           f == [t |-> "while", n |-> ctl.n, fl |-> Tested(ctl.fl), st |-> 0, part |-> "test"]
           g == [t |-> "for", n |-> ctl.n, fl |-> Tested(ctl.fl), left |-> 1]
<1>2. Calm(r) /\ Stacked(k, r.handler)
  BY <1>1 DEF Calm, IsReg
<1>3. Plain(f) /\ Plain(g)
  BY DEF Plain, Handlers
<1>4. Plain(Tree(FALSE))
  BY TreeIsPlain
<1>5. \/ Into(f, ctl.n.a, {"tested"}, r)
      \/ Into(g, ctl.n.a, Tested(ctl.fl), r)
  BY DEF EnterLoop
<1> HIDE DEF r, f, g
<1>6. CASE Into(f, ctl.n.a, {"tested"}, r)
  <2>1. ctl' = Eval(ctl.n.a, {"tested"}) /\ k' = k \o <<Tree(FALSE), f>> /\ reg' = r
    BY <1>6 DEF Into, Step
  <2> QED
    BY ONLY <1>2, <1>3, <1>4, <2>1, IntoRuns
<1>7. CASE Into(g, ctl.n.a, Tested(ctl.fl), r)
  <2>1. ctl' = Eval(ctl.n.a, Tested(ctl.fl)) /\ k' = k \o <<Tree(FALSE), g>> /\ reg' = r
    BY <1>7 DEF Into, Step
  <2> QED
    BY ONLY <1>2, <1>3, <1>4, <2>1, IntoRuns
<1> QED
  BY <1>5, <1>6, <1>7

\* skiploop changes neither the handler nor the count of interrupts.
LEMMA SkiploopReg ==
  ASSUME Calm(reg)
  PROVE  Calm(skiploop) /\ skiploop.handler = reg.handler
BY DEF skiploop, Calm, IsReg

\* A loop is left with a status.
LEMMA LoopOverRuns ==
  ASSUME NEW st, Stacked(k, reg.handler), Last(k).t \in {"while", "for"}, Calm(reg),
         ctl' = Ret(st), k' = Front(k), reg' = [skiploop EXCEPT !.nest = @ - 1]
  PROVE  Running(ctl', k', reg')
<1>1. Calm(skiploop) /\ skiploop.handler = reg.handler
  BY SkiploopReg
<1>2. Calm(reg') /\ reg'.handler = reg.handler
  BY <1>1 DEF Calm, IsReg
<1>3. Stacked(Front(k), reg.handler)
  BY Pop DEF Handlers
<1>4. "go" \in DOMAIN ctl' /\ ctl'.go = "ret"
  BY DEF Ret
<1> QED
  BY <1>2, <1>3, <1>4, Goes

\* One part of while and until is over.
LEMMA evalloopKeeps ==
  ASSUME Inv, evalloop
  PROVE  Running(ctl', k', reg')
<1>1. Calm(reg) /\ Stacked(k, reg.handler) /\ Last(k).t = "while"
  BY AtFrame DEF evalloop
<1>2. Calm(skiploop) /\ skiploop.handler = reg.handler
  BY <1>1, SkiploopReg
<1>3. "t" \in DOMAIN Top /\ Top.t = "while"
  BY <1>1, AtBottom DEF Top
<1>4. \A st : Plain([Top EXCEPT !.part = "test", !.st = st])
  BY <1>3 DEF Plain, Handlers
<1>5. Plain([Top EXCEPT !.part = "body"])
  BY <1>3 DEF Plain, Handlers
<1>6. \/ \E st : ctl' = Ret(st) /\ k' = Front(k) /\ reg' = [skiploop EXCEPT !.nest = @ - 1]
      \/ \E n, fl, f : /\ ctl' = Eval(n, fl) /\ k' = Append(Front(k), f) /\ reg' = skiploop
                       /\ Plain(f)
  <2> DEFINE st == IF Top.part = "body" \/ Skipping = "func" THEN ctl.st ELSE Top.st
             f == [Top EXCEPT !.part = "test", !.st = st]
             g == [Top EXCEPT !.part = "body"]
  <2>1. \/ LoopOver(st, skiploop)
        \/ Step(Eval(Top.n.b, Top.fl), Append(Front(k), g), skiploop)
        \/ Step(Eval(Top.n.a, {"tested"}), Append(Front(k), f), skiploop)
    BY DEF evalloop
  <2>2. Plain(f) /\ Plain(g)
    BY <1>4, <1>5
  <2> HIDE DEF st, f, g
  <2> QED
    BY <2>1, <2>2 DEF LoopOver, Step
<1>7. CASE \E st : ctl' = Ret(st) /\ k' = Front(k) /\ reg' = [skiploop EXCEPT !.nest = @ - 1]
  BY <1>1, <1>7, LoopOverRuns
<1>8. CASE \E n, fl, f : /\ ctl' = Eval(n, fl) /\ k' = Append(Front(k), f) /\ reg' = skiploop
                         /\ Plain(f)
  <2>1. Stacked(k', reg'.handler) /\ Calm(reg')
    BY <1>1, <1>2, <1>8, Replace DEF Handlers
  <2>2. "go" \in DOMAIN ctl' /\ ctl'.go = "eval"
    BY <1>8 DEF Eval
  <2> QED
    BY <2>1, <2>2, Goes
<1> QED
  BY <1>6, <1>7, <1>8

\* One round of for is over.
LEMMA evalforKeeps ==
  ASSUME Inv, evalfor
  PROVE  Running(ctl', k', reg')
<1>1. Calm(reg) /\ Stacked(k, reg.handler) /\ Last(k).t = "for"
  BY AtFrame DEF evalfor
<1>2. Calm(skiploop) /\ skiploop.handler = reg.handler
  BY <1>1, SkiploopReg
<1> DEFINE f == [Top EXCEPT !.left = @ - 1]
<1>3. Plain(f)
  BY <1>1, AtBottom DEF Top, Plain, Handlers
<1>4. \/ LoopOver(ctl.st, skiploop)
      \/ Step(Eval(Top.n.a, Top.fl), Append(Front(k), f), skiploop)
  BY DEF evalfor
<1> HIDE DEF f
<1>5. CASE LoopOver(ctl.st, skiploop)
  BY <1>1, <1>5, LoopOverRuns DEF LoopOver, Step
<1>6. CASE Step(Eval(Top.n.a, Top.fl), Append(Front(k), f), skiploop)
  <2>1. Stacked(k', reg'.handler) /\ Calm(reg')
    BY <1>1, <1>2, <1>3, <1>6, Replace DEF Handlers, Step
  <2>2. "go" \in DOMAIN ctl' /\ ctl'.go = "eval"
    BY <1>6 DEF Eval, Step
  <2> QED
    BY <2>1, <2>2, Goes
<1> QED
  BY <1>4, <1>5, <1>6

-----------------------------------------------------------------------------
(* Redirected compound commands, and child processes.                      *)

\* A compound command with redirections begins, or its redirections fail.
LEMMA EnterRedirKeeps ==
  ASSUME Inv, EnterRedir
  PROVE  Running(ctl', k', reg')
<1>1. Calm(reg) /\ Stacked(k, reg.handler)
  BY AtNode DEF EnterRedir, Node
<1>2. Plain(Tree(TRUE)) /\ Plain(Tree(FALSE))
  BY TreeIsPlain
<1>3. CASE ctl.n.redir = "bad"
  <2>1. ctl' = Ret(2) /\ k' = Append(k, Tree(TRUE)) /\ reg' = [reg EXCEPT !.exit = 2]
    BY <1>3 DEF EnterRedir, Step
  <2>2. Calm(reg') /\ reg'.handler = reg.handler
    BY <1>1, <2>1 DEF Calm, IsReg
  <2>3. Stacked(k', reg'.handler)
    BY <1>1, <1>2, <2>1, <2>2, Push
  <2>4. "go" \in DOMAIN ctl' /\ ctl'.go = "ret"
    BY <2>1 DEF Ret
  <2> QED
    BY <2>2, <2>3, <2>4, Goes
<1>4. CASE ctl.n.redir # "bad"
  <2> DEFINE f == [t |-> "redir"]
             r == [reg EXCEPT !.redirs = @ + 1]
  <2>1. ctl' = Eval(ctl.n.a, Tested(ctl.fl)) /\ k' = k \o <<Tree(FALSE), f>> /\ reg' = r
    BY <1>4 DEF EnterRedir, Into, Step
  <2>2. Plain(f)
    BY DEF Plain, Handlers
  <2>3. Calm(r) /\ Stacked(k, r.handler)
    BY <1>1 DEF Calm, IsReg
  <2> HIDE DEF f, r
  <2> QED
    BY ONLY <1>2, <2>1, <2>2, <2>3, IntoRuns
<1> QED
  BY <1>3, <1>4

\* It ends, and its redirections are undone.
LEMMA popredirKeeps ==
  ASSUME Inv, popredir
  PROVE  Running(ctl', k', reg')
<1>1. /\ Calm(reg) /\ Stacked(k, reg.handler) /\ "go" \in DOMAIN ctl
      /\ ctl.go = "ret" /\ Last(k).t = "redir"
  BY AtFrame DEF popredir
<1>2. Stacked(Front(k), reg.handler)
  BY <1>1, Pop DEF Handlers
<1>3. ctl' = ctl /\ k' = Front(k) /\ reg' = [reg EXCEPT !.redirs = @ - 1]
  BY DEF popredir, Step
<1>4. Calm(reg') /\ reg'.handler = reg.handler
  BY <1>1, <1>3 DEF Calm, IsReg
<1> QED
  BY <1>1, <1>2, <1>3, <1>4, Goes

\* The child of a process that has turned interrupts off once, or that exits.
LEMMA ChildRuns ==
  ASSUME NEW n, NEW fl, NEW s, NEW r, IsReg(r), r.supp = 1 \/ r.exited, r.supp > 0,
         Stacked(s, r.handler), Child(n, fl, s, r)
  PROVE  Running(ctl', k', reg')
<1> DEFINE c == Eval(n, fl \cup {"exit"})
           q == [[forkreset(r) EXCEPT !.root = FALSE] EXCEPT !.supp = @ - 1]
<1>1. Calm(q) /\ q.handler = r.handler
  BY DEF forkreset, Calm, IsReg
<1>2. "go" \in DOMAIN c /\ c.go = "eval"
  BY DEF Eval
<1> HIDE DEF c, q
<1>3. Resume(c, s, q)
  BY DEF Child, INTON, c, q
<1>4. Resumed(c, s, q, ctl', k', reg')
  BY <1>3 DEF Resume, onint, Step, Resumed
<1> QED
  BY <1>1, <1>2, <1>4, ResumedRuns

\* What the processes that wait say of the last one.
LEMMA LastWaits ==
  ASSUME NEW ps, AllWait(ps), ps # <<>>
  PROVE  Len(ps) \in Nat /\ Len(ps) > 0 /\ Waiting(Last(ps)) /\ AllWait(Front(ps))
<1>1. Len(ps) \in Nat /\ DOMAIN ps = 1..Len(ps) /\ IsStack(ps)
  BY StackShape DEF AllWait
<1>2. Len(ps) > 0
  <2> DEFINE S == {ps[i] : i \in DOMAIN ps}
  <2>1. ps \in Seq(S)
    BY <1>1 DEF IsStack
  <2> HIDE DEF S
  <2> QED
    BY <2>1, EmptySeq
<1>3. Waiting(Last(ps))
  BY <1>1, <1>2 DEF AllWait, Last
<1>4. /\ IsStack(Front(ps)) /\ Len(Front(ps)) = Len(ps) - 1
      /\ \A i \in 1..(Len(ps) - 1) : Front(ps)[i] = ps[i]
  BY <1>1, <1>2, Cut DEF Front
<1>5. AllWait(Front(ps))
  BY <1>1, <1>4 DEF AllWait
<1> QED
  BY <1>1, <1>2, <1>3, <1>5

\* One more process waits.
LEMMA OneMoreWaits ==
  ASSUME NEW ps, AllWait(ps), NEW p, Waiting(p)
  PROVE  AllWait(Append(ps, p))
<1>1. Len(ps) \in Nat /\ IsStack(ps)
  BY StackShape DEF AllWait
<1>2. /\ IsStack(Append(ps, p)) /\ Len(Append(ps, p)) = Len(ps) + 1
      /\ Append(ps, p)[Len(ps) + 1] = p
      /\ \A i \in 1..Len(ps) : Append(ps, p)[i] = ps[i]
  BY <1>1, Appended
<1> QED
  BY <1>1, <1>2 DEF AllWait

\* One of them is changed.
LEMMA OtherWaits ==
  ASSUME NEW ps, AllWait(ps), NEW i \in 1..Len(ps), NEW p, Waiting(p)
  PROVE  AllWait([ps EXCEPT ![i] = p])
<1> DEFINE S == {ps[j] : j \in DOMAIN ps}
           T == S \cup {p}
<1>1. ps \in Seq(S) /\ S \subseteq T /\ p \in T
  BY DEF AllWait, IsStack
<1> HIDE DEF S, T
<1>2. ps \in Seq(T)
  BY <1>1, SeqMonotonic
<1>3. /\ [ps EXCEPT ![i] = p] \in Seq(T)
      /\ Len([ps EXCEPT ![i] = p]) = Len(ps)
      /\ \A j \in 1..Len(ps) : [ps EXCEPT ![i] = p][j] = IF j = i THEN p ELSE ps[j]
  BY <1>1, <1>2, ExceptSeq
<1>4. IsStack([ps EXCEPT ![i] = p])
  BY <1>3, IsStackIf
<1> QED
  BY <1>3, <1>4 DEF AllWait

\* A subshell: the child goes on with a copy, the parent waits.
LEMMA EnterForkKeeps ==
  ASSUME Inv, EnterFork
  PROVE  Inv'
<1>1. Calm(reg) /\ Stacked(k, reg.handler)
  BY AtNode DEF EnterFork, Node
<1>2. Plain(Tree(TRUE))
  BY TreeIsPlain
<1>3. CASE Len(ctl.n.list) = 1 /\ "exit" \in ctl.fl /\ ~have_traps
  <2>1. /\ ctl' = Eval(ctl.n.list[1], ctl.fl) /\ k' = Append(k, Tree(TRUE))
        /\ reg' = forkreset(reg) /\ parents' = parents
    BY <1>3 DEF EnterFork, Step, Quiet
  <2>2. Calm(reg') /\ reg'.handler = reg.handler
    BY <1>1, <2>1 DEF forkreset, Calm, IsReg
  <2>3. Stacked(k', reg'.handler)
    BY <1>1, <1>2, <2>1, <2>2, Push
  <2>4. "go" \in DOMAIN ctl' /\ ctl'.go = "eval"
    BY <2>1 DEF Eval
  <2>5. Running(ctl', k', reg')
    BY <2>2, <2>3, <2>4, Goes
  <2> QED
    BY <2>1, <2>5 DEF Inv
<1>4. CASE ~(Len(ctl.n.list) = 1 /\ "exit" \in ctl.fl /\ ~have_traps)
  <2> DEFINE frame == [t |-> "fork", fl |-> ctl.fl, rest |-> Tail(ctl.n.list)]
             stack == k \o <<Tree(TRUE), frame>>
             regs == [reg EXCEPT !.supp = @ + 1]
             p == [k |-> stack, reg |-> regs]
  <2>1. parents' = Append(parents, p) /\ Child(Head(ctl.n.list), ctl.fl, stack, regs)
    BY <1>4 DEF EnterFork
  <2>2. Plain(frame) /\ frame.t = "fork"
    BY DEF Plain, Handlers
  <2>3. /\ IsReg(regs) /\ regs.handler = reg.handler
        /\ regs.supp > 0 /\ (regs.supp = 1 \/ regs.exited)
    BY <1>1 DEF Calm, IsReg
  <2>4. {"k", "reg"} \subseteq DOMAIN p /\ p.k = stack /\ p.reg = regs
    OBVIOUS
  <2> HIDE DEF frame, regs, p
  <2>5. stack = k \o <<Tree(TRUE), frame>>
    OBVIOUS
  <2> HIDE DEF stack
  <2>6. Stacked(stack, regs.handler) /\ Last(stack) = frame
    <3>1. IsStack(k)
      BY <1>1 DEF Stacked
    <3>2. Stacked(stack, reg.handler)
      BY <1>1, <1>2, <2>2, <2>5, Push2
    <3>3. Last(stack) = frame
      BY <2>5, <3>1, LastOfTwo
    <3> QED
      BY <2>3, <3>2, <3>3
  <2>7. Waiting(p)
    BY <2>2, <2>3, <2>4, <2>6 DEF Waiting
  <2>8. Running(ctl', k', reg')
    BY <2>1, <2>3, <2>6, ChildRuns
  <2>9. AllWait(parents')
    BY <2>1, <2>7, OneMoreWaits DEF Inv
  <2> QED
    BY <2>8, <2>9 DEF Inv
<1> QED
  BY <1>3, <1>4

\* The child is gone, and the parent goes on.
LEMMA ChildGoneKeeps ==
  ASSUME Inv, ChildGone
  PROVE  Inv'
<1> DEFINE p == Last(parents)
           f == Last(p.k)
           s == Append(Front(p.k), [f EXCEPT !.rest = Tail(@)])
<1>1. /\ Len(parents) \in Nat /\ Len(parents) > 0 /\ AllWait(Front(parents))
      /\ Waiting(p) /\ AllWait(parents)
  BY LastWaits DEF Inv, ChildGone
<1>2. /\ IsReg(p.reg) /\ Stacked(p.k, p.reg.handler) /\ f.t = "fork"
      /\ p.reg.supp > 0 /\ (p.reg.supp = 1 \/ p.reg.exited) /\ {"k", "reg"} \subseteq DOMAIN p
  BY <1>1 DEF Waiting
<1>3. p = parents[Len(parents)]
  BY DEF Last
<1>4. CASE f.rest # <<>>
  <2>1. /\ parents' = [parents EXCEPT ![Len(parents)].k = s]
        /\ Child(Head(f.rest), f.fl, s, p.reg)
    BY <1>4 DEF ChildGone
  <2> DEFINE q == [p EXCEPT !.k = s]
             g == [f EXCEPT !.rest = Tail(@)]
  <2>2. parents' = [parents EXCEPT ![Len(parents)] = q]
    BY <1>3, <2>1
  <2>3. {"k", "reg"} \subseteq DOMAIN q /\ q.k = s /\ q.reg = p.reg
    BY <1>2
  <2>4. "t" \in DOMAIN f
    BY <1>2, AtBottom
  <2>5. g.t = "fork" /\ Plain(g)
    BY <1>2, <2>4 DEF Plain, Handlers
  <2> HIDE DEF p, f, g, q
  <2>6. f.t \notin Handlers \cup {"top"}
    BY <1>2 DEF Handlers
  <2>7. Stacked(s, p.reg.handler) /\ Last(s) = g
    BY <1>2, <2>5, <2>6, Replace DEF f, g
  <2> HIDE DEF s
  <2>8. Waiting(q)
    BY <1>2, <2>3, <2>5, <2>7 DEF Waiting
  <2>9. Running(ctl', k', reg')
    BY <1>2, <2>1, <2>7, ChildRuns
  <2>10. Len(parents) \in 1..Len(parents)
    BY <1>1
  <2>11. AllWait([parents EXCEPT ![Len(parents)] = q])
    BY ONLY <1>1, <2>8, <2>10, OtherWaits
  <2>12. AllWait(parents')
    BY <2>2, <2>11
  <2> QED
    BY <2>9, <2>12 DEF Inv
<1>5. CASE f.rest = <<>>
  <2>1. parents' = Front(parents) /\ INTON(Ret(ctl.st), Front(p.k), p.reg)
    BY <1>5 DEF ChildGone
  <2> DEFINE c == Ret(ctl.st)
             r == [p.reg EXCEPT !.supp = @ - 1]
             u == Front(p.k)
  <2>2. Calm(r) /\ r.handler = p.reg.handler
    BY <1>2 DEF Calm, IsReg
  <2>3. Stacked(u, p.reg.handler)
    BY <1>2, Pop DEF Handlers
  <2>4. "go" \in DOMAIN c /\ c.go = "ret"
    BY DEF Ret
  <2> HIDE DEF c, u, r
  <2>5. Resume(c, u, r)
    BY <2>1 DEF INTON, c, u, r
  <2>6. Resumed(c, u, r, ctl', k', reg')
    BY <2>5 DEF Resume, onint, Step, Resumed
  <2>7. Running(ctl', k', reg')
    BY <2>2, <2>3, <2>4, <2>6, ResumedRuns
  <2> QED
    BY <1>1, <2>1, <2>7 DEF Inv
<1> QED
  BY <1>4, <1>5

-----------------------------------------------------------------------------
(* Simple commands.                                                        *)

\* A step that raises an exception keeps the invariant,
LEMMA RaiseRuns ==
  ASSUME NEW e, NEW s, NEW r, NEW c2, NEW s2, NEW r2, IsReg(r), Stacked(s, r.handler),
         c2 = [go |-> "throw"], s2 = s, r2 = Raised(e, r)
  PROVE  Running(c2, s2, r2)
BY RaisedReg, Throws

\* in particular one that calls sh_error.
LEMMA ErrorRuns ==
  ASSUME NEW s, NEW r, NEW c2, NEW s2, NEW r2, IsReg(r), Stacked(s, r.handler),
         c2 = [go |-> "throw"], s2 = s, r2 = Raised("ERROR", [r EXCEPT !.exit = 2])
  PROVE  Running(c2, s2, r2)
<1> DEFINE q == [r EXCEPT !.exit = 2]
<1>1. IsReg(q) /\ q.handler = r.handler
  BY DEF IsReg
<1> HIDE DEF q
<1>2. r2 = Raised("ERROR", q)
  BY DEF q
<1> QED
  BY <1>1, <1>2, RaiseRuns

\* What a command pushes leaves the handler alone.
LEMMA PushedReg ==
  ASSUME Calm(reg), NEW n
  PROVE  Calm(Pushed(n)) /\ Pushed(n).handler = reg.handler
<1> QED
  BY DEF Calm, IsReg, Pushed

\* evalcommand expands its words.
LEMMA CmdExpandKeeps ==
  ASSUME Inv, CmdExpand
  PROVE  Running(ctl', k', reg')
<1>1. Calm(reg) /\ Stacked(k, reg.handler)
  BY AtNode DEF CmdExpand, Node
<1>2. ctl' = [go |-> "throw"] /\ k' = k /\ reg' = Raised("ERROR", [reg EXCEPT !.exit = 2])
  BY DEF CmdExpand, sh_error, exraise, Step
<1> QED
  BY <1>1, <1>2, ErrorRuns DEF Calm

\* A status, on top of the frame of evaltree.
LEMMA StatusRuns ==
  ASSUME NEW s, NEW r, NEW st, NEW c2, NEW s2, NEW r2, Calm(r), Stacked(s, r.handler),
         c2 = Ret(st), s2 = Append(s, Tree(TRUE)), r2 = r
  PROVE  Running(c2, s2, r2)
<1>1. Plain(Tree(TRUE))
  BY TreeIsPlain
<1>2. Stacked(s2, r2.handler)
  BY <1>1, Push
<1>3. "go" \in DOMAIN c2 /\ c2.go = "ret"
  BY DEF Ret
<1> QED
  BY <1>2, <1>3, Goes

\* An expansion, a redirection or an assignment fails.
LEMMA CmdFailsKeeps ==
  ASSUME Inv, CmdFails
  PROVE  Running(ctl', k', reg')
<1>1. Calm(reg) /\ Stacked(k, reg.handler)
  BY AtNode DEF CmdFails, Node
<1>2. Calm(Pushed(ctl.n)) /\ Pushed(ctl.n).handler = reg.handler
  BY <1>1, PushedReg
<1>3. CASE Special(ctl.n)
  <2>1. ctl' = [go |-> "throw"] /\ k' = k /\ reg' = Raised("ERROR", [Pushed(ctl.n) EXCEPT !.exit = 2])
    BY <1>3 DEF CmdFails, sh_error, exraise, Step
  <2> QED
    BY <1>1, <1>2, <2>1, ErrorRuns DEF Calm
<1>4. CASE ~Special(ctl.n)
  <2>1. PICK st : /\ ctl' = Ret(st) /\ k' = Append(k, Tree(TRUE))
                  /\ reg' = [reg EXCEPT !.exit = st]
    BY <1>4 DEF CmdFails, Step
  <2>2. Calm(reg') /\ reg'.handler = reg.handler
    BY <1>1, <2>1 DEF Calm, IsReg
  <2> QED
    BY <1>1, <2>1, <2>2, StatusRuns
<1> QED
  BY <1>3, <1>4

\* FORCEINTON turns interrupts on, whatever they were.
LEMMA ForcedRuns ==
  ASSUME NEW c, NEW s, NEW r, IsReg(r), Stacked(s, r.handler), "go" \in DOMAIN c,
         c.go \in {"eval", "enter", "ret", "next"}, FORCEINTON(c, s, r)
  PROVE  Running(ctl', k', reg')
<1> DEFINE q == [r EXCEPT !.supp = 0]
<1>1. Calm(q) /\ q.handler = r.handler
  BY DEF Calm, IsReg
<1> HIDE DEF q
<1>2. Resume(c, s, q)
  BY DEF FORCEINTON, q
<1>3. Resumed(c, s, q, ctl', k', reg')
  BY <1>2 DEF Resume, onint, Step, Resumed
<1> QED
  BY <1>1, <1>3, ResumedRuns

\* A status is returned to evaltree after FORCEINTON,
LEMMA ForcedStatus ==
  ASSUME NEW st, NEW r, Calm(r), Stacked(k, r.handler), FORCEINTON(Ret(st), Append(k, Tree(TRUE)), r)
  PROVE  Running(ctl', k', reg')
<1> DEFINE c == Ret(st)
           s == Append(k, Tree(TRUE))
<1>1. Stacked(s, r.handler)
  BY TreeIsPlain, Push
<1>2. "go" \in DOMAIN c /\ c.go = "ret"
  BY DEF Ret
<1>3. FORCEINTON(c, s, r)
  OBVIOUS
<1> HIDE DEF c, s
<1> QED
  BY <1>1, <1>2, <1>3, ForcedRuns DEF Calm

\* in particular that of a builtin.
LEMMA ReturnsRuns ==
  ASSUME NEW st, NEW r, Calm(r), Stacked(k, r.handler), Returns(st, r)
  PROVE  Running(ctl', k', reg')
<1> DEFINE q == [r EXCEPT !.exit = st]
<1>1. Calm(q) /\ q.handler = r.handler
  BY DEF Calm, IsReg
<1>2. FORCEINTON(Ret(st), Append(k, Tree(TRUE)), q)
  BY DEF Returns
<1> HIDE DEF q
<1> QED
  BY <1>1, <1>2, ForcedStatus

\* An external command.
LEMMA CmdRunKeeps ==
  ASSUME Inv, CmdRun
  PROVE  Running(ctl', k', reg')
<1>1. Calm(reg) /\ Stacked(k, reg.handler)
  BY AtNode DEF CmdRun, Runs, Node
<1>2. FORCEINTON(Ret(ctl.n.st), Append(k, Tree(TRUE)), reg)
  BY DEF CmdRun
<1> QED
  BY <1>1, <1>2, ForcedStatus

\* A loop test that holds twice.
LEMMA CmdTickKeeps ==
  ASSUME Inv, CmdTick
  PROVE  Running(ctl', k', reg')
<1>1. Calm(reg) /\ Stacked(k, reg.handler)
  BY AtNode DEF CmdTick, Runs, Node
<1> DEFINE r == [reg EXCEPT !.tick = IF @ = 2 THEN 2 ELSE @ + 1]
           st == IF reg.tick = 2 THEN 1 ELSE 0
<1>2. Calm(r) /\ r.handler = reg.handler
  BY <1>1 DEF Calm, IsReg
<1>3. Returns(st, r)
  BY DEF CmdTick
<1> HIDE DEF r, st
<1> QED
  BY <1>1, <1>2, <1>3, ReturnsRuns

\* A builtin raises an error, in its handler or for a special one.
LEMMA CmdBltinErrorKeeps ==
  ASSUME Inv, CmdBltinError
  PROVE  Running(ctl', k', reg')
<1>1. Calm(reg) /\ Stacked(k, reg.handler)
  BY AtNode DEF CmdBltinError, Runs, Node
<1>2. Calm(Pushed(ctl.n)) /\ Pushed(ctl.n).handler = reg.handler
  BY <1>1, PushedReg
<1>3. CASE Special(ctl.n)
  <2>1. ctl' = [go |-> "throw"] /\ k' = k /\ reg' = Raised("ERROR", [Pushed(ctl.n) EXCEPT !.exit = 2])
    BY <1>3 DEF CmdBltinError, sh_error, exraise, Step
  <2> QED
    BY <1>1, <1>2, <2>1, ErrorRuns DEF Calm
<1>4. CASE ~Special(ctl.n)
  BY <1>1, <1>4, ReturnsRuns DEF CmdBltinError
<1> QED
  BY <1>3, <1>4

\* break and continue.
LEMMA breakcmdKeeps ==
  ASSUME Inv, breakcmd
  PROVE  Running(ctl', k', reg')
<1>1. Calm(reg) /\ Stacked(k, reg.handler)
  BY AtNode DEF breakcmd, Runs, Node
<1> DEFINE n == IF ctl.n.arg > reg.nest THEN reg.nest ELSE ctl.n.arg
           r == IF n = 0 THEN reg ELSE [reg EXCEPT !.skip = ctl.n.c, !.count = n]
<1>2. Calm(r) /\ r.handler = reg.handler
  <2> HIDE DEF n
  <2> QED
    BY <1>1 DEF Calm, IsReg
<1>3. Returns(0, r)
  BY DEF breakcmd
<1> HIDE DEF r
<1> QED
  BY <1>1, <1>2, <1>3, ReturnsRuns

\* return.
LEMMA returncmdKeeps ==
  ASSUME Inv, returncmd
  PROVE  Running(ctl', k', reg')
<1>1. Calm(reg) /\ Stacked(k, reg.handler)
  BY AtNode DEF returncmd, Runs, Node
<1> DEFINE q == [reg EXCEPT !.skip = "func"]
           r == [reg EXCEPT !.skip = "funcdef"]
<1>2. Calm(q) /\ q.handler = reg.handler /\ Calm(r) /\ r.handler = reg.handler
  BY <1>1 DEF Calm, IsReg
<1>3. Returns(ctl.n.arg, q) \/ Returns(reg.exit, r)
  BY DEF returncmd
<1> HIDE DEF q, r
<1> QED
  BY <1>1, <1>2, <1>3, ReturnsRuns

\* exit, with the status of before a trap.
LEMMA exitcmdKeeps ==
  ASSUME Inv, exitcmd
  PROVE  Running(ctl', k', reg')
<1>1. Calm(reg) /\ Stacked(k, reg.handler)
  BY AtNode DEF exitcmd, Runs, Node
<1>2. Calm(Pushed(ctl.n)) /\ Pushed(ctl.n).handler = reg.handler
  BY <1>1, PushedReg
<1> DEFINE r == IF ctl.n.arg >= 0 THEN [Pushed(ctl.n) EXCEPT !.saved = ctl.n.arg] ELSE Pushed(ctl.n)
<1>3. IsReg(r) /\ r.handler = reg.handler
  BY <1>2 DEF Calm, IsReg
<1>4. ctl' = [go |-> "throw"] /\ k' = k /\ reg' = Raised("EXIT", r)
  BY DEF exitcmd, exraise, Step
<1> HIDE DEF r
<1> QED
  BY <1>1, <1>3, <1>4, RaiseRuns

\* The frames of a builtin or a function that is called, and its handler.
LEMMA Called ==
  ASSUME NEW s, NEW h, NEW e, NEW m, NEW b, Stacked(s, h), Plain(e), Plain(m), m.t = "cmd",
         "t" \in DOMAIN b, b.t \in {"bltin", "fun"}, b.handler = h
  PROVE  /\ Stacked(s \o <<e, m, b>>, Len(s) + 3)
         /\ \A f : Plain(f) => Stacked(s \o <<e, m, b, f>>, Len(s) + 3)
<1> DEFINE s1 == Append(s, e)
           s2 == Append(s1, m)
           s3 == Append(s2, b)
<1>1. Len(s) \in Nat /\ IsStack(s)
  BY StackShape DEF Stacked
<1>2. Stacked(s1, h) /\ Len(s1) = Len(s) + 1 /\ IsStack(s1)
  BY <1>1, Push, Appended
<1> HIDE DEF s1
<1>3. Stacked(s2, h) /\ Len(s2) = Len(s) + 2 /\ Last(s2) = m
  BY <1>1, <1>2, Push, Appended
<1> HIDE DEF s2
<1>4. Stacked(s3, Len(s2) + 1)
  BY <1>3, Pushed1 DEF Handlers
<1> HIDE DEF s3
<1>5. Stacked(s3, Len(s) + 3)
  BY <1>1, <1>3, <1>4
<1>6. s \o <<e, m, b>> = s3 /\ \A f : s \o <<e, m, b, f>> = Append(s3, f)
  BY <1>1, OneByOne DEF s1, s2, s3
<1>7. \A f : Plain(f) => Stacked(Append(s3, f), Len(s) + 3)
  BY <1>5, Push
<1> QED
  BY <1>5, <1>6, <1>7

\* The frame of evalcommand is a plain one.
LEMMA MarkIsPlain ==
  ASSUME NEW n
  PROVE  Plain(Mark(n)) /\ Mark(n).t = "cmd"
BY DEF Plain, Mark, Handlers

\* eval, . and command begin a text of their own.
LEMMA CmdTextKeeps ==
  ASSUME Inv, CmdText
  PROVE  Running(ctl', k', reg')
<1>1. Calm(reg) /\ Stacked(k, reg.handler)
  BY AtNode DEF CmdText, Runs, Node
<1>2. Calm(Pushed(ctl.n))
  BY <1>1, PushedReg
<1> DEFINE b == [t |-> "bltin", handler |-> reg.handler]
           f == [t |-> IF ctl.n.c = "dot" THEN "file" ELSE "str", rest |-> ctl.n.b,
                 fl |-> IF ctl.n.c = "dot" THEN {} ELSE Tested(ctl.fl), st |-> 0]
           e == Tree(TRUE)
           m == Mark(ctl.n)
<1>3. "t" \in DOMAIN b /\ b.t = "bltin" /\ b.handler = reg.handler
  OBVIOUS
<1>4. Plain(f)
  BY DEF Plain, Handlers
<1>5. Plain(e) /\ Plain(m) /\ m.t = "cmd"
  BY TreeIsPlain, MarkIsPlain
<1>6. /\ ctl' = [go |-> "next"] /\ k' = k \o <<e, m, b, f>>
      /\ reg' = [Pushed(ctl.n) EXCEPT !.handler = Len(k) + 3, !.files = @ + 1]
  BY DEF CmdText, Step
<1>7. Calm(reg') /\ reg'.handler = Len(k) + 3
  BY <1>2, <1>6 DEF Calm, IsReg
<1> HIDE DEF b, f, e, m
<1>8. Stacked(k', Len(k) + 3)
  BY ONLY <1>1, <1>3, <1>4, <1>5, <1>6, Called
<1> QED
  BY <1>6, <1>7, <1>8, Goes

\* A function is called.
LEMMA evalfunKeeps ==
  ASSUME Inv, evalfun
  PROVE  Running(ctl', k', reg')
<1>1. Calm(reg) /\ Stacked(k, reg.handler)
  BY AtNode DEF evalfun, Runs, Node
<1>2. Calm(Pushed(ctl.n))
  BY <1>1, PushedReg
<1> DEFINE b == [t |-> "fun", handler |-> reg.handler, nest |-> reg.nest]
           e == Tree(TRUE)
           m == Mark(ctl.n)
<1>3. "t" \in DOMAIN b /\ b.t = "fun" /\ b.handler = reg.handler
  OBVIOUS
<1>4. Plain(e) /\ Plain(m) /\ m.t = "cmd"
  BY TreeIsPlain, MarkIsPlain
<1>5. /\ ctl' = Eval(ctl.n.b[1], Tested(ctl.fl)) /\ k' = k \o <<e, m, b>>
      /\ reg' = InFunction([Pushed(ctl.n) EXCEPT !.handler = Len(k) + 3])
  BY DEF evalfun, Step
<1>6. Calm(reg') /\ reg'.handler = Len(k) + 3
  BY <1>2, <1>5 DEF Calm, IsReg, InFunction
<1>7. "go" \in DOMAIN ctl' /\ ctl'.go = "eval"
  BY <1>5 DEF Eval
<1> HIDE DEF b, e, m
<1>8. Stacked(k', Len(k) + 3)
  BY ONLY <1>1, <1>3, <1>4, <1>5, Called
<1> QED
  BY <1>6, <1>7, <1>8, Goes

\* evalfun forgets a return that was meant for it, and no more.
LEMMA NoReturnReg ==
  ASSUME NEW r, IsReg(r)
  PROVE  /\ IsReg(NoReturn(r)) /\ NoReturn(r).handler = r.handler
         /\ NoReturn(r).supp = r.supp /\ NoReturn(r).exited = r.exited
BY DEF IsReg, NoReturn

\* The end of evalfun puts back the handler of before.
LEMMA FundoneReg ==
  ASSUME NEW f, NEW r, IsReg(r)
  PROVE  /\ IsReg(funcdone(f, r)) /\ funcdone(f, r).handler = f.handler
         /\ funcdone(f, r).supp = r.supp /\ funcdone(f, r).exited = r.exited
<1> DEFINE q == [r EXCEPT !.handler = f.handler, !.nest = f.nest]
<1>1. IsReg(q) /\ q.handler = f.handler /\ q.supp = r.supp /\ q.exited = r.exited
  BY DEF IsReg
<1> HIDE DEF q
<1>2. funcdone(f, r) = NoReturn(q)
  BY DEF funcdone, q
<1> QED
  BY <1>1, <1>2, NoReturnReg

\* A function has returned.
LEMMA FunBackKeeps ==
  ASSUME Inv, FunBack
  PROVE  Running(ctl', k', reg')
<1>1. Calm(reg) /\ Stacked(k, reg.handler) /\ Last(k).t = "fun"
  BY AtFrame DEF FunBack
<1>2. ctl' = Ret(reg.exit) /\ k' = Front(k) /\ reg' = funcdone(Last(k), reg)
  BY DEF FunBack, Step, Top
<1>3. Stacked(k', Last(k).handler)
  BY <1>1, <1>2, PopHandler
<1>4. Calm(reg') /\ reg'.handler = Last(k).handler
  BY <1>1, <1>2, FundoneReg DEF Calm
<1>5. "go" \in DOMAIN ctl' /\ ctl'.go = "ret"
  BY <1>2 DEF Ret
<1> QED
  BY <1>3, <1>4, <1>5, Goes

\* A builtin with a text has returned.
LEMMA BltinBackKeeps ==
  ASSUME Inv, BltinBack
  PROVE  Running(ctl', k', reg')
<1>1. /\ Calm(reg) /\ Stacked(k, reg.handler) /\ Last(k).t = "bltin"
      /\ "go" \in DOMAIN ctl /\ ctl.go = "ret"
  BY AtFrame DEF BltinBack
<1>2. ctl' = ctl /\ k' = Front(k) /\ reg' = [reg EXCEPT !.handler = Last(k).handler, !.exit = ctl.st]
  BY DEF BltinBack, Step, Top
<1>3. Stacked(k', Last(k).handler)
  BY <1>1, <1>2, PopHandler
<1>4. Calm(reg') /\ reg'.handler = Last(k).handler
  BY <1>1, <1>2 DEF Calm, IsReg
<1> QED
  BY <1>1, <1>2, <1>3, <1>4, Goes

\* evalcommand is over.
LEMMA CmdBackKeeps ==
  ASSUME Inv, CmdBack
  PROVE  Running(ctl', k', reg')
<1>1. /\ IsReg(reg) /\ Stacked(k, reg.handler) /\ Last(k).t = "cmd"
      /\ "go" \in DOMAIN ctl /\ ctl.go = "ret"
  BY DEF CmdBack, Frame, Top, Inv, Running
<1> DEFINE r == Unwound(reg, Top)
           s == Front(k)
<1>2. IsReg(r) /\ r.handler = reg.handler
  BY <1>1 DEF Unwound, IsReg
<1>3. Stacked(s, reg.handler)
  BY <1>1, Pop DEF Handlers
<1>4. FORCEINTON(ctl, s, r)
  BY DEF CmdBack
<1> HIDE DEF r, s
<1> QED
  BY <1>1, <1>2, <1>3, <1>4, ForcedRuns

-----------------------------------------------------------------------------
(* Input.                                                                  *)

\* The next command of a text.
LEMMA NextCommandKeeps ==
  ASSUME Inv, NextCommand
  PROVE  Running(ctl', k', reg')
<1>1. Calm(reg) /\ Stacked(k, reg.handler) /\ Last(k).t \in {"str", "file"}
  BY IsCalm DEF NextCommand, Inv, Running, Top
<1>2. CASE Top.rest = <<>>
  <2>1. ctl' = Ret(Top.st) /\ k' = Front(k) /\ reg' = [reg EXCEPT !.files = @ - 1]
    BY <1>2 DEF NextCommand, Step
  <2>2. Calm(reg') /\ reg'.handler = reg.handler
    BY <1>1, <2>1 DEF Calm, IsReg
  <2>3. Stacked(k', reg.handler)
    BY <1>1, <2>1, Pop DEF Handlers
  <2>4. "go" \in DOMAIN ctl' /\ ctl'.go = "ret"
    BY <2>1 DEF Ret
  <2> QED
    BY <2>2, <2>3, <2>4, Goes
<1>3. CASE Top.rest # <<>>
  <2> DEFINE f == [Top EXCEPT !.rest = Tail(@)]
  <2>1. /\ ctl' = Eval(Head(Top.rest), Top.fl) /\ k' = Append(Front(k), f) /\ reg' = reg
    BY <1>3 DEF NextCommand, Step
  <2>2. "t" \in DOMAIN Top
    BY <1>1, AtBottom DEF Top
  <2>3. Plain(f)
    BY <1>1, <2>2 DEF Plain, Handlers, Top
  <2> HIDE DEF f
  <2>4. Stacked(k', reg.handler)
    BY <1>1, <2>1, <2>3, Replace DEF Handlers
  <2>5. "go" \in DOMAIN ctl' /\ ctl'.go = "eval"
    BY <2>1 DEF Eval
  <2> QED
    BY <1>1, <2>1, <2>4, <2>5, Goes
<1> QED
  BY <1>2, <1>3

\* A text has returned a status.
LEMMA TextBackKeeps ==
  ASSUME Inv, TextBack
  PROVE  Running(ctl', k', reg')
<1>1. /\ Calm(reg) /\ Stacked(k, reg.handler) /\ Last(k).t \in {"str", "file"}
      /\ "go" \in DOMAIN ctl /\ ctl.go = "ret"
  BY AtFrame DEF TextBack
<1>2. CASE reg.skip = "none"
  <2> DEFINE f == [Top EXCEPT !.st = ctl.st]
  <2>1. ctl' = [go |-> "next"] /\ k' = Append(Front(k), f) /\ reg' = reg
    BY <1>2 DEF TextBack, Step, WithStatus
  <2>2. "t" \in DOMAIN Top
    BY <1>1, AtBottom DEF Top
  <2>3. Plain(f)
    BY <1>1, <2>2 DEF Plain, Handlers, Top
  <2> HIDE DEF f
  <2>4. Stacked(k', reg.handler)
    BY <1>1, <2>1, <2>3, Replace DEF Handlers
  <2> QED
    BY <1>1, <2>1, <2>4, Goes
<1>3. CASE reg.skip # "none"
  <2> DEFINE r == [reg EXCEPT !.files = @ - 1]
  <2>1. ctl' = ctl /\ k' = Front(k) /\ (reg' = r \/ reg' = NoReturn(r))
    BY <1>3 DEF TextBack, Step
  <2>2. IsReg(r) /\ r.handler = reg.handler /\ r.supp = reg.supp /\ r.exited = reg.exited
    BY <1>1 DEF Calm, IsReg
  <2> HIDE DEF r
  <2>3. Calm(reg') /\ reg'.handler = reg.handler
    BY <1>1, <2>1, <2>2, NoReturnReg DEF Calm
  <2>4. Stacked(k', reg.handler)
    BY <1>1, <2>1, Pop DEF Handlers
  <2> QED
    BY <1>1, <2>1, <2>3, <2>4, Goes
<1> QED
  BY <1>2, <1>3

\* The shell ends, under the handler of its EXIT trap if it has one to run.
LEMMA ExitFrames ==
  ASSUME NEW f, NEW e, NEW g, "t" \in DOMAIN f, f.t = "top", e = [t |-> "exit"], Plain(g)
  PROVE  Stacked(<<f, e, g>>, 2)
<1> DEFINE s == <<f>>
<1>1. Stacked(s, 0) /\ Len(s) = 1 /\ IsStack(s)
  BY Bottom DEF Stacked
<1>2. "t" \in DOMAIN e /\ e.t = "exit"
  OBVIOUS
<1>3. <<f, e, g>> = s \o <<e, g>>
  OBVIOUS
<1> HIDE DEF s
<1>4. e.t \in Handlers /\ 2 = IF e.t \in Handlers THEN Len(s) + 1 ELSE 0
  BY <1>1, <1>2 DEF Handlers
<1>5. e.t \notin {"top", "bltin", "fun", "trap"}
  BY <1>2
<1>6. Stacked(Append(s, e), 2)
  BY ONLY <1>1, <1>2, <1>4, <1>5, Pushed1
<1>7. Stacked(Append(Append(s, e), g), 2)
  BY <1>6, Push
<1>8. s \o <<e, g>> = Append(Append(s, e), g)
  BY <1>1, OneByOne
<1> QED
  BY <1>3, <1>7, <1>8

\* exitshell runs the trap on EXIT over a handler of its own, or ends the process.
LEMMA ExitRuns ==
  ASSUME NEW rest, NEW r, IsReg(r), exitshell(rest, r)
  PROVE  Running(ctl', k', reg')
<1>1. CASE prog.exit # <<>> /\ r.root /\ ~r.exited
  <2> DEFINE f == [t |-> "top", rest |-> rest]
             e == [t |-> "exit"]
             g == [t |-> "str", rest |-> prog.exit, fl |-> {}, st |-> 0]
  <2>1. /\ ctl' = [go |-> "next"] /\ k' = <<f, e, g>>
        /\ reg' = [r EXCEPT !.saved = r.exit, !.exited = TRUE, !.handler = 2,
                            !.skip = "none", !.files = @ + 1]
    BY <1>1 DEF exitshell, Step
  <2>2. Calm(reg') /\ reg'.handler = 2
    BY <2>1 DEF Calm, IsReg
  <2>3. "t" \in DOMAIN f /\ f.t = "top" /\ e = [t |-> "exit"] /\ Plain(g)
    BY DEF Plain, Handlers
  <2> HIDE DEF f, e, g
  <2>4. Stacked(k', 2)
    BY <2>1, <2>3, ExitFrames
  <2> QED
    BY <2>1, <2>2, <2>4, Goes
<1>2. CASE ~(prog.exit # <<>> /\ r.root /\ ~r.exited)
  <2>1. ctl' = [go |-> "halt", st |-> r.exit] /\ reg' = r
    BY <1>2 DEF exitshell, Step
  <2> QED
    BY <2>1, Halts
<1> QED
  BY <1>1, <1>2

\* cmdloop(1) is over or goes on.
LEMMA TopLevelKeeps ==
  ASSUME Inv, TopLevel
  PROVE  Running(ctl', k', reg')
<1>1. Calm(reg) /\ Stacked(k, reg.handler) /\ Last(k).t = "top"
  BY IsCalm DEF TopLevel, Frame, Inv, Running, Top
<1>2. reg.handler = 0 /\ "t" \in DOMAIN Top /\ Top.t = "top"
  BY <1>1, AtBottom DEF Top
<1>3. CASE ctl.go = "next" /\ Top.rest = <<>> /\ exitshell(<<>>, reg)
  BY <1>1, <1>3, ExitRuns DEF Calm
<1>4. CASE /\ ctl.go = "next" /\ Top.rest # <<>>
           /\ Step(Eval(Head(Top.rest), {}), <<[Top EXCEPT !.rest = Tail(@)]>>, reg)
  <2> DEFINE f == [Top EXCEPT !.rest = Tail(@)]
  <2>1. ctl' = Eval(Head(Top.rest), {}) /\ k' = <<f>> /\ reg' = reg
    BY <1>4 DEF Step
  <2>2. "t" \in DOMAIN f /\ f.t = "top"
    BY <1>2
  <2> HIDE DEF f
  <2>3. Stacked(k', 0)
    BY <2>1, <2>2, Bottom
  <2>4. "go" \in DOMAIN ctl' /\ ctl'.go = "eval"
    BY <2>1 DEF Eval
  <2> QED
    BY <1>1, <1>2, <2>1, <2>3, <2>4, Goes
<1>5. CASE /\ ctl.go = "ret"
           /\ IF reg.skip = "none" THEN Step([go |-> "next"], k, reg)
              ELSE exitshell(Top.rest, NoReturn(reg))
  <2>1. CASE Step([go |-> "next"], k, reg)
    <3>1. ctl' = [go |-> "next"] /\ k' = k /\ reg' = reg
      BY <2>1 DEF Step
    <3> QED
      BY <1>1, <3>1, Goes
  <2>2. CASE exitshell(Top.rest, NoReturn(reg))
    <3>1. IsReg(NoReturn(reg))
      BY <1>1, NoReturnReg DEF Calm
    <3> QED
      BY <2>2, <3>1, ExitRuns
  <2> QED
    BY <1>5, <2>1, <2>2
<1> QED
  BY <1>3, <1>4, <1>5 DEF TopLevel

-----------------------------------------------------------------------------
(* Handlers.                                                               *)

\* What the invariant says to an action that catches an exception.
LEMMA AtThrow ==
  ASSUME Inv, ctl.go = "throw"
  PROVE  IsReg(reg) /\ Stacked(k, reg.handler)
BY DEF Inv, Running

\* evalbltin catches an exception.
LEMMA CatchBltinKeeps ==
  ASSUME Inv, CatchBltin
  PROVE  Running(ctl', k', reg')
<1> DEFINE s == SubSeq(k, 1, reg.handler - 1)
           r == [reg EXCEPT !.handler = k[reg.handler].handler]
<1>1. IsReg(reg) /\ Stacked(k, reg.handler) /\ reg.handler # 0 /\ k[reg.handler].t = "bltin"
  BY AtThrow DEF CatchBltin
<1>2. Stacked(s, k[reg.handler].handler) /\ Last(s).t = "cmd"
  BY <1>1, CutHandler
<1>3. IsReg(r) /\ r.handler = k[reg.handler].handler
  BY <1>1 DEF IsReg
<1>4. k' = s /\ reg' = r /\ (ctl' = Ret(reg.exit) \/ ctl' = ctl)
  BY DEF CatchBltin, Step
<1>5. /\ ctl.go = "throw" /\ "go" \in DOMAIN ctl
      /\ "go" \in DOMAIN Ret(reg.exit) /\ Ret(reg.exit).go = "ret"
  BY DEF CatchBltin, Inv, Running, Ret
<1> HIDE DEF s, r
<1> QED
  BY <1>2, <1>3, <1>4, <1>5 DEF Running, OffOnlyIn, Controls

\* evalfun catches it, puts back what it changed, and lets it go on.
LEMMA CatchFunKeeps ==
  ASSUME Inv, CatchFun
  PROVE  Running(ctl', k', reg')
<1> DEFINE s == SubSeq(k, 1, reg.handler - 1)
           r == funcdone(k[reg.handler], reg)
<1>1. IsReg(reg) /\ Stacked(k, reg.handler) /\ reg.handler # 0 /\ k[reg.handler].t = "fun"
  BY AtThrow DEF CatchFun
<1>2. Stacked(s, k[reg.handler].handler)
  BY <1>1, CutHandler
<1>3. IsReg(r) /\ r.handler = k[reg.handler].handler
  BY <1>1, FundoneReg
<1>4. k' = s /\ reg' = r /\ ctl' = ctl
  BY DEF CatchFun, Step
<1>5. ctl.go = "throw" /\ "go" \in DOMAIN ctl
  BY DEF CatchFun, Inv, Running
<1> HIDE DEF s, r
<1> QED
  BY <1>2, <1>3, <1>4, <1>5 DEF Running, OffOnlyIn, Controls

\* exitreset leaves the handler alone.
LEMMA ExitresetReg ==
  ASSUME NEW r, IsReg(r)
  PROVE  IsReg(exitreset(r)) /\ exitreset(r).handler = r.handler
BY DEF IsReg, exitreset

\* main catches it.
LEMMA CatchMainKeeps ==
  ASSUME Inv, CatchMain
  PROVE  Running(ctl', k', reg')
<1>1. IsReg(reg) /\ Stacked(k, 0) /\ reg.handler = 0
  BY AtThrow DEF CatchMain
<1> DEFINE r == exitreset(reg)
<1>2. IsReg(r) /\ r.handler = 0
  BY <1>1, ExitresetReg
<1>3. \/ exitshell(<<>>, r)
      \/ FORCEINTON([go |-> "next"], <<k[1]>>, [r EXCEPT !.files = 0, !.locals = 0])
  BY DEF CatchMain
<1> HIDE DEF r
<1>4. CASE exitshell(<<>>, r)
  BY <1>2, <1>4, ExitRuns
<1>5. CASE FORCEINTON([go |-> "next"], <<k[1]>>, [r EXCEPT !.files = 0, !.locals = 0])
  <2> DEFINE c == [go |-> "next"]
             s == <<k[1]>>
             q == [r EXCEPT !.files = 0, !.locals = 0]
  <2>1. Stacked(s, 0)
    BY <1>1, AtBottom, Bottom
  <2>2. "go" \in DOMAIN c /\ c.go = "next"
    OBVIOUS
  <2>3. IsReg(q) /\ q.handler = 0
    BY <1>2 DEF IsReg
  <2>4. FORCEINTON(c, s, q)
    BY <1>5
  <2> HIDE DEF c, s, q
  <2> QED
    BY <2>1, <2>2, <2>3, <2>4, ForcedRuns
<1> QED
  BY <1>3, <1>4, <1>5

\* The trap on EXIT is over.
LEMMA ExitDoneKeeps ==
  ASSUME Inv, ExitDone
  PROVE  Running(ctl', k', reg')
<1> DEFINE q == IF ctl.go = "ret" THEN [reg EXCEPT !.skip = "funcdef"] ELSE reg
<1>1. IsReg(reg)
  BY DEF Inv, Running
<1>2. IsReg(q)
  BY <1>1 DEF IsReg
<1>3. ctl' = [go |-> "halt", st |-> exitreset(q).exit] /\ reg' = exitreset(q)
  BY DEF ExitDone, Step
<1> HIDE DEF q
<1> QED
  BY <1>2, <1>3, ExitresetReg, Halts

-----------------------------------------------------------------------------
(* Traps and signals.                                                      *)

\* dotrap runs a pending trap.
LEMMA dotrapKeeps ==
  ASSUME Inv, dotrap
  PROVE  Running(ctl', k', reg')
<1>1. /\ Calm(reg) /\ Stacked(k, reg.handler) /\ "go" \in DOMAIN ctl
      /\ ctl.go = "eval" \/ (ctl.go = "ret" /\ Last(k).t = "tree")
  BY IsCalm DEF dotrap, Frame, Top, Inv, Running
<1> DEFINE exit == IF ctl.go = "eval" THEN reg.exit ELSE ctl.st
           status == IF reg.saved < 0 THEN exit ELSE reg.saved
           then == IF ctl.go = "eval" THEN [ctl EXCEPT !.go = "enter"]
                                      ELSE [ctl EXCEPT !.go = "leave"]
           f == [t |-> "trap", status |-> status, last |-> reg.saved, then |-> then]
           g == [t |-> "str", rest |-> prog.trap, fl |-> {}, st |-> 0]
           r == [reg EXCEPT !.pend = FALSE, !.saved = status, !.exit = exit, !.files = @ + 1]
<1>2. ctl' = [go |-> "next"] /\ k' = k \o <<f, g>> /\ reg' = r
  BY DEF dotrap, Step
<1>3. /\ "go" \in DOMAIN then /\ then.go \in {"enter", "leave"}
      /\ then.go = "leave" => Last(k).t = "tree"
  BY <1>1
<1> HIDE DEF exit, status, then
<1>4. Calm(r) /\ r.handler = reg.handler
  BY <1>1 DEF Calm, IsReg
<1>5. "t" \in DOMAIN f /\ f.t = "trap" /\ f.then = then /\ Plain(g)
  BY DEF Plain, Handlers
<1> HIDE DEF f, g, r
<1>6. f.t \notin Handlers
  BY <1>5 DEF Handlers
<1>7. Stacked(Append(k, f), reg.handler)
  BY <1>1, <1>3, <1>5, <1>6, Pushed1
<1>8. Stacked(Append(Append(k, f), g), reg.handler)
  BY <1>5, <1>7, Push
<1>9. k' = Append(Append(k, f), g)
  BY <1>1, <1>2, OneByOne DEF Stacked
<1> QED
  BY <1>2, <1>4, <1>8, <1>9, Goes

\* The trap is over.
LEMMA TrapBackKeeps ==
  ASSUME Inv, TrapBack
  PROVE  Running(ctl', k', reg')
<1>1. Calm(reg) /\ Stacked(k, reg.handler) /\ Last(k).t = "trap"
  BY AtFrame DEF TrapBack
<1>2. /\ ctl' = Last(k).then /\ k' = Front(k)
      /\ reg' = [reg EXCEPT !.saved = Last(k).last,
                            !.exit = IF reg.skip = "func" THEN @ ELSE Last(k).status]
  BY DEF TrapBack, Step, Top
<1>3. Calm(reg') /\ reg'.handler = reg.handler
  BY <1>1, <1>2 DEF Calm, IsReg
<1>4. Stacked(Front(k), reg.handler)
  BY <1>1, Pop DEF Handlers
<1>5. Len(k) \in Nat /\ Len(k) > 0 /\ IsStack(k) /\ Fits(k, Len(k)) /\ Fits(k, 1)
  BY <1>1, StackShape DEF Stacked
<1>6. Len(k) # 1
  BY <1>1, <1>5 DEF Fits, Last
<1>7. /\ Len(Front(k)) = Len(k) - 1
      /\ \A i \in 1..(Len(k) - 1) : Front(k)[i] = k[i]
  <2>1. Len(k) - 1 \in 0..Len(k)
    BY <1>5
  <2> QED
    BY ONLY <1>5, <2>1, Cut DEF Front
<1>8. Last(Front(k)) = k[Len(k) - 1]
  BY <1>5, <1>6, <1>7 DEF Last
<1>9. /\ "go" \in DOMAIN ctl' /\ ctl'.go \in {"enter", "leave"}
      /\ ctl'.go = "leave" => Last(k').t = "tree"
  BY <1>1, <1>2, <1>5, <1>8 DEF Fits, Last
<1> QED
  BY <1>2, <1>3, <1>4, <1>9, Goes

\* A signal comes to the process that runs.
LEMMA SignalKeeps ==
  ASSUME Inv, Signal
  PROVE  Running(ctl', k', reg')
<1>1. /\ IsReg(reg) /\ Stacked(k, reg.handler) /\ ctl.go # "halt" /\ Running(ctl, k, reg)
  BY DEF Signal, Inv, Running
<1>2. \/ Step(ctl, k, [reg EXCEPT !.pend = TRUE])
      \/ reg.supp = 0 /\ onint(k, reg)
      \/ Step(ctl, k, [reg EXCEPT !.intp = TRUE])
  BY DEF Signal
<1>3. ASSUME NEW r, r = [reg EXCEPT !.pend = TRUE] \/ r = [reg EXCEPT !.intp = TRUE], Step(ctl, k, r)
      PROVE  Running(ctl', k', reg')
  <2>1. IsReg(r) /\ r.handler = reg.handler /\ r.supp = reg.supp /\ r.exited = reg.exited
    BY <1>1, <1>3 DEF IsReg
  <2>2. ctl' = ctl /\ k' = k /\ reg' = r
    BY <1>3 DEF Step
  <2> QED
    BY <1>1, <2>1, <2>2 DEF Running, OffOnlyIn
<1>4. CASE onint(k, reg)
  <2> DEFINE q == [reg EXCEPT !.intp = FALSE, !.exit = 130]
  <2>1. IsReg(q) /\ q.handler = reg.handler
    BY <1>1 DEF IsReg
  <2>2. /\ k' = k /\ reg' = Raised("INT", q)
        /\ ctl' = [go |-> "throw"] \/ ctl' = [go |-> "halt", st |-> 130]
    BY <1>4 DEF onint, Step
  <2> HIDE DEF q
  <2>3. IsReg(Raised("INT", q))
    BY <2>1, RaisedReg
  <2> QED
    BY <1>1, <2>1, <2>2, <2>3, RaiseRuns, Halts
<1> QED
  BY <1>2, <1>3, <1>4

\* A signal comes to a process that waits.
LEMMA SignalParentKeeps ==
  ASSUME Inv, SignalParent
  PROVE  Inv'
<1>1. AllWait(parents) /\ Len(parents) \in Nat /\ Len(parents) > 0
  BY LastWaits DEF SignalParent, Inv
<1>2. 1 \in 1..Len(parents) /\ Waiting(parents[1])
  BY <1>1 DEF AllWait
<1> DEFINE p == [parents[1] EXCEPT !.reg.pend = TRUE]
           q == [parents[1] EXCEPT !.reg.intp = TRUE]
<1>3. Waiting(p) /\ Waiting(q)
  <2>1. {"k", "reg"} \subseteq DOMAIN parents[1] /\ IsReg(parents[1].reg)
    BY <1>2 DEF Waiting
  <2>2. p.k = parents[1].k /\ p.reg = [parents[1].reg EXCEPT !.pend = TRUE] /\ {"k", "reg"} \subseteq DOMAIN p
    BY <2>1
  <2>3. q.k = parents[1].k /\ q.reg = [parents[1].reg EXCEPT !.intp = TRUE] /\ {"k", "reg"} \subseteq DOMAIN q
    BY <2>1
  <2>4. ASSUME NEW r, r = [parents[1].reg EXCEPT !.pend = TRUE] \/ r = [parents[1].reg EXCEPT !.intp = TRUE]
        PROVE  /\ IsReg(r) /\ r.handler = parents[1].reg.handler
               /\ r.supp = parents[1].reg.supp /\ r.exited = parents[1].reg.exited
    BY <2>1, <2>4 DEF IsReg
  <2> HIDE DEF p, q
  <2> QED
    BY <1>2, <2>2, <2>3, <2>4 DEF Waiting
<1>4. parents' = [parents EXCEPT ![1] = p] \/ parents' = [parents EXCEPT ![1] = q]
  BY DEF SignalParent
<1> HIDE DEF p, q
<1>5. AllWait(parents')
  BY <1>1, <1>2, <1>3, <1>4, OtherWaits
<1>6. ctl' = ctl /\ k' = k /\ reg' = reg
  BY DEF SignalParent
<1> QED
  BY <1>5, <1>6 DEF Inv

-----------------------------------------------------------------------------
(* The theorems.                                                           *)

\* The invariant holds when the shell begins.
LEMMA InitInv == Init => Inv
<1> SUFFICES ASSUME Init
             PROVE  Inv
  OBVIOUS
<1> DEFINE f == [t |-> "top", rest |-> Lines(prog)]
<1>1. k = <<f>> /\ ctl = [go |-> "next"] /\ parents = <<>>
  BY DEF Init
<1>2. Calm(reg) /\ reg.handler = 0
  BY DEF Init, Calm, IsReg
<1>3. "t" \in DOMAIN f /\ f.t = "top"
  OBVIOUS
<1> HIDE DEF f
<1>4. Stacked(k, 0)
  BY <1>1, <1>3, Bottom
<1>5. Running(ctl, k, reg)
  BY <1>1, <1>2, <1>4, Goes
<1>6. <<>> \in Seq({}) /\ Len(<<>>) = 0
  OBVIOUS
<1>7. IsStack(<<>>)
  BY <1>6, IsStackIf
<1>8. AllWait(parents)
  BY <1>1, <1>6, <1>7 DEF AllWait
<1> QED
  BY <1>5, <1>8 DEF Inv

\* Every step keeps the invariant.
LEMMA NextInv == Inv /\ [Next]_vars => Inv'
<1> SUFFICES ASSUME Inv, [Next]_vars
             PROVE  Inv'
  OBVIOUS
<1>1. ASSUME Running(ctl', k', reg'), parents' = parents
      PROVE  Inv'
  BY <1>1 DEF Inv
<1>2. ASSUME Construct
      PROVE  Inv'
  <2>1. CASE Enter
    BY <2>1, <1>1, EnterKeeps DEF Enter, Quiet
  <2>2. CASE Not
    BY <2>2, <1>1, NotKeeps DEF Not, Quiet
  <2>3. CASE Binary
    BY <2>3, <1>1, BinaryKeeps DEF Binary, Quiet
  <2>4. CASE If
    BY <2>4, <1>1, IfKeeps DEF If, Quiet
  <2>5. CASE Leave
    BY <2>5, <1>1, LeaveKeeps DEF Leave, Quiet
  <2>6. CASE EnterLoop
    BY <2>6, <1>1, EnterLoopKeeps DEF EnterLoop, Quiet
  <2>7. CASE evalloop
    BY <2>7, <1>1, evalloopKeeps DEF evalloop, Quiet
  <2>8. CASE evalfor
    BY <2>8, <1>1, evalforKeeps DEF evalfor, Quiet
  <2>9. CASE EnterRedir
    BY <2>9, <1>1, EnterRedirKeeps DEF EnterRedir, Quiet
  <2>10. CASE popredir
    BY <2>10, <1>1, popredirKeeps DEF popredir, Quiet
  <2> QED
    BY <1>2, <2>1, <2>2, <2>3, <2>4, <2>5, <2>6, <2>7, <2>8, <2>9, <2>10,
       EnterForkKeeps, ChildGoneKeeps DEF Construct
<1>3. ASSUME Command
      PROVE  Inv'
  <2>1. CASE CmdExpand
    BY <2>1, <1>1, CmdExpandKeeps DEF CmdExpand, Quiet
  <2>2. CASE CmdFails
    BY <2>2, <1>1, CmdFailsKeeps DEF CmdFails, Quiet
  <2>3. CASE CmdRun
    BY <2>3, <1>1, CmdRunKeeps DEF CmdRun
  <2>4. CASE CmdTick
    BY <2>4, <1>1, CmdTickKeeps DEF CmdTick, Quiet
  <2>5. CASE CmdBltinError
    BY <2>5, <1>1, CmdBltinErrorKeeps DEF CmdBltinError, Quiet
  <2>6. CASE breakcmd
    BY <2>6, <1>1, breakcmdKeeps DEF breakcmd, Quiet
  <2>7. CASE returncmd
    BY <2>7, <1>1, returncmdKeeps DEF returncmd, Quiet
  <2>8. CASE exitcmd
    BY <2>8, <1>1, exitcmdKeeps DEF exitcmd, Quiet
  <2>9. CASE CmdText
    BY <2>9, <1>1, CmdTextKeeps DEF CmdText, Quiet
  <2>10. CASE evalfun
    BY <2>10, <1>1, evalfunKeeps DEF evalfun, Quiet
  <2>11. CASE FunBack
    BY <2>11, <1>1, FunBackKeeps DEF FunBack, Quiet
  <2>12. CASE BltinBack
    BY <2>12, <1>1, BltinBackKeeps DEF BltinBack, Quiet
  <2>13. CASE CmdBack
    BY <2>13, <1>1, CmdBackKeeps DEF CmdBack, Quiet
  <2> QED
    BY <1>3, <2>1, <2>2, <2>3, <2>4, <2>5, <2>6, <2>7, <2>8, <2>9, <2>10, <2>11, <2>12, <2>13
       DEF Command
<1>4. ASSUME Input \/ Catch
      PROVE  Inv'
  <2>1. CASE NextCommand
    BY <2>1, <1>1, NextCommandKeeps DEF NextCommand, Quiet
  <2>2. CASE TextBack
    BY <2>2, <1>1, TextBackKeeps DEF TextBack, Quiet
  <2>3. CASE TopLevel
    BY <2>3, <1>1, TopLevelKeeps DEF TopLevel, Quiet
  <2>4. CASE CatchBltin
    BY <2>4, <1>1, CatchBltinKeeps DEF CatchBltin, Quiet
  <2>5. CASE CatchFun
    BY <2>5, <1>1, CatchFunKeeps DEF CatchFun, Quiet
  <2>6. CASE CatchMain
    BY <2>6, <1>1, CatchMainKeeps DEF CatchMain, Quiet
  <2>7. CASE ExitDone
    BY <2>7, <1>1, ExitDoneKeeps DEF ExitDone, Quiet
  <2> QED
    BY <1>4, <2>1, <2>2, <2>3, <2>4, <2>5, <2>6, <2>7 DEF Input, Catch
<1>5. ASSUME Trap
      PROVE  Inv'
  <2>1. CASE dotrap
    BY <2>1, <1>1, dotrapKeeps DEF dotrap, Quiet
  <2>2. CASE TrapBack
    BY <2>2, <1>1, TrapBackKeeps DEF TrapBack, Quiet
  <2>3. CASE Signal
    BY <2>3, <1>1, SignalKeeps DEF Signal
  <2> QED
    BY <1>5, <2>1, <2>2, <2>3, SignalParentKeeps DEF Trap
<1>6. CASE UNCHANGED vars
  BY <1>6 DEF vars, Inv
<1> QED
  BY <1>2, <1>3, <1>4, <1>5, <1>6 DEF Next

\* The invariant holds in every state of the shell.
THEOREM Invariance == Spec => []Inv
BY InitInv, NextInv, PTL DEF Spec

\* The handler that a longjmp goes to is always the frame of the C stack that
\* was pushed last among those that have one: no way out of a builtin, a
\* function or a trap leaves the handler of a frame that is gone (eval.c).
HandlerIsInnermost == ctl.go # "halt" => Innermost(k, Len(k), reg.handler)

\* longjmp goes to the innermost frame that has called setjmp (handler in
\* evalbltin, evalfun, exitshell and main).
THEOREM HandlerTheorem == Spec => []HandlerIsInnermost
<1>1. Inv => HandlerIsInnermost
  BY DEF Inv, Running, Stacked, HandlerIsInnermost
<1> QED
  BY <1>1, Invariance, PTL

\* Interrupts are on whenever a command begins: whatever raised, caught, forked
\* or waited before has turned them on again (INTOFF, INTON and FORCEINTON in
\* eval.c, error.c and jobs.c).
THEOREM InterruptsTheorem == Spec => []InterruptsOn
<1>1. Inv => InterruptsOn
  BY DEF Inv, Running, OffOnlyIn, InterruptsOn
<1> QED
  BY <1>1, Invariance, PTL

-----------------------------------------------------------------------------
(* The inductive invariant of FramesMatch: what each frame remembers is     *)
(* true of the frames below it, the registers say what the stack says, and  *)
(* a node is evaluated only where Tame lets it be.                          *)

\* The frames that count for something: input files, saved descriptors, local
\* variables and loops; and how many of them the stack s has in b..m.
Opens(c, f) ==
  \/ c = "files" /\ f.t \in {"str", "file"}
  \/ c = "redirs" /\ (f.t = "redir" \/ (f.t = "cmd" /\ f.n.redir # "none"))
  \/ c = "locals" /\ f.t = "cmd" /\ ~Special(f.n)
  \/ c = "loops" /\ f.t \in {"while", "for"}
Num(c, s, b, m) == Cardinality({i \in b..m : Opens(c, s[i])})

\* The loops of the current function.
Fun(s, m) == Highest({i \in 1..m : s[i].t = "fun"})
Loops(s, m) == Num("loops", s, 1 + Fun(s, m), m)

\* What the first m frames are part of: a trap, a command eval, and a loop, a
\* child or a trap within one.
Catcher(f) == f.t = "cmd" /\ CatchesErrors(f.n)
Exposing == {"while", "for", "fork", "trap"}
Trapped(s, m) == \E i \in 1..m : s[i].t = "trap"
Recovering(s, m) == \E i \in 1..m : Catcher(s[i])
Exposed(s, m) == \E i \in 1..m : s[i].t \in Exposing /\ Recovering(s, i)

\* A command eval of a process that waits.
Below(s, b, m) == \E i \in 1..m : i < b /\ Catcher(s[i])

\* A child has done nothing yet but evaluate its last command.
OnlyTrees(s, b, m) == \A i \in b..m : s[i].t = "tree"

\* The nodes that may be evaluated above the first m frames.
Allowed(s, m, n) ==
  /\ n \in Trees
  /\ Recovering(s, m) => n \in Recoverable
  /\ Exposed(s, m) => n \in Errorless
  /\ Trapped(s, m) => n \in Steady

\* The types of what the control, a frame and the registers hold.
ControlOK(c) ==
  /\ "go" \in DOMAIN c
  /\ c.go \in {"eval", "enter"} => {"n", "fl"} \subseteq DOMAIN c /\ c.n \in Trees
  /\ c.go \in {"ret", "leave", "halt"} => "st" \in DOMAIN c /\ c.st \in Nat

Composed == {"not", "and", "or", "seq", "if", "while", "for"}
FrameOK(f) ==
  /\ f.t \in {"top", "str", "file", "fork"} =>
       {"t", "rest"} \subseteq DOMAIN f /\ f.rest \in Seq(Trees)
  /\ f.t \in {"str", "file"} => {"fl", "st"} \subseteq DOMAIN f /\ f.st \in Nat
  /\ f.t = "fork" => "fl" \in DOMAIN f
  /\ f.t \in Composed => {"n", "fl"} \subseteq DOMAIN f /\ f.n \in Trees /\ f.n.t = f.t
  /\ f.t = "while" => {"t", "st", "part"} \subseteq DOMAIN f /\ f.st \in Nat
  /\ f.t = "for" => {"t", "left"} \subseteq DOMAIN f
  /\ f.t = "cmd" =>
       f.n \in Trees /\ f.n.t = "cmd" /\ f.files \in Int /\ f.redirs \in Int /\ f.locals \in Int
  /\ f.t = "fun" => f.nest \in Int
  /\ f.t = "trap" => f.status \in Nat /\ f.last \in Int /\ ControlOK(f.then)

RegOK(r) ==
  /\ {"skip", "count", "nest", "redirs", "locals", "files", "pend", "exc",
      "saved", "exit", "root"} \subseteq DOMAIN r
  /\ {r.count, r.nest, r.redirs, r.locals, r.files, r.saved} \subseteq Int
  /\ r.exit \in Nat /\ r.root \in BOOLEAN

\* The nodes a frame will go on with.
NodesOf(f) ==
  IF f.t \in {"top", "str", "file", "fork"} THEN ToSet(f.rest)
  ELSE IF f.t \in Composed THEN {f.n} ELSE {}

\* The frame f is at home above the first m frames of s, in a process that has
\* begun at frame b; ex says that the shell is on its way out, when the marks
\* no longer matter.  What a frame remembers is true of the frames below it.
Placed(s, b, ex, m, f) ==
  /\ FrameOK(f)
  /\ f.t = "bltin" => s[m].n.c \in Texts
  /\ f.t = "cmd" /\ ~ex =>
       /\ f.locals = Num("locals", s, 1, m)
       /\ m + 1 >= b => f.files = Num("files", s, b, m) /\ f.redirs = Num("redirs", s, b, m)
  /\ f.t = "fun" => f.nest = Loops(s, m)
  /\ f.t = "exit" => ex
  /\ f.t = "trap" =>
       /\ ~ex => (f.last = -1 <=> ~Trapped(s, m))
       /\ m + 1 >= b => b = 1
       /\ f.then.go = "enter" => "exit" \notin f.then.fl /\ Allowed(s, m, f.then.n)
  /\ f.t \in {"str", "file", "while", "for"} => "exit" \notin f.fl
  /\ f.t \in {"tree", "not", "and", "or", "seq", "if"} /\ m + 1 >= b /\ "exit" \in f.fl =>
       b > 1 /\ OnlyTrees(s, b, m)
  /\ m + 1 = b /\ b > 1 => f.t = "tree" /\ "exit" \in f.fl
  /\ m + 2 = b => f.t = "fork"
  /\ \A n \in NodesOf(f) :
       Allowed(s, m, n) /\ (f.t \in Exposing /\ Recovering(s, m) => n \in Errorless)

Good(s, b, ex) == \A i \in 1..Len(s) : Placed(s, b, ex, i - 1, s[i])

\* loopnest and savestatus say what the stack says.
Exact(s, r) ==
  /\ r.nest = Loops(s, Len(s))
  /\ ~r.exited => (r.saved = -1 <=> ~Trapped(s, Len(s)))

\* The lists of files, saved descriptors and local variables do.
Marks(s, r, b) ==
  ~r.exited => /\ r.files = Num("files", s, b, Len(s))
               /\ r.redirs = Num("redirs", s, b, Len(s))
               /\ r.locals = Num("locals", s, 1, Len(s))

NoSkip(r) == r.skip \notin {"break", "cont"}

\* An error on its way to a command eval leaves all as it is to be found.
Thrown(s, r, b) ==
  r.exc = "ERROR" =>
    /\ ~Exposed(s, Len(s)) /\ ~Below(s, b, Len(s))
    /\ Recovering(s, Len(s)) => Exact(s, r)
    /\ NoSkip(r)

Evaluates(s, c, b) ==
  Allowed(s, Len(s), c.n) /\ ("exit" \in c.fl => b > 1 /\ OnlyTrees(s, b, Len(s)))

Onward(c, s, r, b) ==
  /\ Exact(s, r)
  /\ ~(c.go = "ret" /\ Last(s).t = "cmd") => Marks(s, r, b)
  /\ \/ NoSkip(r)
     \/ c.go \in {"ret", "leave"} /\ ~Trapped(s, Len(s)) /\ r.count \in 1..Loops(s, Len(s))
  /\ c.go \in {"eval", "enter"} => Evaluates(s, c, b)
  /\ Len(s) >= b \/ (c.go = "eval" /\ Len(s) = b - 1 /\ "exit" \in c.fl)

\* The process that runs, begun at frame b,
Sound(c, s, r, b) ==
  /\ RegOK(r) /\ ControlOK(c)
  /\ r.root <=> b = 1
  /\ b > 1 => ~r.pend
  /\ c.go # "halt" => Good(s, b, r.exited)
  /\ c.go = "throw" => Thrown(s, r, b)
  /\ c.go \notin {"throw", "halt"} => Onward(c, s, r, b)

\* and one that waits for a child.
Waits(p, b) ==
  /\ RegOK(p.reg)
  /\ p.reg.root <=> b = 1
  /\ b > 1 => ~p.reg.pend
  /\ Good(p.k, b, p.reg.exited) /\ Exact(p.k, p.reg) /\ Marks(p.k, p.reg, b)
  /\ NoSkip(p.reg)
  /\ Len(p.k) >= b

Start(ps, j) == IF j = 1 THEN 1 ELSE Len(ps[j - 1].k) + 1
Here == Start(parents, Len(parents) + 1)
FrameInv ==
  /\ prog \in Scripts
  /\ Sound(ctl, k, reg, Here)
  /\ \A j \in 1..Len(parents) : Waits(parents[j], Start(parents, j))

-----------------------------------------------------------------------------
(* Counting frames.                                                        *)

\* A bounded set of numbers has a highest one.
LEMMA HasHighest ==
  ASSUME NEW S, NEW m \in Nat, S \subseteq 1..m, S # {}
  PROVE  \E i \in S : \A j \in S : j <= i
<1> DEFINE Above(x) == {y \in S : x < y}
           T == {Above(i) : i \in S}
           R == StrictSubsetOrdering(S)
<1>0. IsFiniteSet(1..m) /\ S \in SUBSET (1..m)
  BY FS_Interval
<1>1. IsFiniteSet(S)
  BY <1>0, FS_Subset
<1>2. IsWellFoundedOn(R, FiniteSubsetsOf(S))
  BY FS_StrictSubsetOrderingWellFounded
<1>3. T \subseteq FiniteSubsetsOf(S) /\ T # {}
  <2>1. \A i \in S : Above(i) \in SUBSET S /\ IsFiniteSet(Above(i))
    BY <1>1, FS_Subset
  <2> QED
    BY <2>1 DEF FiniteSubsetsOf
<1>4. \E x \in T : \A y \in T : ~ (<<y, x>> \in R)
  <2> HIDE DEF T, R
  <2> QED
    BY ONLY <1>2, <1>3, WFMin
<1>5. PICK i \in S : \A j \in S : ~(<<Above(j), Above(i)>> \in R)
  BY <1>4
<1>6. ASSUME NEW j \in S, j > i
      PROVE  FALSE
  <2>1. i \in Int /\ j \in Int
    OBVIOUS
  <2>2. Above(j) \subseteq Above(i) /\ j \in Above(i) /\ j \notin Above(j)
    <3>1. \A l \in S : l \in Int
      OBVIOUS
    <3> HIDE DEF T, R
    <3>2. \A y \in S : j < y => i < y
      BY <1>6, <2>1, <3>1
    <3>3. i < j /\ ~(j < j)
      BY <1>6, <2>1
    <3> QED
      BY <3>2, <3>3
  <2>3. Above(j) \in SUBSET S /\ Above(i) \in SUBSET S /\ Above(j) # Above(i)
    BY <2>2
  <2> HIDE DEF Above
  <2>4. <<Above(j), Above(i)>> \in R
    BY <2>2, <2>3 DEF StrictSubsetOrdering
  <2> QED
    BY <1>5, <2>4
<1>7. \A j \in S : j \in Int /\ i \in Int
  OBVIOUS
<1> QED
  BY <1>6, <1>7

\* Highest is that one.
LEMMA HighestIs ==
  ASSUME NEW S, NEW m \in Nat, S \subseteq 1..m
  PROVE  /\ Highest(S) \in 0..m
         /\ S # {} => Highest(S) \in S /\ \A j \in S : j <= Highest(S)
         /\ S = {} => Highest(S) = 0
<1>1. CASE S = {}
  BY <1>1 DEF Highest
<1>2. CASE S # {}
  <2>1. \E i \in S : \A j \in S : j <= i
    BY <1>2, HasHighest
  <2>2. Highest(S) \in S /\ \A j \in S : j <= Highest(S)
    BY <1>2, <2>1 DEF Highest
  <2>3. Highest(S) \in 1..m
    BY <2>2
  <2> QED
    BY <1>2, <2>2, <2>3
<1> QED
  BY <1>1, <1>2

\* What counts is a finite set of frames.
LEMMA NumIs ==
  ASSUME NEW c, NEW s, NEW b \in Int, NEW m \in Int
  PROVE  IsFiniteSet({i \in b..m : Opens(c, s[i])}) /\ Num(c, s, b, m) \in Nat
<1> DEFINE S == {i \in b..m : Opens(c, s[i])}
<1>1. IsFiniteSet(b..m) /\ S \in SUBSET (b..m)
  BY FS_Interval
<1> HIDE DEF S
<1>2. IsFiniteSet(S)
  BY <1>1, FS_Subset
<1>3. Cardinality(S) \in Nat
  BY <1>2, FS_CardinalityType
<1> QED
  BY <1>2, <1>3 DEF Num, S

\* One frame more,
LEMMA NumUp ==
  ASSUME NEW c, NEW s, NEW b \in Nat, NEW m \in Nat, b <= m + 1
  PROVE  Num(c, s, b, m + 1) = Num(c, s, b, m) + IF Opens(c, s[m + 1]) THEN 1 ELSE 0
<1> DEFINE S == {i \in b..m : Opens(c, s[i])}
           T == {i \in b..(m + 1) : Opens(c, s[i])}
<1>0. b \in Int /\ m \in Int
  OBVIOUS
<1>1. IsFiniteSet(S) /\ Cardinality(S) = Num(c, s, b, m) /\ Num(c, s, b, m) \in Nat
  BY <1>0, NumIs DEF Num
<1>2. Cardinality(T) = Num(c, s, b, m + 1)
  BY DEF Num
<1>3. m + 1 \notin S
  OBVIOUS
<1>4. b..(m + 1) = (b..m) \cup {m + 1}
  OBVIOUS
<1>5. CASE Opens(c, s[m + 1])
  <2>1. T = S \cup {m + 1}
    BY <1>4, <1>5
  <2> HIDE DEF S, T
  <2>2. Cardinality(T) = Cardinality(S) + 1
    BY <1>1, <1>3, <2>1, FS_AddElement
  <2> QED
    BY <1>1, <1>2, <1>5, <2>2
<1>6. CASE ~Opens(c, s[m + 1])
  <2>1. T = S
    BY <1>4, <1>6
  <2> HIDE DEF S, T
  <2> QED
    BY <1>1, <1>2, <1>6, <2>1
<1> QED
  BY <1>5, <1>6

\* the same frames,
LEMMA NumSame ==
  ASSUME NEW c, NEW s, NEW u, NEW b, NEW m, \A i \in b..m : u[i] = s[i]
  PROVE  Num(c, u, b, m) = Num(c, s, b, m)
<1>1. {i \in b..m : Opens(c, u[i])} = {i \in b..m : Opens(c, s[i])}
  OBVIOUS
<1> QED
  BY <1>1 DEF Num

\* and none.
LEMMA NumNone ==
  ASSUME NEW c, NEW s, NEW b \in Int, NEW m \in Int, \A i \in b..m : ~Opens(c, s[i])
  PROVE  Num(c, s, b, m) = 0
<1>1. {i \in b..m : Opens(c, s[i])} = {}
  OBVIOUS
<1> QED
  BY <1>1, FS_EmptySet DEF Num

\* The current function, and its loops.
LEMMA FunIs ==
  ASSUME NEW s, NEW m \in Nat
  PROVE  /\ Fun(s, m) \in 0..m
         /\ \A i \in 1..m : s[i].t = "fun" => i <= Fun(s, m)
         /\ Fun(s, m) # 0 => s[Fun(s, m)].t = "fun"
         /\ Loops(s, m) \in Nat
<1> DEFINE S == {i \in 1..m : s[i].t = "fun"}
<1>1. S \subseteq 1..m
  OBVIOUS
<1>2. /\ Highest(S) \in 0..m
      /\ S # {} => Highest(S) \in S /\ \A j \in S : j <= Highest(S)
      /\ S = {} => Highest(S) = 0
  BY <1>1, HighestIs
<1>3. Fun(s, m) = Highest(S)
  BY DEF Fun
<1>4. Fun(s, m) # 0 => Fun(s, m) \in S
  BY <1>2, <1>3
<1>5. 1 + Fun(s, m) \in Int /\ m \in Int
  BY <1>2, <1>3
<1>6. Loops(s, m) \in Nat
  BY <1>5, NumIs DEF Loops
<1> QED
  BY <1>2, <1>3, <1>4, <1>6

\* The last function is the highest index that has one.
LEMMA FunIf ==
  ASSUME NEW s, NEW m \in Nat, NEW h \in 0..m, h # 0 => s[h].t = "fun",
         \A i \in (h + 1)..m : s[i].t # "fun"
  PROVE  Fun(s, m) = h
<1>1. /\ Fun(s, m) \in 0..m
      /\ \A i \in 1..m : s[i].t = "fun" => i <= Fun(s, m)
      /\ Fun(s, m) # 0 => s[Fun(s, m)].t = "fun"
  BY FunIs
<1>2. ~(Fun(s, m) > h)
  BY <1>1
<1>3. ~(Fun(s, m) < h)
  BY <1>1
<1> QED
  BY <1>1, <1>2, <1>3

\* One frame more than m.
LEMMA LoopsUp ==
  ASSUME NEW s, NEW m \in Nat
  PROVE  Loops(s, m + 1) =
           IF s[m + 1].t = "fun" THEN 0
           ELSE Loops(s, m) + IF s[m + 1].t \in {"while", "for"} THEN 1 ELSE 0
<1> DEFINE h == Fun(s, m)
<1>1. /\ h \in 0..m
      /\ \A i \in 1..m : s[i].t = "fun" => i <= h
      /\ h # 0 => s[h].t = "fun"
  BY FunIs
<1> HIDE DEF h
<1>2. CASE s[m + 1].t = "fun"
  <2>1. Fun(s, m + 1) = m + 1
    BY <1>2, FunIf
  <2>2. \A i \in (m + 2)..(m + 1) : ~Opens("loops", s[i])
    OBVIOUS
  <2>3. Num("loops", s, m + 2, m + 1) = 0
    BY <2>2, NumNone
  <2>4. 1 + (m + 1) = m + 2
    OBVIOUS
  <2> QED
    BY <1>2, <2>1, <2>3, <2>4 DEF Loops
<1>3. CASE s[m + 1].t # "fun"
  <2>1. h \in 0..(m + 1) /\ \A i \in (h + 1)..(m + 1) : s[i].t # "fun"
    BY <1>1, <1>3
  <2>2. Fun(s, m + 1) = h
    BY <1>1, <2>1, FunIf
  <2>3. 1 + h \in Nat /\ 1 + h <= m + 1
    BY <1>1
  <2>4. Num("loops", s, 1 + h, m + 1) = Num("loops", s, 1 + h, m) + IF Opens("loops", s[m + 1]) THEN 1 ELSE 0
    BY <2>3, NumUp
  <2>5. Opens("loops", s[m + 1]) <=> s[m + 1].t \in {"while", "for"}
    BY DEF Opens
  <2> QED
    BY <1>3, <2>2, <2>4, <2>5 DEF Loops, h
<1> QED
  BY <1>2, <1>3

\* A stack with cmdloop(1) at the bottom.
Bottomed(s) == IsStack(s) /\ Len(s) > 0 /\ s[1].t = "top"

\* The first m frames of u say what those of s say.
SameFacts(s, u, m) ==
  /\ \A c, b : b \in Nat /\ b > 0 => Num(c, u, b, m) = Num(c, s, b, m)
  /\ Loops(u, m) = Loops(s, m)
  /\ Trapped(u, m) <=> Trapped(s, m)
  /\ Recovering(u, m) <=> Recovering(s, m)
  /\ Exposed(u, m) <=> Exposed(s, m)
  /\ \A b \in Nat : Below(u, b, m) <=> Below(s, b, m)
  /\ \A b \in Nat : b > 0 => (OnlyTrees(u, b, m) <=> OnlyTrees(s, b, m))

\* The last frame of u, f, and what the frames say with it and without.
Above(s, f, u, b) ==
  /\ Bottomed(u) /\ Len(u) = Len(s) + 1 /\ Last(u) = f /\ Len(s) \in Nat
  /\ Num("files", s, b, Len(s)) \in Nat /\ Num("redirs", s, b, Len(s)) \in Nat
  /\ Num("locals", s, 1, Len(s)) \in Nat /\ Loops(s, Len(s)) \in Nat
  /\ Num("files", u, b, Len(u)) =
       Num("files", s, b, Len(s)) + IF f.t \in {"str", "file"} THEN 1 ELSE 0
  /\ Num("redirs", u, b, Len(u)) =
       Num("redirs", s, b, Len(s))
         + IF f.t = "redir" \/ (f.t = "cmd" /\ f.n.redir # "none") THEN 1 ELSE 0
  /\ Num("locals", u, 1, Len(u)) =
       Num("locals", s, 1, Len(s)) + IF f.t = "cmd" /\ ~Special(f.n) THEN 1 ELSE 0
  /\ Loops(u, Len(u)) =
       IF f.t = "fun" THEN 0
       ELSE Loops(s, Len(s)) + IF f.t \in {"while", "for"} THEN 1 ELSE 0
  /\ Trapped(u, Len(u)) <=> Trapped(s, Len(s)) \/ f.t = "trap"
  /\ Recovering(u, Len(u)) <=> Recovering(s, Len(s)) \/ Catcher(f)
  /\ Exposed(u, Len(u)) <=> Exposed(s, Len(s)) \/ (f.t \in Exposing /\ Recovering(s, Len(s)))
  /\ Below(u, b, Len(u)) <=> Below(s, b, Len(s))
  /\ OnlyTrees(u, b, Len(u)) <=> OnlyTrees(s, b, Len(s)) /\ f.t = "tree"

\* What the frames up to m say depends on them only.
LEMMA FactsAreSame ==
  ASSUME NEW s, NEW u, NEW m \in Nat, \A i \in 1..m : u[i] = s[i]
  PROVE  SameFacts(s, u, m)
<1>1. ASSUME NEW c, NEW b \in Nat, b > 0
      PROVE  Num(c, u, b, m) = Num(c, s, b, m)
  <2>1. \A i \in b..m : u[i] = s[i]
    BY <1>1
  <2> QED
    BY <2>1, NumSame
<1>2. Fun(u, m) = Fun(s, m)
  <2>1. {i \in 1..m : u[i].t = "fun"} = {i \in 1..m : s[i].t = "fun"}
    OBVIOUS
  <2> QED
    BY <2>1 DEF Fun
<1>3. Loops(u, m) = Loops(s, m)
  <2>1. Fun(s, m) \in 0..m
    BY FunIs
  <2>2. 1 + Fun(s, m) \in Nat /\ 1 + Fun(s, m) > 0
    BY <2>1
  <2> QED
    BY <1>1, <1>2, <2>2 DEF Loops
<1>4. Trapped(u, m) <=> Trapped(s, m)
  BY DEF Trapped
<1>5. \A i \in 1..m : Recovering(u, i) <=> Recovering(s, i)
  BY DEF Recovering
<1>6. Recovering(u, m) <=> Recovering(s, m)
  BY DEF Recovering
<1>7. Exposed(u, m) <=> Exposed(s, m)
  BY <1>5 DEF Exposed
<1>8. \A b \in Nat : Below(u, b, m) <=> Below(s, b, m)
  BY DEF Below
<1>9. \A b \in Nat : b > 0 => (OnlyTrees(u, b, m) <=> OnlyTrees(s, b, m))
  BY DEF OnlyTrees
<1> QED
  BY <1>1, <1>3, <1>4, <1>6, <1>7, <1>8, <1>9 DEF SameFacts

\* So does whether a frame is at home above them.
LEMMA PlacedIsSame ==
  ASSUME NEW s, NEW u, NEW m \in Nat, \A i \in 1..m : u[i] = s[i],
         NEW b \in Nat, b > 0, NEW ex, NEW f, f.t = "bltin" => m > 0,
         Placed(s, b, ex, m, f)
  PROVE  Placed(u, b, ex, m, f)
<1>1. SameFacts(s, u, m)
  BY FactsAreSame
<1>2. \A n : Allowed(u, m, n) <=> Allowed(s, m, n)
  BY <1>1 DEF Allowed, SameFacts
<1>3. m > 0 => u[m] = s[m]
  OBVIOUS
<1> QED
  BY <1>1, <1>2, <1>3 DEF Placed, SameFacts

\* A frame on top of a stack.
LEMMA PushAbove ==
  ASSUME NEW s, Bottomed(s), NEW f, NEW b \in Nat, b > 0, b <= Len(s) + 1
  PROVE  Above(s, f, Append(s, f), b)
<1> DEFINE u == Append(s, f)
           m == Len(s)
<1>1. m \in Nat /\ m > 0 /\ IsStack(s)
  BY StackShape DEF Bottomed
<1>2. /\ IsStack(u) /\ Len(u) = m + 1 /\ Last(u) = f /\ u[m + 1] = f
      /\ \A i \in 1..m : u[i] = s[i]
  BY <1>1, Appended
<1>3. Bottomed(u)
  BY <1>1, <1>2 DEF Bottomed
<1> HIDE DEF u
<1>4. SameFacts(s, u, m)
  BY <1>1, <1>2, FactsAreSame
<1>5. \A c : Num(c, u, b, m + 1) = Num(c, u, b, m) + IF Opens(c, f) THEN 1 ELSE 0
  BY <1>1, <1>2, NumUp
<1>6. Num("locals", u, 1, m + 1) = Num("locals", u, 1, m) + IF Opens("locals", f) THEN 1 ELSE 0
  BY <1>1, <1>2, NumUp
<1>7. /\ Num("files", s, b, m) \in Nat /\ Num("redirs", s, b, m) \in Nat
      /\ Num("locals", s, 1, m) \in Nat /\ Loops(s, m) \in Nat
  <2>1. b \in Int /\ m \in Int /\ 1 \in Int
    BY <1>1
  <2>2. \A c : Num(c, s, b, m) \in Nat /\ Num(c, s, 1, m) \in Nat
    BY <2>1, NumIs
  <2> QED
    BY <1>1, <2>2, FunIs
<1>8. Loops(u, m + 1) = IF f.t = "fun" THEN 0
                        ELSE Loops(u, m) + IF f.t \in {"while", "for"} THEN 1 ELSE 0
  BY <1>1, <1>2, LoopsUp
<1>9. \A i \in 1..(m + 1) : i \in 1..m \/ i = m + 1
  BY <1>1
<1>10. m + 1 \in 1..(m + 1) /\ \A i \in 1..m : i \in 1..(m + 1)
  BY <1>1
<1>11. Trapped(u, m + 1) <=> Trapped(u, m) \/ f.t = "trap"
  BY <1>2, <1>9, <1>10 DEF Trapped
<1>12. Recovering(u, m + 1) <=> Recovering(u, m) \/ Catcher(f)
  BY <1>2, <1>9, <1>10 DEF Recovering
<1>13. Exposed(u, m + 1) <=> Exposed(u, m) \/ (f.t \in Exposing /\ Recovering(u, m + 1))
  BY <1>2, <1>9, <1>10 DEF Exposed
<1>14. f.t \in Exposing => ~Catcher(f)
  BY DEF Exposing, Catcher
<1>15. Below(u, b, m + 1) <=> Below(u, b, m)
  BY <1>1, <1>9, <1>10 DEF Below
<1>16. OnlyTrees(u, b, m + 1) <=> OnlyTrees(u, b, m) /\ f.t = "tree"
  <2>1. m + 1 \in b..(m + 1) /\ \A i \in b..(m + 1) : i \in b..m \/ i = m + 1
    BY <1>1
  <2>2. \A i \in b..m : i \in b..(m + 1)
    BY <1>1
  <2> QED
    BY <1>2, <2>1, <2>2 DEF OnlyTrees
<1>17. Opens("files", f) <=> f.t \in {"str", "file"}
  BY DEF Opens
<1>18. Opens("redirs", f) <=> f.t = "redir" \/ (f.t = "cmd" /\ f.n.redir # "none")
  BY DEF Opens
<1>19. Opens("locals", f) <=> f.t = "cmd" /\ ~Special(f.n)
  BY DEF Opens
<1>20. /\ Num("files", u, b, m + 1) =
            Num("files", s, b, m) + IF f.t \in {"str", "file"} THEN 1 ELSE 0
       /\ Num("redirs", u, b, m + 1) =
            Num("redirs", s, b, m)
              + IF f.t = "redir" \/ (f.t = "cmd" /\ f.n.redir # "none") THEN 1 ELSE 0
       /\ Num("locals", u, 1, m + 1) =
            Num("locals", s, 1, m) + IF f.t = "cmd" /\ ~Special(f.n) THEN 1 ELSE 0
  BY <1>4, <1>5, <1>6, <1>17, <1>18, <1>19 DEF SameFacts
<1>21. Loops(u, m + 1) = IF f.t = "fun" THEN 0
                         ELSE Loops(s, m) + IF f.t \in {"while", "for"} THEN 1 ELSE 0
  BY <1>4, <1>8 DEF SameFacts
<1>22. /\ Trapped(u, m + 1) <=> Trapped(s, m) \/ f.t = "trap"
       /\ Recovering(u, m + 1) <=> Recovering(s, m) \/ Catcher(f)
       /\ Exposed(u, m + 1) <=> Exposed(s, m) \/ (f.t \in Exposing /\ Recovering(s, m))
       /\ Below(u, b, m + 1) <=> Below(s, b, m)
       /\ OnlyTrees(u, b, m + 1) <=> OnlyTrees(s, b, m) /\ f.t = "tree"
  BY <1>4, <1>11, <1>12, <1>13, <1>14, <1>15, <1>16 DEF SameFacts
<1> HIDE DEF m
<1>23. Above(s, f, u, b)
  BY ONLY <1>1, <1>2, <1>3, <1>7, <1>20, <1>21, <1>22 DEF Above, m
<1> QED
  BY <1>23 DEF u

\* A frame that is at home keeps the stack good.
LEMMA PushGood ==
  ASSUME NEW s, Bottomed(s), NEW f, NEW b \in Nat, b > 0, NEW ex,
         Good(s, b, ex), Placed(s, b, ex, Len(s), f)
  PROVE  Good(Append(s, f), b, ex)
<1> DEFINE u == Append(s, f)
           m == Len(s)
<1>1. m \in Nat /\ m > 0 /\ IsStack(s) /\ s[1].t = "top"
  BY StackShape DEF Bottomed
<1>2. Len(u) = m + 1 /\ u[m + 1] = f /\ \A i \in 1..m : u[i] = s[i]
  BY <1>1, Appended
<1> HIDE DEF u
<1>3. ASSUME NEW i \in 1..m
      PROVE  Placed(u, b, ex, i - 1, u[i])
  <2>1. i - 1 \in Nat /\ \A j \in 1..(i - 1) : u[j] = s[j]
    BY <1>1, <1>2
  <2>2. s[i].t = "bltin" => i - 1 > 0
    BY <1>1
  <2>3. Placed(s, b, ex, i - 1, s[i])
    BY DEF Good
  <2>4. Placed(u, b, ex, i - 1, s[i])
    BY <2>1, <2>2, <2>3, PlacedIsSame
  <2> QED
    BY <1>2, <2>4
<1>4. Placed(u, b, ex, m, f)
  <2>1. f.t = "bltin" => m > 0
    BY <1>1
  <2>2. Placed(s, b, ex, m, f)
    OBVIOUS
  <2> HIDE DEF m
  <2>3. \A i \in 1..m : u[i] = s[i]
    BY <1>2
  <2>4. m \in Nat
    BY <1>1
  <2> QED
    BY <2>1, <2>2, <2>3, <2>4, PlacedIsSame
<1>5. \A i \in 1..(m + 1) : i \in 1..m \/ (i = m + 1 /\ i - 1 = m)
  BY <1>1
<1>6. Good(u, b, ex)
  BY <1>2, <1>3, <1>4, <1>5 DEF Good
<1> QED
  BY <1>6 DEF u

\* What is left of a good stack is one.
LEMMA CutGood ==
  ASSUME NEW s, Bottomed(s), NEW m \in 1..Len(s)
  PROVE  /\ Bottomed(SubSeq(s, 1, m)) /\ Len(SubSeq(s, 1, m)) = m
         /\ Last(SubSeq(s, 1, m)) = s[m]
         /\ SameFacts(s, SubSeq(s, 1, m), m)
         /\ \A b, ex : b \in Nat /\ b > 0 /\ Good(s, b, ex) => Good(SubSeq(s, 1, m), b, ex)
<1> DEFINE u == SubSeq(s, 1, m)
<1>1. Len(s) \in Nat /\ Len(s) > 0 /\ IsStack(s) /\ s[1].t = "top"
  BY StackShape DEF Bottomed
<1>2. m \in 0..Len(s) /\ m \in Nat /\ m > 0
  BY <1>1
<1>3. IsStack(u) /\ Len(u) = m /\ \A i \in 1..m : u[i] = s[i]
  BY <1>1, <1>2, Cut
<1> HIDE DEF u
<1>4. Bottomed(u) /\ Last(u) = s[m]
  BY <1>1, <1>2, <1>3 DEF Bottomed, Last
<1>5. SameFacts(s, u, m)
  BY <1>2, <1>3, FactsAreSame
<1>6. ASSUME NEW b \in Nat, b > 0, NEW ex, Good(s, b, ex), NEW i \in 1..m
      PROVE  Placed(u, b, ex, i - 1, u[i])
  <2>1. i - 1 \in Nat /\ i \in 1..Len(s) /\ \A j \in 1..(i - 1) : u[j] = s[j]
    BY <1>1, <1>2, <1>3
  <2>2. s[i].t = "bltin" => i - 1 > 0
    BY <1>1, <1>2
  <2>3. Placed(s, b, ex, i - 1, s[i])
    BY <1>6, <2>1 DEF Good
  <2>4. Placed(u, b, ex, i - 1, s[i])
    BY <1>6, <2>1, <2>2, <2>3, PlacedIsSame
  <2> QED
    BY <1>3, <2>4
<1>7. \A b, ex : b \in Nat /\ b > 0 /\ Good(s, b, ex) => Good(u, b, ex)
  BY <1>3, <1>6 DEF Good
<1> QED
  BY <1>3, <1>4, <1>5, <1>7 DEF u

\* A stack is its last frame on top of the others.
LEMMA FrontLast ==
  ASSUME NEW s, IsStack(s), Len(s) > 0
  PROVE  s = Append(Front(s), Last(s))
<1> DEFINE n == Len(s)
           S == {s[i] : i \in DOMAIN s}
           u == Append(Front(s), Last(s))
<1>1. n \in Nat /\ n > 0 /\ n - 1 \in 0..n /\ Last(s) = s[n] /\ Last(s) \in S
  BY StackShape DEF Last
<1>2. s \in Seq(S)
  BY DEF IsStack
<1>3. /\ IsStack(Front(s)) /\ Len(Front(s)) = n - 1
      /\ \A i \in 1..(n - 1) : Front(s)[i] = s[i]
  BY <1>1, Cut DEF Front
<1>4. /\ IsStack(u) /\ Len(u) = n /\ u[n] = s[n]
      /\ \A i \in 1..(n - 1) : u[i] = Front(s)[i]
  <2>1. (n - 1) + 1 = n
    BY <1>1
  <2> HIDE DEF n
  <2> QED
    BY <1>1, <1>3, <2>1, Appended
<1> HIDE DEF u, S
<1>5. \A i \in 1..n : u[i] = s[i]
  BY <1>1, <1>3, <1>4
<1>6. s = [i \in 1..n |-> s[i]] /\ u = [i \in 1..n |-> u[i]]
  <2>1. ASSUME NEW w, IsStack(w), Len(w) = n
        PROVE  w = [i \in 1..n |-> w[i]]
    <3> DEFINE T == {w[i] : i \in DOMAIN w}
    <3>1. w \in Seq(T)
      BY <2>1 DEF IsStack
    <3> HIDE DEF T
    <3>2. w \in [1..Len(w) -> T]
      BY <3>1, LenProperties
    <3> QED
      BY <2>1, <3>2
  <2>2. IsStack(s) /\ Len(s) = n
    OBVIOUS
  <2> HIDE DEF n
  <2> QED
    BY <1>4, <2>1, <2>2
<1>7. [i \in 1..n |-> s[i]] = [i \in 1..n |-> u[i]]
  BY <1>5
<1>8. s = u
  BY ONLY <1>6, <1>7, Zenon
<1> QED
  BY <1>8 DEF u

\* The top frame is taken off.
LEMMA PopGood ==
  ASSUME NEW s, Bottomed(s), Last(s).t # "top", NEW b \in Nat, b > 0, b <= Len(s),
         NEW ex, Good(s, b, ex)
  PROVE  /\ Bottomed(Front(s)) /\ Good(Front(s), b, ex)
         /\ Placed(Front(s), b, ex, Len(Front(s)), Last(s))
         /\ Above(Front(s), Last(s), s, b)
         /\ Len(s) > 1
<1> DEFINE u == Front(s)
           f == Last(s)
           n == Len(s)
<1>1. n \in Nat /\ n > 0 /\ IsStack(s) /\ f = s[n] /\ s[1].t = "top"
  BY StackShape DEF Bottomed, Last
<1>2. n # 1
  BY <1>1
<1>3. n - 1 \in 1..n /\ n - 1 \in Nat /\ n - 1 > 0
  BY <1>1, <1>2
<1>4. /\ Bottomed(u) /\ Len(u) = n - 1
      /\ \A b2, ex2 : b2 \in Nat /\ b2 > 0 /\ Good(s, b2, ex2) => Good(u, b2, ex2)
  BY <1>3, CutGood DEF Front
<1>5. \A i \in 1..(n - 1) : u[i] = s[i]
  <2>1. n - 1 \in 0..n
    BY <1>3
  <2> QED
    BY <1>1, <2>1, Cut DEF Front
<1>6. Placed(s, b, ex, n - 1, f)
  BY <1>1 DEF Good
<1> HIDE DEF u, f
<1>7. s = Append(u, f)
  BY <1>1, FrontLast DEF u, f
<1>8. b <= Len(u) + 1
  BY <1>1, <1>4
<1>9. Above(u, f, s, b)
  BY <1>4, <1>7, <1>8, PushAbove
<1>10. Placed(u, b, ex, n - 1, f)
  BY <1>3, <1>5, <1>6, PlacedIsSame
<1>11. Good(u, b, ex)
  BY <1>4
<1> QED
  BY <1>2, <1>1, <1>4, <1>9, <1>10, <1>11 DEF u, f

\* What the first m frames are part of, the first n are.
LEMMA MoreFrames ==
  ASSUME NEW s, NEW n \in Nat, NEW m \in 0..n
  PROVE  /\ Trapped(s, m) => Trapped(s, n)
         /\ Recovering(s, m) => Recovering(s, n)
         /\ Exposed(s, m) => Exposed(s, n)
         /\ \A b : Below(s, b, m) => Below(s, b, n)
<1>1. \A i \in 1..m : i \in 1..n
  OBVIOUS
<1> QED
  BY <1>1 DEF Trapped, Recovering, Exposed, Below

\* Above a command eval that is not exposed there are no loops and no traps.
LEMMA NotExposed ==
  ASSUME NEW s, NEW n \in Nat, NEW m \in 0..n, ~Exposed(s, n), Recovering(s, m)
  PROVE  /\ Trapped(s, n) <=> Trapped(s, m)
         /\ (\A i \in (m + 1)..n : s[i].t # "fun") => Loops(s, n) = Loops(s, m)
<1>1. m \in Nat
  OBVIOUS
<1>2. ASSUME NEW i \in (m + 1)..n
      PROVE  s[i].t \notin Exposing
  <2>1. i \in 1..n /\ \A j \in 1..m : j \in 1..i
    OBVIOUS
  <2>2. Recovering(s, i)
    BY <2>1 DEF Recovering
  <2> QED
    BY <2>1, <2>2 DEF Exposed
<1>3. \A i \in 1..n : i \in 1..m \/ i \in (m + 1)..n
  OBVIOUS
<1>4. Trapped(s, n) => Trapped(s, m)
  BY <1>2, <1>3 DEF Trapped, Exposing
<1>5. Trapped(s, m) => Trapped(s, n)
  BY MoreFrames
<1>6. ASSUME \A i \in (m + 1)..n : s[i].t # "fun"
      PROVE  Loops(s, n) = Loops(s, m)
  <2> DEFINE h == Fun(s, m)
  <2>1. /\ h \in 0..m
        /\ \A i \in 1..m : s[i].t = "fun" => i <= h
        /\ h # 0 => s[h].t = "fun"
    BY <1>1, FunIs
  <2> HIDE DEF h
  <2>2. h \in 0..n /\ \A i \in (h + 1)..n : s[i].t # "fun"
    BY <1>3, <1>6, <2>1
  <2>3. Fun(s, n) = h
    BY <2>1, <2>2, FunIf
  <2>4. \A i \in (m + 1)..n : ~Opens("loops", s[i])
    BY <1>2 DEF Opens, Exposing
  <2>5. \A i \in (1 + h)..n : i \in (1 + h)..m \/ i \in (m + 1)..n
    BY <2>1
  <2>6. \A i \in (1 + h)..m : i \in (1 + h)..n
    OBVIOUS
  <2>7. {i \in (1 + h)..n : Opens("loops", s[i])} = {i \in (1 + h)..m : Opens("loops", s[i])}
    BY <2>4, <2>5, <2>6
  <2> QED
    BY <2>3, <2>7 DEF Loops, Num, h
<1> QED
  BY <1>4, <1>5, <1>6

\* The command eval of a process that waits is exposed.
LEMMA NotBelow ==
  ASSUME NEW s, NEW b \in Nat, b > 0, NEW ex, Good(s, b, ex), Len(s) \in Nat, b <= Len(s) + 1,
         ~Exposed(s, Len(s))
  PROVE  ~Below(s, b, Len(s))
<1> SUFFICES ASSUME NEW i \in 1..Len(s), i < b, Catcher(s[i])
             PROVE  FALSE
  BY DEF Below
<1> DEFINE m == b - 1
<1>1. m \in 1..Len(s) /\ i \in 1..m /\ (m - 1) + 2 = b
  OBVIOUS
<1>2. Placed(s, b, ex, m - 1, s[m])
  BY <1>1 DEF Good
<1> HIDE DEF m
<1>3. s[m].t = "fork"
  BY <1>1, <1>2 DEF Placed
<1>4. Recovering(s, m)
  BY <1>1 DEF Recovering
<1> QED
  BY <1>1, <1>3, <1>4 DEF Exposed, Exposing

\* Without command eval there is nothing to recover.
LEMMA NoRecovery ==
  ASSUME NEW s, NEW b, NEW ex, Good(s, b, ex), \A n \in Trees : ~CatchesErrors(n)
  PROVE  ~Recovering(s, Len(s))
<1>1. ASSUME NEW i \in 1..Len(s), Catcher(s[i])
      PROVE  FALSE
  <2>1. FrameOK(s[i])
    BY DEF Good, Placed
  <2> QED
    BY <1>1, <2>1 DEF FrameOK, Catcher
<1> QED
  BY <1>1 DEF Recovering

\* A child begins with the stack of its parent.
LEMMA ChildGood ==
  ASSUME NEW s, Len(s) \in Nat, Len(s) > 0, Last(s).t = "fork", NEW b \in Nat, NEW ex,
         Good(s, b, ex)
  PROVE  Good(s, Len(s) + 1, ex)
<1>1. ASSUME NEW i \in 1..Len(s)
      PROVE  Placed(s, Len(s) + 1, ex, i - 1, s[i])
  <2>1. Placed(s, b, ex, i - 1, s[i])
    BY DEF Good
  <2>2. ~(i - 1 + 1 >= Len(s) + 1) /\ i - 1 + 1 # Len(s) + 1
    OBVIOUS
  <2>3. i - 1 + 2 = Len(s) + 1 => s[i].t = "fork"
    BY DEF Last
  <2> DEFINE m == i - 1
             f == s[i]
  <2> HIDE DEF m, f
  <2>4. /\ Placed(s, b, ex, m, f) /\ ~(m + 1 >= Len(s) + 1) /\ m + 1 # Len(s) + 1
        /\ m + 2 = Len(s) + 1 => f.t = "fork"
    BY <2>1, <2>2, <2>3 DEF m, f
  <2>5. Placed(s, Len(s) + 1, ex, m, f)
    BY <2>4 DEF Placed
  <2> QED
    BY <2>5 DEF m, f
<1> QED
  BY <1>1 DEF Good

\* There is nothing in no frames,
LEMMA FreshFacts ==
  ASSUME NEW s, Len(s) \in Nat
  PROVE  /\ \A c : Num(c, s, Len(s) + 1, Len(s)) = 0
         /\ OnlyTrees(s, Len(s) + 1, Len(s))
<1>1. \A c : \A i \in (Len(s) + 1)..Len(s) : ~Opens(c, s[i])
  OBVIOUS
<1>2. Len(s) + 1 \in Int /\ Len(s) \in Int
  OBVIOUS
<1> QED
  BY <1>1, <1>2, NumNone DEF OnlyTrees

\* and nothing but trees where there are only these,
LEMMA TreesFacts ==
  ASSUME NEW s, Len(s) \in Nat, NEW b \in Nat, OnlyTrees(s, b, Len(s))
  PROVE  Num("files", s, b, Len(s)) = 0 /\ Num("redirs", s, b, Len(s)) = 0
<1>1. \A i \in b..Len(s) : ~Opens("files", s[i]) /\ ~Opens("redirs", s[i])
  BY DEF OnlyTrees, Opens
<1>2. b \in Int /\ Len(s) \in Int
  OBVIOUS
<1> QED
  BY <1>1, <1>2, NumNone

\* The bottom alone.
Nothing(s) ==
  /\ Num("files", s, 1, Len(s)) = 0 /\ Num("redirs", s, 1, Len(s)) = 0
  /\ Num("locals", s, 1, Len(s)) = 0 /\ Loops(s, Len(s)) = 0
  /\ ~Trapped(s, Len(s)) /\ ~Recovering(s, Len(s)) /\ ~Exposed(s, Len(s))
  /\ ~Below(s, 1, Len(s))

\* Nothing is counted there.
LEMMA BottomFacts ==
  ASSUME NEW s, Bottomed(s), Len(s) = 1
  PROVE  Nothing(s)
<1>1. \A i \in 1..1 : s[i].t = "top"
  BY DEF Bottomed
<1>2. /\ \A i \in 1..1 : ~Opens("files", s[i]) /\ ~Opens("redirs", s[i])
      /\ \A i \in 1..1 : ~Opens("locals", s[i]) /\ ~Opens("loops", s[i])
  BY <1>1 DEF Opens
<1>3. /\ Num("files", s, 1, 1) = 0 /\ Num("redirs", s, 1, 1) = 0
      /\ Num("locals", s, 1, 1) = 0 /\ Num("loops", s, 1, 1) = 0
  BY <1>2, NumNone
<1>4. Fun(s, 1) = 0
  BY <1>1, FunIf
<1>5. Loops(s, 1) = 0
  BY <1>3, <1>4 DEF Loops
<1>6. ~Trapped(s, 1) /\ ~Recovering(s, 1) /\ ~Exposed(s, 1) /\ ~Below(s, 1, 1)
  BY <1>1 DEF Trapped, Recovering, Exposed, Below, Catcher, Exposing
<1> QED
  BY <1>3, <1>5, <1>6 DEF Nothing

\* cmdloop(1) is at home there.
LEMMA BottomGood ==
  ASSUME NEW f, f.t = "top", {"t", "rest"} \subseteq DOMAIN f, f.rest \in Seq(Trees), NEW ex
  PROVE  Bottomed(<<f>>) /\ Len(<<f>>) = 1 /\ Last(<<f>>) = f /\ Good(<<f>>, 1, ex)
<1> DEFINE s == <<f>>
<1>1. s \in Seq({f}) /\ Len(s) = 1 /\ s[1] = f /\ Last(s) = f
  BY DEF Last
<1>2. IsStack(s)
  BY <1>1, IsStackIf
<1>3. Bottomed(s)
  BY <1>1, <1>2 DEF Bottomed
<1> HIDE DEF s
<1>4. ~Trapped(s, 0) /\ ~Recovering(s, 0) /\ ~Exposed(s, 0)
  BY DEF Trapped, Recovering, Exposed
<1>5. \A n \in NodesOf(f) : n \in Trees
  <2>1. f.rest \in [1..Len(f.rest) -> Trees] /\ DOMAIN f.rest = 1..Len(f.rest)
    BY LenProperties
  <2>2. ToSet(f.rest) \subseteq Trees
    BY <2>1 DEF ToSet
  <2> QED
    BY <2>2 DEF NodesOf
<1>6. \A n \in NodesOf(f) : Allowed(s, 0, n)
  BY <1>4, <1>5 DEF Allowed
<1>7. FrameOK(f)
  BY DEF FrameOK, Composed
<1>8. Placed(s, 1, ex, 0, f)
  BY <1>6, <1>7 DEF Placed, Exposing
<1>9. \A i \in 1..1 : i = 1 /\ i - 1 = 0
  OBVIOUS
<1>10. Good(s, 1, ex)
  BY <1>1, <1>8, <1>9 DEF Good
<1> QED
  BY <1>1, <1>3, <1>10 DEF s

-----------------------------------------------------------------------------
(* The states a step goes on to.                                           *)

\* What is assumed of the scripts.
TameScripts == Tame(Trees, Recoverable, Errorless, Steady)

\* A process that goes on within its own part of the stack.
Settled(s, r, b) ==
  /\ b \in Nat /\ b > 0 /\ Bottomed(s) /\ Len(s) \in Nat /\ b <= Len(s)
  /\ RegOK(r) /\ (r.root <=> b = 1) /\ (b > 1 => ~r.pend)
  /\ Good(s, b, r.exited) /\ Exact(s, r) /\ Marks(s, r, b)

\* A skip that has a loop to end.
Skips1(s, r) == NoSkip(r) \/ (~Trapped(s, Len(s)) /\ r.count \in 1..Loops(s, Len(s)))

\* A node may be evaluated there.
Ready(s, r, n, fl, b) ==
  /\ Settled(s, r, b) /\ NoSkip(r)
  /\ Allowed(s, Len(s), n)
  /\ "exit" \in fl => b > 1 /\ OnlyTrees(s, b, Len(s))

\* It returns a status,
LEMMA RetSound ==
  ASSUME NEW s, NEW r, NEW b, NEW st \in Nat, Settled(s, r, b), Skips1(s, r)
  PROVE  Sound(Ret(st), s, r, b)
<1>1. /\ "go" \in DOMAIN Ret(st) /\ Ret(st).go = "ret"
      /\ "st" \in DOMAIN Ret(st) /\ Ret(st).st = st
  BY DEF Ret
<1>2. ControlOK(Ret(st))
  BY <1>1 DEF ControlOK
<1>3. Onward(Ret(st), s, r, b)
  BY <1>1 DEF Onward, Settled, Skips1
<1> QED
  BY <1>1, <1>2, <1>3 DEF Sound, Settled

\* the status it has,
LEMMA SameRetSound ==
  ASSUME NEW s, NEW r, NEW b, NEW c, ControlOK(c), c.go \in {"ret", "leave"},
         Settled(s, r, b), Skips1(s, r)
  PROVE  Sound(c, s, r, b)
<1>1. Onward(c, s, r, b)
  BY DEF Onward, Settled, Skips1
<1> QED
  BY <1>1 DEF Sound, Settled

\* it evaluates a node,
LEMMA EvalSound ==
  ASSUME NEW s, NEW r, NEW b, NEW n, NEW fl, Ready(s, r, n, fl, b)
  PROVE  Sound(Eval(n, fl), s, r, b)
<1> DEFINE c == Eval(n, fl)
<1>1. c.go = "eval" /\ {"go", "n", "fl"} \subseteq DOMAIN c /\ c.n = n /\ c.fl = fl
  BY DEF Eval
<1> HIDE DEF c
<1>2. ControlOK(c)
  BY <1>1 DEF ControlOK, Ready, Allowed
<1>3. Evaluates(s, c, b)
  BY <1>1 DEF Evaluates, Ready
<1>4. Onward(c, s, r, b)
  BY <1>1, <1>3 DEF Onward, Ready, Settled
<1>5. Sound(c, s, r, b)
  BY <1>1, <1>2, <1>4 DEF Sound, Ready, Settled
<1> QED
  BY <1>5 DEF c

\* it reads a command,
LEMMA NextSound ==
  ASSUME NEW s, NEW r, NEW b, Settled(s, r, b), NoSkip(r)
  PROVE  Sound([go |-> "next"], s, r, b)
<1> DEFINE c == [go |-> "next"]
<1>1. c.go = "next" /\ "go" \in DOMAIN c
  OBVIOUS
<1> HIDE DEF c
<1>2. ControlOK(c)
  BY <1>1 DEF ControlOK
<1>3. Onward(c, s, r, b)
  BY <1>1 DEF Onward, Settled
<1>4. Sound(c, s, r, b)
  BY <1>1, <1>2, <1>3 DEF Sound, Settled
<1> QED
  BY <1>4 DEF c

\* it raises an exception,
LEMMA ThrowSound ==
  ASSUME NEW s, NEW r, NEW b, RegOK(r), r.root <=> b = 1, b > 1 => ~r.pend,
         Good(s, b, r.exited), Thrown(s, r, b)
  PROVE  Sound([go |-> "throw"], s, r, b)
<1> DEFINE c == [go |-> "throw"]
<1>1. c.go = "throw" /\ "go" \in DOMAIN c
  OBVIOUS
<1> HIDE DEF c
<1>2. ControlOK(c)
  BY <1>1 DEF ControlOK
<1>3. Sound(c, s, r, b)
  BY <1>1, <1>2 DEF Sound
<1> QED
  BY <1>3 DEF c

\* or it ends.
LEMMA HaltSound ==
  ASSUME NEW s, NEW r, NEW b, NEW st \in Nat, RegOK(r), r.root <=> b = 1, b > 1 => ~r.pend
  PROVE  Sound([go |-> "halt", st |-> st], s, r, b)
<1> DEFINE c == [go |-> "halt", st |-> st]
<1>1. c.go = "halt" /\ {"go", "st"} \subseteq DOMAIN c /\ c.st = st
  OBVIOUS
<1> HIDE DEF c
<1>2. ControlOK(c)
  BY <1>1 DEF ControlOK
<1>3. Sound(c, s, r, b)
  BY <1>1, <1>2 DEF Sound
<1> QED
  BY <1>3 DEF c

\* Registers that differ in what the stack does not say.
Alike(r, q) ==
  /\ RegOK(q)
  /\ q.nest = r.nest /\ q.redirs = r.redirs /\ q.locals = r.locals /\ q.files = r.files
  /\ q.saved = r.saved /\ q.root = r.root /\ q.exited = r.exited /\ q.pend = r.pend

\* The stack is as sound with the ones as with the others,
LEMMA AlikeSettled ==
  ASSUME NEW s, NEW r, NEW q, NEW b, Settled(s, r, b), Alike(r, q)
  PROVE  Settled(s, q, b)
BY DEF Settled, Alike, Exact, Marks

\* and so is the process, if they agree on what is skipped and thrown.
LEMMA AlikeSound ==
  ASSUME NEW c, NEW s, NEW r, NEW q, NEW b, Sound(c, s, r, b), Alike(r, q),
         q.skip = r.skip, q.count = r.count, q.exc = r.exc
  PROVE  Sound(c, s, q, b)
<1>1. Exact(s, r) <=> Exact(s, q)
  BY DEF Alike, Exact
<1>2. Marks(s, r, b) <=> Marks(s, q, b)
  BY DEF Alike, Marks
<1>3. c.go = "throw" => Thrown(s, q, b)
  BY <1>1 DEF Sound, Thrown, NoSkip
<1>4. c.go \notin {"throw", "halt"} => Onward(c, s, q, b)
  BY <1>1, <1>2 DEF Sound, Onward, NoSkip
<1> QED
  BY <1>3, <1>4 DEF Sound, Alike

\* An interrupt that was held back raises an exception, or ends a child.
Interrupted(r, c2, r2) ==
  /\ c2 = IF r.root THEN [go |-> "throw"] ELSE [go |-> "halt", st |-> 130]
  /\ r2 = Raised("INT", [r EXCEPT !.intp = FALSE, !.exit = 130])

\* The process is sound after it.
LEMMA InterruptSound ==
  ASSUME NEW c, NEW s, NEW r, NEW b, Sound(c, s, r, b), c.go # "halt", NEW c2, NEW r2,
         Interrupted(r, c2, r2)
  PROVE  Sound(c2, s, r2, b)
<1>0. /\ c2 = IF r.root THEN [go |-> "throw"] ELSE [go |-> "halt", st |-> 130]
      /\ r2 = Raised("INT", [r EXCEPT !.intp = FALSE, !.exit = 130])
  BY DEF Interrupted
<1>1. RegOK(r) /\ (r.root <=> b = 1) /\ (b > 1 => ~r.pend) /\ Good(s, b, r.exited)
  BY DEF Sound
<1>2. /\ RegOK(r2) /\ r2.root = r.root /\ r2.exc = "INT"
      /\ r2.exited = r.exited /\ r2.pend = r.pend
  BY <1>0, <1>1 DEF RegOK, Raised
<1>3. Thrown(s, r2, b)
  BY <1>2 DEF Thrown
<1>4. CASE r.root
  BY <1>0, <1>1, <1>2, <1>3, <1>4, ThrowSound
<1>5. CASE ~r.root
  <2>1. 130 \in Nat
    OBVIOUS
  <2> QED
    BY <1>0, <1>1, <1>2, <1>5, <2>1, HaltSound
<1> QED
  BY <1>4, <1>5

-----------------------------------------------------------------------------
(* Frames that are pushed and given up, with their registers.              *)

\* The registers q count the frame f on top of what r counts.
Counts(f, r, q) ==
  /\ RegOK(q) /\ q.root = r.root /\ q.exited = r.exited /\ (q.pend => r.pend)
  /\ q.nest = IF f.t = "fun" THEN 0
              ELSE r.nest + IF f.t \in {"while", "for"} THEN 1 ELSE 0
  /\ ~r.exited =>
       /\ q.saved = -1 <=> (r.saved = -1 /\ f.t # "trap")
       /\ q.files = r.files + IF f.t \in {"str", "file"} THEN 1 ELSE 0
       /\ q.redirs = r.redirs
            + IF f.t = "redir" \/ (f.t = "cmd" /\ f.n.redir # "none") THEN 1 ELSE 0
       /\ q.locals = r.locals + IF f.t = "cmd" /\ ~Special(f.n) THEN 1 ELSE 0

\* The registers q are r without the frame f, which is no command.
GivesUp(f, r, q) ==
  /\ RegOK(q) /\ q.root = r.root /\ q.exited = r.exited /\ (q.pend => r.pend)
  /\ q.nest = IF f.t = "fun" THEN f.nest
              ELSE r.nest - IF f.t \in {"while", "for"} THEN 1 ELSE 0
  /\ ~r.exited =>
       /\ q.saved = IF f.t = "trap" THEN f.last ELSE r.saved
       /\ q.files = r.files - IF f.t \in {"str", "file"} THEN 1 ELSE 0
       /\ q.redirs = r.redirs - IF f.t = "redir" THEN 1 ELSE 0
       /\ q.locals = r.locals

\* A frame that is at home is pushed.
LEMMA PushSettled ==
  ASSUME NEW s, NEW r, NEW b, NEW f, NEW q, Settled(s, r, b),
         Placed(s, b, r.exited, Len(s), f), Counts(f, r, q)
  PROVE  Settled(Append(s, f), q, b) /\ Above(s, f, Append(s, f), b)
<1> DEFINE u == Append(s, f)
<1>1. Good(u, b, r.exited)
  BY PushGood DEF Settled
<1>2. Above(s, f, u, b)
  BY PushAbove DEF Settled
<1> HIDE DEF u
<1>3. Bottomed(u) /\ Len(u) = Len(s) + 1
  BY <1>2 DEF Above
<1>4. Exact(u, q)
  BY <1>2 DEF Above, Settled, Exact, Counts, RegOK
<1>5. Marks(u, q, b)
  BY <1>2 DEF Above, Settled, Marks, Counts, RegOK
<1>6. Settled(u, q, b)
  BY <1>1, <1>3, <1>4, <1>5 DEF Settled, Counts
<1> QED
  BY <1>2, <1>6 DEF u

\* The top frame is not the first of its process unless it is that of evaltree.
LEMMA NotTheFirst ==
  ASSUME NEW s, NEW b \in Nat, b > 0, b <= Len(s), Bottomed(s), Last(s).t # "top", NEW ex,
         Good(s, b, ex), Last(s).t = "tree" => "exit" \notin Last(s).fl
  PROVE  /\ b <= Len(Front(s)) /\ Len(Front(s)) \in Nat
         /\ Bottomed(Front(s)) /\ Good(Front(s), b, ex)
         /\ Placed(Front(s), b, ex, Len(Front(s)), Last(s))
         /\ Above(Front(s), Last(s), s, b)
<1>1. /\ Bottomed(Front(s)) /\ Good(Front(s), b, ex)
      /\ Placed(Front(s), b, ex, Len(Front(s)), Last(s))
      /\ Above(Front(s), Last(s), s, b)
      /\ Len(s) > 1
  BY PopGood
<1>2. Len(Front(s)) \in Nat /\ Len(s) = Len(Front(s)) + 1
  BY <1>1 DEF Above
<1>3. ~(Len(Front(s)) + 1 = b /\ b > 1)
  BY <1>1 DEF Placed
<1> QED
  BY <1>1, <1>2, <1>3

\* The top frame is given up.
LEMMA PopSettled ==
  ASSUME NEW s, NEW r, NEW b, NEW q, Settled(s, r, b), Last(s).t \notin {"top", "cmd"},
         Last(s).t = "tree" => "exit" \notin Last(s).fl, GivesUp(Last(s), r, q)
  PROVE  /\ Settled(Front(s), q, b) /\ Above(Front(s), Last(s), s, b)
         /\ Placed(Front(s), b, r.exited, Len(Front(s)), Last(s))
<1> DEFINE u == Front(s)
           f == Last(s)
<1>1. /\ b <= Len(u) /\ Len(u) \in Nat
      /\ Bottomed(u) /\ Good(u, b, r.exited)
      /\ Placed(u, b, r.exited, Len(u), f) /\ Above(u, f, s, b)
  BY NotTheFirst DEF Settled
<1> HIDE DEF u, f
<1>2. GivesUp(f, r, q) /\ f.t # "cmd"
  BY DEF f
<1>3. Exact(u, q)
  <2>1. f.t = "fun" => f.nest = Loops(u, Len(u))
    BY <1>1 DEF Placed
  <2>2. f.t = "trap" /\ ~r.exited => (f.last = -1 <=> ~Trapped(u, Len(u)))
    BY <1>1 DEF Placed
  <2>3. q.nest = Loops(u, Len(u))
    <3>1. r.nest = Loops(s, Len(s)) /\ Loops(u, Len(u)) \in Nat
      BY <1>1 DEF Settled, Exact, Above
    <3>2. Loops(s, Len(s)) = IF f.t = "fun" THEN 0
             ELSE Loops(u, Len(u)) + IF f.t \in {"while", "for"} THEN 1 ELSE 0
      BY <1>1 DEF Above
    <3>3. q.nest = IF f.t = "fun" THEN f.nest
             ELSE r.nest - IF f.t \in {"while", "for"} THEN 1 ELSE 0
      BY <1>2 DEF GivesUp
    <3> QED
      BY <2>1, <3>1, <3>2, <3>3
  <2>4. ~q.exited => (q.saved = -1 <=> ~Trapped(u, Len(u)))
    BY <1>1, <1>2, <2>2 DEF Above, Settled, Exact, GivesUp
  <2> QED
    BY <2>3, <2>4 DEF Exact
<1>4. Marks(u, q, b)
  <2> SUFFICES ASSUME ~q.exited
               PROVE  Marks(u, q, b)
    BY DEF Marks
  <2>1. ~r.exited
    BY <1>2 DEF GivesUp
  <2>2. /\ r.files = Num("files", s, b, Len(s)) /\ r.redirs = Num("redirs", s, b, Len(s))
        /\ r.locals = Num("locals", s, 1, Len(s))
    BY <2>1 DEF Settled, Marks
  <2>3. /\ q.files = r.files - IF f.t \in {"str", "file"} THEN 1 ELSE 0
        /\ q.redirs = r.redirs - IF f.t = "redir" THEN 1 ELSE 0
        /\ q.locals = r.locals
    BY <1>2, <2>1 DEF GivesUp
  <2>4. /\ Num("files", u, b, Len(u)) \in Nat /\ Num("redirs", u, b, Len(u)) \in Nat
        /\ Num("locals", u, 1, Len(u)) \in Nat
        /\ Num("files", s, b, Len(s)) =
             Num("files", u, b, Len(u)) + IF f.t \in {"str", "file"} THEN 1 ELSE 0
        /\ Num("redirs", s, b, Len(s)) =
             Num("redirs", u, b, Len(u)) + IF f.t = "redir" THEN 1 ELSE 0
        /\ Num("locals", s, 1, Len(s)) = Num("locals", u, 1, Len(u))
    BY <1>1, <1>2 DEF Above
  <2>5. q.files = Num("files", u, b, Len(u))
    BY <2>2, <2>3, <2>4
  <2>6. q.redirs = Num("redirs", u, b, Len(u))
    BY <2>2, <2>3, <2>4
  <2>7. q.locals = Num("locals", u, 1, Len(u))
    BY <2>2, <2>3, <2>4
  <2> QED
    BY <2>5, <2>6, <2>7 DEF Marks
<1>5. Settled(u, q, b)
  BY <1>1, <1>2, <1>3, <1>4 DEF Settled, GivesUp
<1> QED
  BY <1>1, <1>5 DEF u, f

\* A skip that has a loop to end still has one when it leaves another frame.
LEMMA PopSkips ==
  ASSUME NEW s, NEW u, NEW f, NEW b, NEW r, NEW q, Above(u, f, s, b), Skips1(s, r),
         f.t \notin {"while", "for"}, NoSkip(r) => NoSkip(q),
         q.count = r.count
  PROVE  Skips1(u, q)
<1>1. NoSkip(r) => Skips1(u, q)
  BY DEF Skips1
<1>2. Loops(s, Len(s)) = IF f.t = "fun" THEN 0 ELSE Loops(u, Len(u))
  BY DEF Above
<1>3. ~NoSkip(r) => ~Trapped(s, Len(s)) /\ r.count \in 1..Loops(s, Len(s))
  BY DEF Skips1
<1>4. ~NoSkip(r) => ~Trapped(u, Len(u)) /\ r.count \in 1..Loops(u, Len(u))
  BY <1>2, <1>3 DEF Above
<1> QED
  BY <1>1, <1>4 DEF Skips1

\* Where a function or a trap has been left there is none.
LEMMA NoSkips ==
  ASSUME NEW s, NEW u, NEW f, NEW b, NEW r, Above(u, f, s, b), Skips1(s, r), f.t \in {"fun", "trap"}
  PROVE  NoSkip(r)
<1>1. f.t = "fun" => Loops(s, Len(s)) = 0
  BY DEF Above
<1>2. f.t = "trap" => Trapped(s, Len(s))
  BY DEF Above
<1> QED
  BY <1>1, <1>2 DEF Skips1

-----------------------------------------------------------------------------
(* Interrupts that were held back.                                         *)

\* A step that goes on, unless an interrupt comes first.
LEMMA ResumedSound ==
  ASSUME NEW c, NEW s, NEW r, NEW c2, NEW s2, NEW r2, NEW b, Resumed(c, s, r, c2, s2, r2),
         Sound(c, s, r, b), c.go # "halt"
  PROVE  Sound(c2, s2, r2, b)
<1>1. CASE r.intp /\ r.supp = 0
  <2>1. Interrupted(r, c2, r2) /\ s2 = s
    BY <1>1 DEF Resumed, Interrupted
  <2> QED
    BY <2>1, InterruptSound
<1>2. CASE ~(r.intp /\ r.supp = 0)
  BY <1>2 DEF Resumed
<1> QED
  BY <1>1, <1>2

\* FORCEINTON turns interrupts on.
LEMMA ForcedSound ==
  ASSUME NEW c, NEW s, NEW r, NEW b, FORCEINTON(c, s, r), Sound(c, s, r, b), c.go # "halt"
  PROVE  Sound(ctl', k', reg', b)
<1> DEFINE q == [r EXCEPT !.supp = 0]
<1>1. RegOK(r)
  BY DEF Sound
<1>2. Alike(r, q) /\ q.skip = r.skip /\ q.count = r.count /\ q.exc = r.exc
  BY <1>1 DEF Alike, RegOK
<1> HIDE DEF q
<1>3. Resume(c, s, q)
  BY DEF FORCEINTON, q
<1>4. Resumed(c, s, q, ctl', k', reg')
  BY <1>3 DEF Resume, onint, Step, Resumed
<1>5. Sound(c, s, q, b)
  BY <1>2, AlikeSound
<1> QED
  BY <1>4, <1>5, ResumedSound

\* INTON may.
LEMMA OnSound ==
  ASSUME NEW c, NEW s, NEW r, NEW b, INTON(c, s, r), Sound(c, s, r, b), c.go # "halt"
  PROVE  Sound(ctl', k', reg', b)
<1> DEFINE q == [r EXCEPT !.supp = @ - 1]
<1>1. RegOK(r)
  BY DEF Sound
<1>2. Alike(r, q) /\ q.skip = r.skip /\ q.count = r.count /\ q.exc = r.exc
  BY <1>1 DEF Alike, RegOK
<1> HIDE DEF q
<1>3. Resume(c, s, q)
  BY DEF INTON, q
<1>4. Resumed(c, s, q, ctl', k', reg')
  BY <1>3 DEF Resume, onint, Step, Resumed
<1>5. Sound(c, s, q, b)
  BY <1>2, AlikeSound
<1> QED
  BY <1>4, <1>5, ResumedSound

-----------------------------------------------------------------------------
(* What the invariant says to an action.                                   *)

\* The processes that wait begin where they say.
LEMMA HereIs ==
  ASSUME Inv
  PROVE  /\ Here \in Nat /\ Here > 0 /\ Len(parents) \in Nat
         /\ parents = <<>> => Here = 1 /\ Len(parents) = 0
         /\ \A j \in 1..Len(parents) : Bottomed(parents[j].k) /\ Len(parents[j].k) \in Nat
         /\ \A j \in 1..(Len(parents) + 1) :
              Start(parents, j) \in Nat /\ Start(parents, j) > 0
<1>1. Len(parents) \in Nat
  BY StackShape DEF Inv, AllWait
<1>2. ASSUME NEW j \in 1..Len(parents)
      PROVE  Bottomed(parents[j].k) /\ Len(parents[j].k) \in Nat
  <2>1. Stacked(parents[j].k, parents[j].reg.handler)
    BY DEF Inv, AllWait, Waiting
  <2>2. parents[j].k[1].t = "top"
    BY <2>1, AtBottom
  <2> QED
    BY <2>1, <2>2, StackShape DEF Bottomed, Stacked
<1>3. ASSUME NEW j \in 1..(Len(parents) + 1)
      PROVE  Start(parents, j) \in Nat /\ Start(parents, j) > 0
  <2>1. j # 1 => j - 1 \in 1..Len(parents)
    BY <1>1
  <2>2. j # 1 => Len(parents[j - 1].k) \in Nat
    BY <1>2, <2>1
  <2> QED
    BY <2>2 DEF Start
<1>4. Len(parents) + 1 \in 1..(Len(parents) + 1)
  BY <1>1
<1>5. parents = <<>> => Here = 1 /\ Len(parents) = 0
  BY DEF Here, Start
<1> QED
  BY <1>1, <1>2, <1>3, <1>4, <1>5 DEF Here

\* The process that runs.
LEMMA AtSound ==
  ASSUME Inv, FrameInv
  PROVE  /\ Sound(ctl, k, reg, Here) /\ Here \in Nat /\ Here > 0
         /\ ctl.go # "halt" => Bottomed(k) /\ Len(k) \in Nat /\ Len(k) > 0
<1>1. Sound(ctl, k, reg, Here)
  BY DEF FrameInv
<1>2. ASSUME ctl.go # "halt"
      PROVE  Bottomed(k) /\ Len(k) \in Nat /\ Len(k) > 0
  <2>1. Stacked(k, reg.handler)
    BY <1>2 DEF Inv, Running
  <2>2. k[1].t = "top"
    BY <2>1, AtBottom
  <2> QED
    BY <2>1, <2>2, StackShape DEF Bottomed, Stacked
<1> QED
  BY <1>1, <1>2, HereIs

\* A step of that process leaves the others alone.
LEMMA SameParents ==
  ASSUME FrameInv, prog' = prog, parents' = parents, Sound(ctl', k', reg', Here)
  PROVE  FrameInv'
<1>1. Here' = Here
  BY DEF Here, Start
<1>2. \A j : Start(parents, j)' = Start(parents, j)
  BY DEF Start
<1> QED
  BY <1>1, <1>2 DEF FrameInv

\* A part of a node may be evaluated where the node may.
LEMMA PartAllowed ==
  ASSUME TameScripts, NEW s, NEW m, NEW n, Allowed(s, m, n), NEW p \in Parts(n)
  PROVE  Allowed(s, m, p) /\ (n \in Errorless => p \in Errorless)
<1>1. /\ n \in Trees /\ IsNode(n, Trees)
      /\ Closed(Recoverable) /\ Closed(Errorless) /\ Closed(Steady)
  BY DEF TameScripts, Tame, Allowed
<1>2. p \in Trees
  <2>1. \A q : q \in Seq(Trees) => ToSet(q) \subseteq Trees
    BY LenProperties DEF ToSet
  <2>2. CASE n.t \in {"and", "or", "seq", "if", "while"}
    BY <1>1, <2>2 DEF IsNode, Parts
  <2>3. CASE n.t \in {"not", "for", "redir"}
    BY <1>1, <2>3 DEF IsNode, Parts
  <2>4. CASE n.t = "fork"
    <3>1. Parts(n) = ToSet(n.list) /\ n.list \in Seq(Trees)
      BY <1>1, <2>4 DEF IsNode, Parts
    <3> QED
      BY <2>1, <3>1
  <2>5. CASE n.t = "cmd"
    <3>1. Parts(n) = IF n.c \in Texts \cup {"fun"} THEN ToSet(n.b) ELSE {}
      BY <2>5 DEF Parts
    <3>2. n.c \in Texts \cup {"fun"} => n.b \in Seq(Trees)
      BY <1>1, <2>5 DEF IsNode
    <3> QED
      BY <2>1, <3>1, <3>2
  <2> QED
    BY <1>1, <2>2, <2>3, <2>4, <2>5 DEF IsNode
<1> QED
  BY <1>1, <1>2 DEF Allowed, Closed

\* What loops and children of command eval have is without errors.
LEMMA ExposingNode ==
  ASSUME TameScripts, NEW s, NEW m, NEW n, Allowed(s, m, n), n.t \in {"while", "for", "fork"},
         Recovering(s, m)
  PROVE  n \in Errorless
BY DEF TameScripts, Tame, Allowed

\* A node that may be evaluated below a frame may be evaluated above it.
LEMMA StillAllowed ==
  ASSUME NEW s, NEW f, NEW u, NEW b, Above(s, f, u, b), NEW n, Allowed(s, Len(s), n),
         Catcher(f) => n \in Recoverable, f.t = "trap" => n \in Steady,
         f.t \in Exposing /\ Recovering(s, Len(s)) => n \in Errorless
  PROVE  Allowed(u, Len(u), n)
BY DEF Above, Allowed

\* A status, or an input that can be read.
LEMMA AtReturn ==
  ASSUME Inv, FrameInv, ctl.go \in {"ret", "leave", "next"}, ctl.go = "ret" => Last(k).t # "cmd"
  PROVE  /\ Settled(k, reg, Here) /\ Skips1(k, reg) /\ RegOK(reg) /\ ControlOK(ctl)
         /\ ctl.go = "next" => NoSkip(reg)
         /\ ctl.go # "next" => ctl.st \in Nat
<1>1. /\ Sound(ctl, k, reg, Here) /\ Here \in Nat /\ Here > 0
      /\ Bottomed(k) /\ Len(k) \in Nat /\ Len(k) > 0
  BY AtSound
<1>2. Onward(ctl, k, reg, Here)
  BY <1>1 DEF Sound
<1>3. Here <= Len(k)
  BY <1>1, <1>2 DEF Onward
<1>4. Settled(k, reg, Here)
  BY <1>1, <1>2, <1>3 DEF Sound, Onward, Settled
<1>5. Skips1(k, reg) /\ (ctl.go = "next" => NoSkip(reg))
  BY <1>2 DEF Onward, Skips1
<1>6. ControlOK(ctl)
  BY <1>1 DEF Sound
<1>7. ctl.go # "next" => ctl.st \in Nat
  BY <1>6 DEF ControlOK
<1> QED
  BY <1>4, <1>5, <1>6, <1>7 DEF Settled

\* A node is entered: evaltree has a frame, which is the first of a child.
LEMMA TreePushed ==
  ASSUME Inv, FrameInv, Entering, NEW ce
  PROVE  /\ Ready(Append(k, Tree(ce)), reg, ctl.n, ctl.fl, Here)
         /\ Above(k, Tree(ce), Append(k, Tree(ce)), Here)
<1> DEFINE s == Append(k, Tree(ce))
           f == Tree(ce)
           b == Here
<1>1. ctl.go \in {"eval", "enter"}
  BY DEF Entering
<1>2. /\ Sound(ctl, k, reg, b) /\ b \in Nat /\ b > 0
      /\ Bottomed(k) /\ Len(k) \in Nat /\ Len(k) > 0
  BY <1>1, AtSound
<1>3. f.t = "tree" /\ f.fl = ctl.fl
  BY DEF Tree
<1> HIDE DEF f, b, s
<1>4. /\ Exact(k, reg) /\ Marks(k, reg, b) /\ NoSkip(reg) /\ Evaluates(k, ctl, b)
      /\ Len(k) >= b \/ (Len(k) = b - 1 /\ "exit" \in ctl.fl)
  BY <1>1, <1>2 DEF Sound, Onward
<1>5. b <= Len(k) + 1
  BY <1>2, <1>4
<1>6. Placed(k, b, reg.exited, Len(k), f)
  <2>1. FrameOK(f) /\ NodesOf(f) = {}
    BY <1>3 DEF FrameOK, NodesOf, Composed
  <2>2. "exit" \in ctl.fl => b > 1 /\ OnlyTrees(k, b, Len(k))
    BY <1>4 DEF Evaluates
  <2>3. Len(k) + 1 = b => "exit" \in ctl.fl
    BY <1>2, <1>4
  <2>4. Len(k) + 2 # b
    BY <1>2, <1>5
  <2> QED
    BY <1>3, <2>1, <2>2, <2>3, <2>4 DEF Placed
<1>7. s = Append(k, f)
  BY DEF s, f
<1>8. Above(k, f, s, b)
  BY <1>2, <1>5, <1>7, PushAbove
<1>9. RegOK(reg) /\ (reg.root <=> b = 1) /\ (b > 1 => ~reg.pend) /\ Good(k, b, reg.exited)
  BY <1>1, <1>2 DEF Sound
<1>10. Good(s, b, reg.exited)
  BY <1>2, <1>6, <1>7, <1>9, PushGood
<1>11. Exact(s, reg) /\ Marks(s, reg, b)
  BY <1>3, <1>4, <1>8 DEF Above, Exact, Marks
<1>12. Len(s) \in Nat /\ b <= Len(s) /\ Bottomed(s)
  BY <1>2, <1>5, <1>8 DEF Above
<1>13. Settled(s, reg, b)
  BY <1>2, <1>9, <1>10, <1>11, <1>12 DEF Settled
<1>14. Allowed(k, Len(k), ctl.n) /\ ~Catcher(f) /\ f.t \notin Exposing
  BY <1>3, <1>4 DEF Evaluates, Catcher, Exposing
<1>15. Allowed(s, Len(s), ctl.n)
  BY <1>3, <1>8, <1>14, StillAllowed
<1>16. "exit" \in ctl.fl => b > 1 /\ OnlyTrees(s, b, Len(s))
  BY <1>3, <1>4, <1>8 DEF Evaluates, Above
<1>17. Ready(s, reg, ctl.n, ctl.fl, b)
  BY <1>4, <1>13, <1>15, <1>16 DEF Ready
<1> QED
  BY <1>8, <1>17 DEF s, f, b

\* A node is evaluated above a frame that is pushed.
LEMMA AboveSound ==
  ASSUME NEW s, NEW r, NEW b, NEW f, NEW q, NEW n, NEW fl, Settled(s, r, b),
         Placed(s, b, r.exited, Len(s), f), Counts(f, r, q), NoSkip(q), "exit" \notin fl,
         Allowed(s, Len(s), n), f.t \notin {"cmd", "trap"},
         f.t \in Exposing /\ Recovering(s, Len(s)) => n \in Errorless
  PROVE  Sound(Eval(n, fl), Append(s, f), q, b)
<1> DEFINE u == Append(s, f)
<1>1. Settled(u, q, b) /\ Above(s, f, u, b)
  BY PushSettled
<1> HIDE DEF u
<1>2. ~Catcher(f)
  BY DEF Catcher
<1>3. Allowed(u, Len(u), n)
  BY <1>1, <1>2, StillAllowed
<1>4. Ready(u, q, n, fl, b)
  BY <1>1, <1>3 DEF Ready
<1>5. Sound(Eval(n, fl), u, q, b)
  BY <1>4, EvalSound
<1> QED
  BY <1>5 DEF u

\* Two frames are pushed, as Into does.
LEMMA IntoSound ==
  ASSUME Inv, FrameInv, Entering, NEW f, NEW q, NEW n, NEW fl,
         Placed(Append(k, Tree(FALSE)), Here, reg.exited, Len(Append(k, Tree(FALSE))), f),
         Counts(f, reg, q), NoSkip(q), "exit" \notin fl, f.t \notin {"cmd", "trap"},
         Allowed(Append(k, Tree(FALSE)), Len(Append(k, Tree(FALSE))), n),
         f.t \in Exposing /\ Recovering(Append(k, Tree(FALSE)), Len(Append(k, Tree(FALSE))))
           => n \in Errorless,
         Into(f, n, fl, q)
  PROVE  Sound(ctl', k', reg', Here)
<1> DEFINE s == Append(k, Tree(FALSE))
<1>1. Settled(s, reg, Here)
  BY TreePushed DEF Ready
<1>2. IsStack(k)
  BY AtNode DEF Stacked
<1>3. k \o <<Tree(FALSE), f>> = Append(s, f)
  <2>1. \A e : k \o <<e, f>> = Append(Append(k, e), f)
    BY ONLY <1>2, OneByOne
  <2> QED
    BY <2>1
<1>4. ctl' = Eval(n, fl) /\ k' = Append(s, f) /\ reg' = q
  BY <1>3 DEF Into, Step
<1>5. /\ Placed(s, Here, reg.exited, Len(s), f)
      /\ Allowed(s, Len(s), n)
      /\ f.t \in Exposing /\ Recovering(s, Len(s)) => n \in Errorless
  OBVIOUS
<1> HIDE DEF s
<1>6. Sound(Eval(n, fl), Append(s, f), q, Here)
  BY <1>1, <1>5, AboveSound
<1> QED
  BY <1>4, <1>6

\* The top frame is given up and the status is kept or changed.
LEMMA PopRet ==
  ASSUME NEW s, NEW r, NEW b, NEW q, Settled(s, r, b), Skips1(s, r),
         Last(s).t \notin {"top", "cmd", "while", "for"},
         Last(s).t = "tree" => "exit" \notin Last(s).fl, GivesUp(Last(s), r, q),
         NoSkip(r) => NoSkip(q), q.count = r.count
  PROVE  Settled(Front(s), q, b) /\ Skips1(Front(s), q)
<1>1. Settled(Front(s), q, b) /\ Above(Front(s), Last(s), s, b)
  BY PopSettled
<1>2. Skips1(Front(s), q)
  BY <1>1, PopSkips
<1> QED
  BY <1>1, <1>2

-----------------------------------------------------------------------------
(* The frames: evaltree and loops.                                         *)

\* Tested keeps no order to exit.
LEMMA NoExit ==
  ASSUME NEW fl
  PROVE  "exit" \notin Tested(fl)
BY DEF Tested

\* The composed commands, entered,
LEMMA EnterMatches ==
  ASSUME TameScripts, Inv, FrameInv, Enter
  PROVE  Sound(ctl', k', reg', Here)
<1> DEFINE s == Append(k, Tree(FALSE))
           f == [t |-> ctl.n.t, n |-> ctl.n, fl |-> ctl.fl]
           fl == IF ctl.n.t = "seq" THEN Tested(ctl.fl) ELSE {"tested"}
<1>1. Entering /\ ctl.n.t \in {"not", "and", "or", "seq", "if"} /\ Into(f, ctl.n.a, fl, reg)
  BY DEF Enter
<1>2. Ready(s, reg, ctl.n, ctl.fl, Here)
  BY <1>1, TreePushed
<1>3. f.t = ctl.n.t /\ f.n = ctl.n /\ f.fl = ctl.fl /\ {"n", "fl"} \subseteq DOMAIN f
  OBVIOUS
<1>4. "exit" \notin fl
  BY NoExit
<1> HIDE DEF f, fl, s
<1>5. /\ Allowed(s, Len(s), ctl.n) /\ Settled(s, reg, Here) /\ NoSkip(reg)
      /\ "exit" \in ctl.fl => Here > 1 /\ OnlyTrees(s, Here, Len(s))
  BY <1>2 DEF Ready
<1>6. Here \in Nat /\ Here <= Len(s) /\ Len(s) \in Nat /\ RegOK(reg)
  BY <1>5 DEF Settled
<1>7. Placed(s, Here, reg.exited, Len(s), f)
  <2>1. FrameOK(f)
    BY <1>1, <1>3, <1>5 DEF FrameOK, Allowed
  <2>2. NodesOf(f) = {ctl.n} /\ f.t \notin Exposing
    BY <1>1, <1>3 DEF NodesOf, Composed, Exposing
  <2>3. Len(s) + 1 # Here /\ Len(s) + 2 # Here
    BY <1>6
  <2> QED
    BY <1>1, <1>3, <1>5, <2>1, <2>2, <2>3 DEF Placed
<1>8. Counts(f, reg, reg)
  <2>1. \A x \in Int : x + 0 = x
    OBVIOUS
  <2>2. f.t \notin {"fun", "while", "for", "trap", "str", "file", "redir", "cmd"}
    BY <1>1, <1>3
  <2> QED
    BY <1>6, <2>1, <2>2 DEF Counts, RegOK
<1>9. ctl.n.a \in Parts(ctl.n)
  BY <1>1 DEF Parts
<1>10. Allowed(s, Len(s), ctl.n.a)
  BY <1>5, <1>9, PartAllowed
<1>11. f.t \notin {"cmd", "trap"} /\ f.t \notin Exposing
  BY <1>1, <1>3 DEF Exposing
<1> QED
  BY <1>1, <1>4, <1>5, <1>7, <1>8, <1>10, <1>11, IntoSound DEF s

\* and gone on with: the registers are as they were.
LEMMA SameGivesUp ==
  ASSUME NEW f, NEW r, RegOK(r), f.t \notin {"fun", "while", "for", "trap", "str", "file", "redir"}
  PROVE  GivesUp(f, r, r)
BY DEF GivesUp, RegOK

\* !.
LEMMA NotMatches ==
  ASSUME Inv, FrameInv, Not
  PROVE  Sound(ctl', k', reg', Here)
<1>1. ctl.go = "ret" /\ Last(k).t = "not"
  BY DEF Not, Frame, Top
<1>2. Settled(k, reg, Here) /\ Skips1(k, reg) /\ RegOK(reg) /\ ctl.st \in Nat
  BY <1>1, AtReturn
<1>3. GivesUp(Last(k), reg, reg)
  BY <1>1, <1>2, SameGivesUp
<1>4. Settled(Front(k), reg, Here) /\ Skips1(Front(k), reg)
  BY <1>1, <1>2, <1>3, PopRet
<1>5. PICK st \in Nat : ctl' = Ret(st) /\ k' = Front(k) /\ reg' = reg
  BY <1>2 DEF Not, Step
<1> QED
  BY <1>4, <1>5, RetSound

\* The second part of a list, or of if.
LEMMA SecondPart ==
  ASSUME TameScripts, NEW s, NEW r, NEW b, Settled(s, r, b), NoSkip(r),
         Last(s).t \in {"and", "or", "seq", "if"}
  PROVE  Sound(Eval(Last(s).n.b, Last(s).fl), Front(s), r, b)
<1> DEFINE u == Front(s)
           f == Last(s)
<1>1. RegOK(r) /\ b \in Nat
  BY DEF Settled
<1>2. GivesUp(f, r, r)
  BY <1>1, SameGivesUp
<1>3. Settled(u, r, b) /\ Placed(u, b, r.exited, Len(u), f)
  BY <1>2, PopSettled
<1>4. f.t \in {"and", "or", "seq", "if"}
  OBVIOUS
<1> HIDE DEF u, f
<1>5. f.n.t = f.t /\ f.n \in NodesOf(f)
  BY <1>3, <1>4 DEF Placed, FrameOK, Composed, NodesOf
<1>6. Allowed(u, Len(u), f.n)
  BY <1>3, <1>5 DEF Placed
<1>7. f.n.b \in Parts(f.n)
  BY <1>4, <1>5 DEF Parts
<1>8. Allowed(u, Len(u), f.n.b)
  BY <1>6, <1>7, PartAllowed
<1>9. Len(u) + 1 >= b
  BY <1>3 DEF Settled
<1>10. "exit" \in f.fl => b > 1 /\ OnlyTrees(u, b, Len(u))
  BY <1>3, <1>4, <1>9 DEF Placed
<1>11. Ready(u, r, f.n.b, f.fl, b)
  BY <1>3, <1>8, <1>10 DEF Ready
<1>12. Sound(Eval(f.n.b, f.fl), u, r, b)
  BY <1>11, EvalSound
<1> QED
  BY <1>12 DEF u, f

\* ;, && and ||.
LEMMA BinaryMatches ==
  ASSUME TameScripts, Inv, FrameInv, Binary
  PROVE  Sound(ctl', k', reg', Here)
<1>1. ctl.go = "ret" /\ Last(k).t \in {"and", "or", "seq"}
  BY DEF Binary, Frame, Top
<1>2. Settled(k, reg, Here) /\ Skips1(k, reg) /\ RegOK(reg) /\ ControlOK(ctl)
  BY <1>1, AtReturn
<1>3. \/ ctl' = ctl /\ k' = Front(k) /\ reg' = reg
      \/ /\ ctl' = Eval(Last(k).n.b, Last(k).fl) /\ k' = Front(k) /\ reg' = reg
         /\ reg.skip = "none"
  BY DEF Binary, Step, Top
<1>4. CASE ctl' = ctl /\ k' = Front(k) /\ reg' = reg
  <2>1. GivesUp(Last(k), reg, reg)
    BY <1>1, <1>2, SameGivesUp
  <2>2. Settled(Front(k), reg, Here) /\ Skips1(Front(k), reg)
    BY <1>1, <1>2, <2>1, PopRet
  <2> QED
    BY <1>1, <1>2, <1>4, <2>2, SameRetSound
<1>5. CASE /\ ctl' = Eval(Last(k).n.b, Last(k).fl) /\ k' = Front(k) /\ reg' = reg
           /\ reg.skip = "none"
  <2>1. NoSkip(reg)
    BY <1>5 DEF NoSkip
  <2> QED
    BY <1>1, <1>2, <1>5, <2>1, SecondPart
<1> QED
  BY <1>3, <1>4, <1>5

\* if.
LEMMA IfMatches ==
  ASSUME TameScripts, Inv, FrameInv, If
  PROVE  Sound(ctl', k', reg', Here)
<1>1. ctl.go = "ret" /\ Last(k).t = "if"
  BY DEF If, Frame, Top
<1>2. Settled(k, reg, Here) /\ Skips1(k, reg) /\ RegOK(reg) /\ ControlOK(ctl)
  BY <1>1, AtReturn
<1>3. k' = Front(k) /\ reg' = reg
  BY DEF If, Step
<1>4. \/ ctl' = ctl \/ ctl' = Ret(0)
      \/ ctl' = Eval(Last(k).n.b, Last(k).fl) /\ reg.skip = "none"
  BY DEF If, Step, Top
<1>5. Settled(Front(k), reg, Here) /\ Skips1(Front(k), reg)
  <2>1. GivesUp(Last(k), reg, reg)
    BY <1>1, <1>2, SameGivesUp
  <2> QED
    BY <1>1, <1>2, <2>1, PopRet
<1>6. CASE ctl' = ctl
  BY <1>1, <1>2, <1>3, <1>5, <1>6, SameRetSound
<1>7. CASE ctl' = Ret(0)
  <2>1. Sound(Ret(0), Front(k), reg, Here)
    BY <1>5, RetSound
  <2> QED
    BY <1>3, <1>7, <2>1
<1>8. CASE ctl' = Eval(Last(k).n.b, Last(k).fl) /\ reg.skip = "none"
  <2>1. NoSkip(reg)
    BY <1>8 DEF NoSkip
  <2> QED
    BY <1>1, <1>2, <1>3, <1>8, <2>1, SecondPart
<1> QED
  BY <1>4, <1>6, <1>7, <1>8

\* An exception that is no error may find what it will.
LEMMA RaiseSound ==
  ASSUME NEW s, NEW r, NEW b, NEW e, RegOK(r), r.root <=> b = 1, b > 1 => ~r.pend,
         Good(s, b, r.exited), e # "ERROR", NEW c, NEW q, c = [go |-> "throw"], q = Raised(e, r)
  PROVE  Sound(c, s, q, b)
<1>1. RegOK(q) /\ q.root = r.root /\ q.pend = r.pend /\ q.exited = r.exited /\ q.exc = e
  BY DEF RegOK, Raised
<1>2. Thrown(s, q, b)
  BY <1>1 DEF Thrown
<1> QED
  BY <1>1, <1>2, ThrowSound

\* evaltree returns, or ends the shell.
LEMMA LeaveMatches ==
  ASSUME Inv, FrameInv, Leave
  PROVE  Sound(ctl', k', reg', Here)
<1>1. ctl.go \in {"ret", "leave"} /\ Last(k).t = "tree"
  BY DEF Leave, Frame, Top, Inv, Running
<1>2. Settled(k, reg, Here) /\ Skips1(k, reg) /\ RegOK(reg) /\ ctl.st \in Nat
  BY <1>1, AtReturn
<1> DEFINE r == IF ctl.go = "leave" THEN reg ELSE [reg EXCEPT !.exit = ctl.st]
<1>3. Alike(reg, r) /\ r.skip = reg.skip /\ r.count = reg.count /\ r.exit \in Nat
  BY <1>2 DEF Alike, RegOK
<1>4. \/ ctl' = [go |-> "throw"] /\ k' = k /\ reg' = Raised("END", r)
      \/ /\ ctl' = Ret(r.exit) /\ k' = Front(k) /\ reg' = r
         /\ "exit" \notin Last(k).fl
  BY DEF Leave, exraise, Step, Top
<1> HIDE DEF r
<1>5. Settled(k, r, Here) /\ Skips1(k, r)
  BY <1>2, <1>3, AlikeSettled DEF Skips1, NoSkip
<1>6. CASE ctl' = [go |-> "throw"] /\ k' = k /\ reg' = Raised("END", r)
  <2>1. /\ RegOK(r) /\ (r.root <=> Here = 1) /\ (Here > 1 => ~r.pend)
        /\ Good(k, Here, r.exited) /\ "END" # "ERROR"
    BY <1>5 DEF Settled
  <2> QED
    BY <1>6, <2>1, RaiseSound
<1>7. CASE /\ ctl' = Ret(r.exit) /\ k' = Front(k) /\ reg' = r
           /\ "exit" \notin Last(k).fl
  <2>1. RegOK(r)
    BY <1>5 DEF Settled
  <2>2. GivesUp(Last(k), r, r)
    BY <1>1, <2>1, SameGivesUp
  <2>3. Settled(Front(k), r, Here) /\ Skips1(Front(k), r)
    BY <1>1, <1>5, <1>7, <2>2, PopRet
  <2> QED
    BY <1>3, <1>7, <2>3, RetSound
<1> QED
  BY <1>4, <1>6, <1>7

\* A loop begins.
LEMMA EnterLoopMatches ==
  ASSUME TameScripts, Inv, FrameInv, EnterLoop
  PROVE  Sound(ctl', k', reg', Here)
<1> DEFINE s == Append(k, Tree(FALSE))
           r == [reg EXCEPT !.nest = @ + 1]
           g == [t |-> "while", n |-> ctl.n, fl |-> Tested(ctl.fl), st |-> 0, part |-> "test"]
           h == [t |-> "for", n |-> ctl.n, fl |-> Tested(ctl.fl), left |-> 1]
<1>1. Entering /\ ctl.n.t \in {"while", "for"}
  BY DEF EnterLoop
<1>2. Ready(s, reg, ctl.n, ctl.fl, Here)
  BY <1>1, TreePushed
<1>3. PICK f, fl : /\ f = IF ctl.n.t = "while" THEN g ELSE h
                   /\ Into(f, ctl.n.a, fl, r) /\ fl \in {Tested(ctl.fl), {"tested"}}
  BY DEF EnterLoop
<1>4. /\ f.t = ctl.n.t /\ f.n = ctl.n /\ f.fl = Tested(ctl.fl)
      /\ {"t", "n", "fl"} \subseteq DOMAIN f
      /\ f.t = "while" => {"st", "part"} \subseteq DOMAIN f /\ f.st = 0
      /\ f.t = "for" => "left" \in DOMAIN f
  <2>1. CASE ctl.n.t = "while"
    BY <1>3, <2>1
  <2>2. CASE ctl.n.t = "for"
    BY <1>3, <2>2
  <2> QED
    BY <1>1, <2>1, <2>2
<1>5. "exit" \notin fl /\ "exit" \notin f.fl
  BY <1>3, <1>4, NoExit
<1>6. /\ Allowed(s, Len(s), ctl.n) /\ Settled(s, reg, Here) /\ NoSkip(reg)
  BY <1>2 DEF Ready
<1>7. Here \in Nat /\ Here <= Len(s) /\ Len(s) \in Nat /\ RegOK(reg)
  BY <1>6 DEF Settled
<1>8. Counts(f, reg, r) /\ NoSkip(r)
  BY <1>1, <1>4, <1>6, <1>7 DEF Counts, RegOK, NoSkip
<1> HIDE DEF g, h, s, r
<1>9. Recovering(s, Len(s)) => ctl.n \in Errorless
  BY <1>1, <1>6, ExposingNode
<1>10. Placed(s, Here, reg.exited, Len(s), f)
  <2>1. FrameOK(f)
    BY <1>1, <1>4, <1>6 DEF FrameOK, Allowed
  <2>2. NodesOf(f) = {ctl.n}
    BY <1>1, <1>4 DEF NodesOf, Composed
  <2>3. Len(s) + 1 # Here /\ Len(s) + 2 # Here
    BY <1>7
  <2> QED
    BY <1>1, <1>4, <1>5, <1>6, <1>9, <2>1, <2>2, <2>3 DEF Placed
<1>11. ctl.n.a \in Parts(ctl.n)
  BY <1>1 DEF Parts
<1>12. Allowed(s, Len(s), ctl.n.a) /\ (Recovering(s, Len(s)) => ctl.n.a \in Errorless)
  BY <1>6, <1>9, <1>11, PartAllowed
<1>13. f.t \notin {"cmd", "trap"}
  BY <1>1, <1>4
<1> QED
  BY <1>1, <1>3, <1>5, <1>8, <1>10, <1>12, <1>13, IntoSound DEF s

\* What skiploop makes of a skip: one loop less is left to end.
LEMMA SkiploopCounts ==
  ASSUME RegOK(reg), Skips1(k, reg), Loops(k, Len(k)) \in Nat
  PROVE  /\ RegOK(skiploop) /\ skiploop.root = reg.root /\ skiploop.exited = reg.exited
         /\ skiploop.pend = reg.pend /\ skiploop.nest = reg.nest /\ skiploop.files = reg.files
         /\ skiploop.redirs = reg.redirs /\ skiploop.locals = reg.locals
         /\ skiploop.saved = reg.saved
         /\ NoSkip(skiploop) \/ (~Trapped(k, Len(k)) /\ skiploop.count \in 1..(Loops(k, Len(k)) - 1))
         /\ Skipping \notin {"break", "func", "funcdef"} => NoSkip(skiploop)
<1>1. CASE NoSkip(reg)
  <2>1. skiploop = reg
    BY <1>1 DEF skiploop, NoSkip
  <2> QED
    BY <1>1, <2>1
<1>2. CASE ~NoSkip(reg)
  <2> DEFINE q == [reg EXCEPT !.count = @ - 1, !.skip = IF LastLevel THEN "none" ELSE @]
  <2>1. skiploop = q
    BY <1>2 DEF skiploop, NoSkip
  <2>2. /\ RegOK(q) /\ q.root = reg.root /\ q.exited = reg.exited
        /\ q.pend = reg.pend /\ q.nest = reg.nest /\ q.files = reg.files
        /\ q.redirs = reg.redirs /\ q.locals = reg.locals /\ q.saved = reg.saved
        /\ q.count = reg.count - 1 /\ q.skip = IF LastLevel THEN "none" ELSE reg.skip
    BY DEF RegOK
  <2> HIDE DEF q
  <2>3. LastLevel <=> reg.count <= 1
    BY <1>2 DEF LastLevel, NoSkip
  <2>4. ~Trapped(k, Len(k)) /\ reg.count \in 1..Loops(k, Len(k))
    BY <1>2 DEF Skips1
  <2>5. CASE LastLevel
    <3>1. NoSkip(q)
      BY <2>2, <2>5 DEF NoSkip
    <3> QED
      BY <2>1, <2>2, <3>1
  <2>6. CASE ~LastLevel
    <3>1. q.count \in 1..(Loops(k, Len(k)) - 1)
      BY <2>2, <2>3, <2>4, <2>6
    <3>2. Skipping = "break"
      BY <1>2, <2>6 DEF Skipping, NoSkip
    <3> QED
      BY <2>1, <2>2, <2>4, <3>1, <3>2
  <2> QED
    BY <2>5, <2>6
<1> QED
  BY <1>1, <1>2

\* A loop is left.
LEMMA LoopOverSound ==
  ASSUME NEW b, NEW st \in Nat, Settled(k, reg, b), Skips1(k, reg), Last(k).t \in {"while", "for"},
         LoopOver(st, skiploop)
  PROVE  Sound(ctl', k', reg', b)
<1> DEFINE f == Last(k)
           u == Front(k)
           r == skiploop
           q == [r EXCEPT !.nest = @ - 1]
<1>1. RegOK(reg) /\ Loops(k, Len(k)) \in Nat
  <2>1. Len(k) \in Nat
    BY DEF Settled
  <2> QED
    BY <2>1, FunIs DEF Settled
<1>2. /\ RegOK(r) /\ r.root = reg.root /\ r.exited = reg.exited
      /\ r.pend = reg.pend /\ r.nest = reg.nest /\ r.files = reg.files
      /\ r.redirs = reg.redirs /\ r.locals = reg.locals /\ r.saved = reg.saved
      /\ NoSkip(r) \/ (~Trapped(k, Len(k)) /\ r.count \in 1..(Loops(k, Len(k)) - 1))
  BY <1>1, SkiploopCounts
<1>3. ctl' = Ret(st) /\ k' = u /\ reg' = q
  BY DEF LoopOver, Step
<1>4. f.t \in {"while", "for"}
  OBVIOUS
<1> HIDE DEF f, u, r
<1>5. GivesUp(f, reg, q) /\ q.skip = r.skip /\ q.count = r.count
  BY <1>1, <1>2, <1>4 DEF GivesUp, RegOK
<1> HIDE DEF q
<1>6. Settled(u, q, b) /\ Above(u, f, k, b)
  BY <1>4, <1>5, PopSettled DEF f, u
<1>7. Skips1(u, q)
  <2>1. /\ Loops(k, Len(k)) = Loops(u, Len(u)) + 1 /\ Loops(u, Len(u)) \in Nat
        /\ ~Trapped(k, Len(k)) => ~Trapped(u, Len(u))
    BY <1>4, <1>6 DEF Above
  <2>2. CASE NoSkip(r)
    BY <1>5, <2>2 DEF NoSkip, Skips1
  <2>3. CASE ~Trapped(k, Len(k)) /\ r.count \in 1..(Loops(k, Len(k)) - 1)
    BY <1>5, <2>1, <2>3 DEF Skips1
  <2> QED
    BY <1>2, <2>2, <2>3
<1> QED
  BY <1>3, <1>6, <1>7, RetSound

\* A loop goes on.
LEMMA LoopOnSound ==
  ASSUME TameScripts, NEW b, Settled(k, reg, b), Skips1(k, reg), NEW f,
         Last(k).t \in {"while", "for"}, FrameOK(f), f.t = Last(k).t, f.n = Last(k).n,
         f.fl = Last(k).fl, Skipping \notin {"break", "func", "funcdef"},
         NEW n \in Parts(f.n), NEW fl, "exit" \notin fl,
         Step(Eval(n, fl), Append(Front(k), f), skiploop)
  PROVE  Sound(ctl', k', reg', b)
<1> DEFINE e == Last(k)
           u == Front(k)
           r == skiploop
           q == [reg EXCEPT !.nest = @ - 1]
<1>1. RegOK(reg) /\ Loops(k, Len(k)) \in Nat /\ b \in Nat
  <2>1. Len(k) \in Nat
    BY DEF Settled
  <2> QED
    BY <2>1, FunIs DEF Settled
<1>2. /\ RegOK(r) /\ r.root = reg.root /\ r.exited = reg.exited
      /\ r.pend = reg.pend /\ r.nest = reg.nest /\ r.files = reg.files
      /\ r.redirs = reg.redirs /\ r.locals = reg.locals /\ r.saved = reg.saved
      /\ NoSkip(r)
  BY <1>1, SkiploopCounts
<1>3. ctl' = Eval(n, fl) /\ k' = Append(u, f) /\ reg' = r
  BY DEF Step
<1>4. e.t \in {"while", "for"} /\ f.t = e.t /\ f.n = e.n /\ f.fl = e.fl
  OBVIOUS
<1> HIDE DEF e, u, r
<1>5. GivesUp(e, reg, q) /\ Counts(f, q, r)
  BY <1>1, <1>2, <1>4 DEF GivesUp, Counts, RegOK
<1>6. q.exited = reg.exited
  OBVIOUS
<1> HIDE DEF q
<1>7. Settled(u, q, b) /\ Placed(u, b, reg.exited, Len(u), e)
  BY <1>4, <1>5, PopSettled DEF e, u
<1>8. NodesOf(f) = {f.n} /\ NodesOf(e) = {e.n} /\ f.t \in Exposing
  BY <1>4 DEF NodesOf, Composed, Exposing
<1>9. Placed(u, b, q.exited, Len(u), f)
  BY <1>4, <1>6, <1>7, <1>8 DEF Placed
<1>10. Allowed(u, Len(u), f.n) /\ (Recovering(u, Len(u)) => f.n \in Errorless)
  BY <1>8, <1>9 DEF Placed
<1>11. Allowed(u, Len(u), n) /\ (Recovering(u, Len(u)) => n \in Errorless)
  BY <1>10, PartAllowed
<1>12. f.t \notin {"cmd", "trap"}
  BY <1>4
<1>13. Sound(Eval(n, fl), Append(u, f), r, b)
  BY <1>2, <1>5, <1>7, <1>9, <1>11, <1>12, AboveSound
<1> QED
  BY <1>3, <1>13

\* The test or the body of while has returned.
LEMMA evalloopMatches ==
  ASSUME TameScripts, Inv, FrameInv, evalloop
  PROVE  Sound(ctl', k', reg', Here)
<1> DEFINE f == Last(k)
           st == IF f.part = "body" \/ Skipping = "func" THEN ctl.st ELSE f.st
           g == [f EXCEPT !.part = "test", !.st = st]
           h == [f EXCEPT !.part = "body"]
<1>1. ctl.go = "ret" /\ f.t = "while"
  BY DEF evalloop, Frame, Top
<1>2. Settled(k, reg, Here) /\ Skips1(k, reg) /\ RegOK(reg) /\ ctl.st \in Nat
  BY <1>1, AtReturn
<1>3. FrameOK(f) /\ "exit" \notin f.fl
  <2>1. GivesUp(f, reg, [reg EXCEPT !.nest = @ - 1])
    BY <1>1, <1>2 DEF GivesUp, RegOK
  <2>2. Placed(Front(k), Here, reg.exited, Len(Front(k)), f)
    BY ONLY <1>1, <1>2, <2>1, PopSettled
  <2> QED
    BY <1>1, <2>2 DEF Placed
<1>4. f.n.t = "while" /\ {"t", "n", "fl", "st", "part"} \subseteq DOMAIN f /\ f.st \in Nat
  BY <1>1, <1>3 DEF FrameOK, Composed
<1>5. st \in Nat
  BY <1>2, <1>4
<1>6. \/ LoopOver(st, skiploop)
      \/ /\ Skipping \notin {"break", "func", "funcdef"}
         /\ Step(Eval(f.n.b, f.fl), Append(Front(k), h), skiploop)
      \/ /\ Skipping \notin {"break", "func", "funcdef"}
         /\ Step(Eval(f.n.a, {"tested"}), Append(Front(k), g), skiploop)
  BY DEF evalloop, Top
<1> HIDE DEF f, st
<1>7. /\ g.t = f.t /\ g.n = f.n /\ g.fl = f.fl /\ FrameOK(g)
      /\ h.t = f.t /\ h.n = f.n /\ h.fl = f.fl /\ FrameOK(h)
  BY <1>1, <1>3, <1>4, <1>5 DEF FrameOK
<1>8. f.n.a \in Parts(f.n) /\ f.n.b \in Parts(f.n)
  BY <1>4 DEF Parts
<1> HIDE DEF g, h
<1>9. CASE LoopOver(st, skiploop)
  BY <1>1, <1>2, <1>5, <1>9, LoopOverSound DEF f
<1>10. CASE /\ Skipping \notin {"break", "func", "funcdef"}
            /\ Step(Eval(f.n.b, f.fl), Append(Front(k), h), skiploop)
  BY <1>1, <1>2, <1>3, <1>7, <1>8, <1>10, LoopOnSound DEF f
<1>11. CASE /\ Skipping \notin {"break", "func", "funcdef"}
            /\ Step(Eval(f.n.a, {"tested"}), Append(Front(k), g), skiploop)
  BY <1>1, <1>2, <1>3, <1>7, <1>8, <1>11, LoopOnSound DEF f
<1> QED
  BY <1>6, <1>9, <1>10, <1>11

\* The body of for has.
LEMMA evalforMatches ==
  ASSUME TameScripts, Inv, FrameInv, evalfor
  PROVE  Sound(ctl', k', reg', Here)
<1> DEFINE f == Last(k)
           g == [f EXCEPT !.left = @ - 1]
<1>1. ctl.go = "ret" /\ f.t = "for"
  BY DEF evalfor, Frame, Top
<1>2. Settled(k, reg, Here) /\ Skips1(k, reg) /\ RegOK(reg) /\ ctl.st \in Nat
  BY <1>1, AtReturn
<1>3. FrameOK(f) /\ "exit" \notin f.fl
  <2>1. GivesUp(f, reg, [reg EXCEPT !.nest = @ - 1])
    BY <1>1, <1>2 DEF GivesUp, RegOK
  <2>2. Placed(Front(k), Here, reg.exited, Len(Front(k)), f)
    BY ONLY <1>1, <1>2, <2>1, PopSettled
  <2> QED
    BY <1>1, <2>2 DEF Placed
<1>4. f.n.t = "for" /\ {"t", "n", "fl", "left"} \subseteq DOMAIN f
  BY <1>1, <1>3 DEF FrameOK, Composed
<1>5. \/ LoopOver(ctl.st, skiploop)
      \/ /\ Skipping \notin {"break", "func", "funcdef"}
         /\ Step(Eval(f.n.a, f.fl), Append(Front(k), g), skiploop)
  BY DEF evalfor, Top
<1> HIDE DEF f
<1>6. g.t = f.t /\ g.n = f.n /\ g.fl = f.fl /\ FrameOK(g)
  BY <1>1, <1>3, <1>4 DEF FrameOK
<1>7. f.n.a \in Parts(f.n)
  BY <1>4 DEF Parts
<1> HIDE DEF g
<1>8. CASE LoopOver(ctl.st, skiploop)
  BY <1>1, <1>2, <1>8, LoopOverSound DEF f
<1>9. CASE /\ Skipping \notin {"break", "func", "funcdef"}
           /\ Step(Eval(f.n.a, f.fl), Append(Front(k), g), skiploop)
  BY <1>1, <1>2, <1>3, <1>6, <1>7, <1>9, LoopOnSound DEF f
<1> QED
  BY <1>5, <1>8, <1>9

-----------------------------------------------------------------------------
(* The frames: redirected compound commands.                               *)

\* Their redirections fail, or are made,
LEMMA EnterRedirMatches ==
  ASSUME TameScripts, Inv, FrameInv, EnterRedir
  PROVE  Sound(ctl', k', reg', Here)
<1>1. Entering /\ ctl.n.t = "redir"
  BY DEF EnterRedir, Node
<1>2. CASE ctl.n.redir = "bad"
  <2> DEFINE s == Append(k, Tree(TRUE))
             q == [reg EXCEPT !.exit = 2]
  <2>1. ctl' = Ret(2) /\ k' = s /\ reg' = q
    BY <1>2 DEF EnterRedir, Step
  <2>2. Ready(s, reg, ctl.n, ctl.fl, Here)
    BY <1>1, TreePushed
  <2> HIDE DEF s
  <2>3. Settled(s, reg, Here) /\ NoSkip(reg) /\ RegOK(reg)
    BY <2>2 DEF Ready, Settled
  <2>4. Alike(reg, q) /\ NoSkip(q)
    BY <2>3 DEF Alike, RegOK, NoSkip
  <2> HIDE DEF q
  <2>5. Settled(s, q, Here) /\ Skips1(s, q)
    BY <2>3, <2>4, AlikeSettled DEF Skips1
  <2>6. Sound(Ret(2), s, q, Here)
    BY <2>5, RetSound
  <2> QED
    BY <2>1, <2>6
<1>3. CASE ctl.n.redir # "bad"
  <2> DEFINE s == Append(k, Tree(FALSE))
             f == [t |-> "redir"]
             q == [reg EXCEPT !.redirs = @ + 1]
  <2>1. Into(f, ctl.n.a, Tested(ctl.fl), q)
    BY <1>3 DEF EnterRedir
  <2>2. Ready(s, reg, ctl.n, ctl.fl, Here)
    BY <1>1, TreePushed
  <2>3. f.t = "redir"
    OBVIOUS
  <2> HIDE DEF s, f
  <2>4. /\ Settled(s, reg, Here) /\ NoSkip(reg) /\ RegOK(reg) /\ Allowed(s, Len(s), ctl.n)
        /\ Here \in Nat /\ Here <= Len(s) /\ Len(s) \in Nat
    BY <2>2 DEF Ready, Settled
  <2>5. Counts(f, reg, q) /\ NoSkip(q)
    BY <2>3, <2>4 DEF Counts, RegOK, NoSkip
  <2> HIDE DEF q
  <2>6. Placed(s, Here, reg.exited, Len(s), f)
    <3>1. FrameOK(f) /\ NodesOf(f) = {}
      BY <2>3 DEF FrameOK, NodesOf, Composed
    <3>2. Len(s) + 1 # Here /\ Len(s) + 2 # Here
      BY <2>4
    <3> QED
      BY <2>3, <3>1, <3>2 DEF Placed
  <2>7. ctl.n.a \in Parts(ctl.n)
    BY <1>1 DEF Parts
  <2>8. Allowed(s, Len(s), ctl.n.a)
    BY <2>4, <2>7, PartAllowed
  <2>9. f.t \notin {"cmd", "trap"} /\ f.t \notin Exposing
    BY <2>3 DEF Exposing
  <2> QED
    BY <1>1, <2>1, <2>5, <2>6, <2>8, <2>9, NoExit, IntoSound DEF s
<1> QED
  BY <1>2, <1>3

\* and undone.
LEMMA popredirMatches ==
  ASSUME Inv, FrameInv, popredir
  PROVE  Sound(ctl', k', reg', Here)
<1> DEFINE q == [reg EXCEPT !.redirs = @ - 1]
<1>1. ctl.go = "ret" /\ Last(k).t = "redir"
  BY DEF popredir, Frame, Top
<1>2. Settled(k, reg, Here) /\ Skips1(k, reg) /\ RegOK(reg) /\ ControlOK(ctl)
  BY <1>1, AtReturn
<1>3. GivesUp(Last(k), reg, q) /\ (NoSkip(reg) => NoSkip(q)) /\ q.count = reg.count
  BY <1>1, <1>2 DEF GivesUp, RegOK, NoSkip
<1>4. ctl' = ctl /\ k' = Front(k) /\ reg' = q
  BY DEF popredir, Step
<1> HIDE DEF q
<1>5. Settled(Front(k), q, Here) /\ Skips1(Front(k), q)
  BY <1>1, <1>2, <1>3, PopRet
<1> QED
  BY <1>1, <1>2, <1>4, <1>5, SameRetSound

-----------------------------------------------------------------------------
(* The frames: child processes.                                            *)

\* The first of the nodes of a list, and the others.
LEMMA HeadAndTail ==
  ASSUME NEW list \in Seq(Trees), list # <<>>
  PROVE  /\ list[1] \in ToSet(list) /\ Head(list) = list[1] /\ Tail(list) \in Seq(Trees)
         /\ ToSet(Tail(list)) \subseteq ToSet(list)
<1>1. Len(list) \in Nat /\ Len(list) > 0 /\ DOMAIN list = 1..Len(list)
  BY EmptySeq, LenProperties
<1>2. 1 \in 1..Len(list)
  BY <1>1
<1>3. list[1] \in ToSet(list)
  BY <1>1, <1>2 DEF ToSet
<1>4. /\ Tail(list) \in Seq(Trees) /\ Len(Tail(list)) = Len(list) - 1
      /\ \A i \in 1..(Len(list) - 1) : Tail(list)[i] = list[i + 1]
  BY HeadTailProperties
<1>5. \A i \in 1..(Len(list) - 1) : i + 1 \in 1..Len(list)
  BY <1>1
<1>6. DOMAIN Tail(list) = 1..(Len(list) - 1)
  BY <1>4, LenProperties
<1>7. ToSet(Tail(list)) \subseteq ToSet(list)
  BY <1>1, <1>4, <1>5, <1>6 DEF ToSet
<1>8. Head(list) = list[1]
  BY HeadTailProperties
<1> QED
  BY <1>3, <1>4, <1>7, <1>8

\* A child goes on with the stack and the registers of its parent.
LEMMA ChildSound ==
  ASSUME NEW n, NEW fl, NEW s, NEW r, NEW b, Settled(s, r, b), NoSkip(r), IsReg(r),
         Last(s).t = "fork", Allowed(s, Len(s), n), Child(n, fl, s, r)
  PROVE  Sound(ctl', k', reg', Len(s) + 1)
<1> DEFINE q == [forkreset(r) EXCEPT !.root = FALSE]
           e == fl \cup {"exit"}
           c == Eval(n, e)
           d == Len(s) + 1
<1>1. RegOK(r) /\ Len(s) \in Nat /\ Len(s) > 0 /\ b \in Nat
  BY StackShape DEF Settled, Bottomed
<1>2. /\ RegOK(q) /\ q.root = FALSE /\ q.pend = FALSE /\ q.exited = r.exited
      /\ q.files = 0 /\ q.redirs = 0 /\ q.locals = r.locals /\ q.nest = r.nest
      /\ q.saved = r.saved /\ q.skip = r.skip
  BY <1>1 DEF RegOK, forkreset
<1>3. c.go = "eval" /\ {"go", "n", "fl"} \subseteq DOMAIN c /\ c.n = n /\ c.fl = e
  BY DEF Eval
<1>4. "exit" \in e
  OBVIOUS
<1>5. INTON(c, s, q)
  BY DEF Child
<1> HIDE DEF q, e, c
<1>6. Good(s, d, q.exited)
  <2>1. Good(s, b, r.exited)
    BY DEF Settled
  <2> QED
    BY <1>1, <1>2, <2>1, ChildGood
<1>7. /\ \A l : Num(l, s, d, Len(s)) = 0
      /\ OnlyTrees(s, d, Len(s))
  BY <1>1, FreshFacts
<1>8. d \in Nat /\ d > 1 /\ Len(s) = d - 1
  BY <1>1
<1> HIDE DEF d
<1>9. Exact(s, q) /\ Marks(s, q, d) /\ NoSkip(q)
  BY <1>2, <1>7 DEF Settled, Exact, Marks, NoSkip
<1>10. Evaluates(s, c, d)
  BY <1>3, <1>7, <1>8 DEF Evaluates
<1>11. ControlOK(c)
  BY <1>3 DEF ControlOK, Allowed
<1>12. Onward(c, s, q, d)
  BY <1>3, <1>4, <1>8, <1>9, <1>10 DEF Onward
<1>13. Sound(c, s, q, d)
  BY <1>2, <1>3, <1>6, <1>8, <1>11, <1>12 DEF Sound
<1>14. Sound(ctl', k', reg', d)
  BY <1>3, <1>5, <1>13, OnSound
<1> QED
  BY <1>14 DEF d

\* One process more waits.
LEMMA MoreWait ==
  ASSUME Inv, FrameInv, NEW p, Waits(p, Here), parents' = Append(parents, p), prog' = prog,
         Sound(ctl', k', reg', Len(p.k) + 1)
  PROVE  FrameInv'
<1> DEFINE m == Len(parents)
<1>1. m \in Nat /\ IsStack(parents)
  BY StackShape DEF Inv, AllWait
<1>2. /\ Len(parents') = m + 1 /\ parents'[m + 1] = p
      /\ \A j \in 1..m : parents'[j] = parents[j]
  BY <1>1, Appended
<1> HIDE DEF m
<1>3. \A j \in 1..(m + 1) : Start(parents', j) = Start(parents, j)
  <2>1. \A j \in 1..(m + 1) : j # 1 => j - 1 \in 1..m
    BY <1>1
  <2> QED
    BY <1>2, <2>1 DEF Start
<1>4. Start(parents', m + 2) = Len(p.k) + 1
  <2>1. m + 2 # 1 /\ (m + 2) - 1 = m + 1
    BY <1>1
  <2> QED
    BY <1>2, <2>1 DEF Start
<1>5. Here' = Len(p.k) + 1
  <2>1. (m + 1) + 1 = m + 2
    BY <1>1
  <2> QED
    BY <1>2, <1>4, <2>1 DEF Here
<1>6. \A j \in 1..m : Waits(parents[j], Start(parents, j))
  BY DEF FrameInv, m
<1>7. Here = Start(parents, m + 1)
  BY DEF Here, m
<1>8. \A j \in 1..(m + 1) : j \in 1..m \/ j = m + 1
  BY <1>1
<1>9. \A j \in 1..(m + 1) : Waits(parents'[j], Start(parents', j))
  BY <1>2, <1>3, <1>6, <1>7, <1>8
<1>10. prog' \in Scripts
  BY DEF FrameInv
<1> QED
  BY <1>2, <1>5, <1>9, <1>10 DEF FrameInv

\* A subshell or a pipeline.
LEMMA EnterForkMatches ==
  ASSUME TameScripts, Inv, FrameInv, EnterFork
  PROVE  FrameInv'
<1> DEFINE s == Append(k, Tree(TRUE))
           list == ctl.n.list
<1>1. Entering /\ ctl.n.t = "fork" /\ prog' = prog
  BY DEF EnterFork, Node, Quiet
<1>2. Ready(s, reg, ctl.n, ctl.fl, Here)
  BY <1>1, TreePushed
<1> HIDE DEF s
<1>3. /\ Settled(s, reg, Here) /\ NoSkip(reg) /\ RegOK(reg) /\ Allowed(s, Len(s), ctl.n)
      /\ Here \in Nat /\ Here > 0 /\ Here <= Len(s) /\ Len(s) \in Nat
      /\ "exit" \in ctl.fl => Here > 1 /\ OnlyTrees(s, Here, Len(s))
  BY <1>2 DEF Ready, Settled
<1>4. list \in Seq(Trees) /\ list # <<>> /\ Parts(ctl.n) = ToSet(list)
  <2>1. IsNode(ctl.n, Trees)
    BY <1>3 DEF TameScripts, Tame, Allowed
  <2> QED
    BY <1>1, <2>1 DEF IsNode, Parts
<1> HIDE DEF list
<1>5. /\ list[1] \in ToSet(list) /\ Head(list) = list[1] /\ Tail(list) \in Seq(Trees)
      /\ ToSet(Tail(list)) \subseteq ToSet(list)
  BY <1>4, HeadAndTail
<1>6. \A p \in ToSet(list) : Allowed(s, Len(s), p) /\ (ctl.n \in Errorless => p \in Errorless)
  BY <1>3, <1>4, PartAllowed
<1>7. Recovering(s, Len(s)) => ctl.n \in Errorless
  BY <1>1, <1>3, ExposingNode
<1>8. CASE Len(list) = 1 /\ "exit" \in ctl.fl /\ ~have_traps
  <2> DEFINE q == forkreset(reg)
  <2>1. ctl' = Eval(list[1], ctl.fl) /\ k' = s /\ reg' = q /\ parents' = parents
    BY <1>8 DEF EnterFork, Step, Quiet, list, s
  <2>2. /\ RegOK(q) /\ q.root = reg.root /\ ~q.pend /\ q.exited = reg.exited
        /\ q.files = 0 /\ q.redirs = 0 /\ q.locals = reg.locals /\ q.nest = reg.nest
        /\ q.saved = reg.saved /\ q.skip = reg.skip
    BY <1>3 DEF RegOK, forkreset
  <2> HIDE DEF q
  <2>3. Num("files", s, Here, Len(s)) = 0 /\ Num("redirs", s, Here, Len(s)) = 0
    BY <1>3, <1>8, TreesFacts
  <2>4. Exact(s, q) /\ Marks(s, q, Here)
    BY <1>3, <2>2, <2>3 DEF Settled, Exact, Marks
  <2>5. Settled(s, q, Here) /\ NoSkip(q)
    BY <1>3, <2>2, <2>4 DEF Settled, NoSkip
  <2>6. Ready(s, q, list[1], ctl.fl, Here)
    BY <1>3, <1>5, <1>6, <2>5 DEF Ready
  <2>7. Sound(ctl', k', reg', Here)
    BY <2>1, <2>6, EvalSound
  <2> QED
    BY <1>1, <2>1, <2>7, SameParents
<1>9. CASE ~(Len(list) = 1 /\ "exit" \in ctl.fl /\ ~have_traps)
  <2> DEFINE f == [t |-> "fork", fl |-> ctl.fl, rest |-> Tail(list)]
             u == k \o <<Tree(TRUE), f>>
             r == [reg EXCEPT !.supp = @ + 1]
             p == [k |-> u, reg |-> r]
  <2>1. parents' = Append(parents, p) /\ Child(Head(list), ctl.fl, u, r)
    BY <1>9 DEF EnterFork, list
  <2>2. f.t = "fork" /\ f.rest = Tail(list) /\ {"t", "rest", "fl"} \subseteq DOMAIN f
    OBVIOUS
  <2>3. p.k = u /\ p.reg = r
    OBVIOUS
  <2>4. u = Append(s, f)
    <3>1. IsStack(k)
      BY <1>1, AtNode DEF Stacked
    <3>2. \A e : k \o <<e, f>> = Append(Append(k, e), f)
      BY ONLY <3>1, OneByOne
    <3> QED
      BY <3>2 DEF s
  <2>5. Alike(reg, r) /\ r.skip = reg.skip
    BY <1>3 DEF Alike, RegOK
  <2>6. IsReg(r)
    <3>1. IsReg(reg)
      BY <1>1, AtNode DEF Calm
    <3> QED
      BY <3>1 DEF IsReg
  <2> HIDE DEF f, u, r, p
  <2>7. Settled(s, r, Here) /\ NoSkip(r)
    BY <1>3, <2>5, AlikeSettled DEF NoSkip
  <2>8. Placed(s, Here, r.exited, Len(s), f)
    <3>1. FrameOK(f) /\ NodesOf(f) = ToSet(Tail(list))
      BY <1>5, <2>2 DEF FrameOK, NodesOf, Composed
    <3>2. \A n \in ToSet(Tail(list)) :
             Allowed(s, Len(s), n) /\ (Recovering(s, Len(s)) => n \in Errorless)
      BY <1>5, <1>6, <1>7
    <3>3. Len(s) + 1 # Here
      BY <1>3
    <3> QED
      BY <2>2, <3>1, <3>2, <3>3 DEF Placed
  <2>9. Counts(f, r, r)
    BY <2>2, <2>7 DEF Counts, Settled, RegOK
  <2>10. Settled(u, r, Here) /\ Above(s, f, u, Here)
    BY <2>4, <2>7, <2>8, <2>9, PushSettled
  <2>11. Last(u) = f
    BY <2>10 DEF Above
  <2>12. Allowed(u, Len(u), Head(list))
    <3>1. /\ Allowed(s, Len(s), Head(list)) /\ (Recovering(s, Len(s)) => Head(list) \in Errorless)
          /\ ~Catcher(f) /\ f.t # "trap"
      BY <1>5, <1>6, <1>7, <2>2 DEF Catcher
    <3> QED
      BY <2>10, <3>1, StillAllowed
  <2>13. Sound(ctl', k', reg', Len(u) + 1)
    BY <2>1, <2>2, <2>6, <2>7, <2>10, <2>11, <2>12, ChildSound
  <2>14. Waits(p, Here)
    BY <2>3, <2>7, <2>10 DEF Waits, Settled
  <2> QED
    BY <1>1, <2>1, <2>3, <2>13, <2>14, MoreWait
<1> QED
  BY <1>8, <1>9

\* What the invariant says of the last process that waits.
LEMMA LastOfParents ==
  ASSUME Inv, FrameInv, parents # <<>>
  PROVE  LET m == Len(parents)
             p == Last(parents)
             b == Start(parents, m)
         IN  /\ m \in Nat /\ m > 0 /\ p = parents[m] /\ IsStack(parents)
             /\ Settled(p.k, p.reg, b) /\ NoSkip(p.reg)
             /\ IsReg(p.reg) /\ Last(p.k).t = "fork" /\ {"k", "reg"} \subseteq DOMAIN p
<1> DEFINE m == Len(parents)
           p == Last(parents)
           b == Start(parents, m)
<1>1. m \in Nat /\ m > 0 /\ Waiting(p) /\ p = parents[m] /\ IsStack(parents)
  BY LastWaits DEF Inv, AllWait, Last
<1>2. m \in 1..m
  BY <1>1
<1>3. /\ Waits(parents[m], b) /\ Bottomed(parents[m].k) /\ Len(parents[m].k) \in Nat
      /\ b \in Nat /\ b > 0
  BY <1>1, <1>2, HereIs DEF FrameInv
<1> HIDE DEF m, p, b
<1>4. Settled(p.k, p.reg, b) /\ NoSkip(p.reg)
  BY <1>1, <1>3 DEF Waits, Settled
<1>5. IsReg(p.reg) /\ Last(p.k).t = "fork" /\ {"k", "reg"} \subseteq DOMAIN p
  BY <1>1 DEF Waiting
<1> QED
  BY <1>1, <1>4, <1>5 DEF m, p, b

\* One process less waits.
LEMMA LessWait ==
  ASSUME Inv, FrameInv, parents # <<>>, parents' = Front(parents), prog' = prog,
         Sound(ctl', k', reg', Start(parents, Len(parents)))
  PROVE  FrameInv'
<1> DEFINE m == Len(parents)
<1>1. m \in Nat /\ m > 0 /\ IsStack(parents)
  BY LastOfParents
<1>2. Len(parents') = m - 1 /\ \A j \in 1..(m - 1) : parents'[j] = parents[j]
  <2>1. m - 1 \in 0..m
    BY <1>1
  <2> QED
    BY <1>1, <2>1, Cut DEF Front
<1>3. Sound(ctl', k', reg', Start(parents, m))
  OBVIOUS
<1>4. \A j \in 1..m : Waits(parents[j], Start(parents, j))
  BY DEF FrameInv
<1> HIDE DEF m
<1>5. \A j \in 1..m : Start(parents', j) = Start(parents, j)
  <2>1. \A j \in 1..m : j # 1 => j - 1 \in 1..(m - 1)
    BY <1>1
  <2> QED
    BY <1>2, <2>1 DEF Start
<1>6. Here' = Start(parents, m)
  <2>1. (m - 1) + 1 = m /\ m \in 1..m
    BY <1>1
  <2> QED
    BY <1>2, <1>5, <2>1 DEF Here
<1>7. \A j \in 1..(m - 1) : j \in 1..m
  BY <1>1
<1>8. \A j \in 1..(m - 1) : Waits(parents'[j], Start(parents', j))
  BY <1>2, <1>4, <1>5, <1>7
<1>9. prog' \in Scripts
  BY DEF FrameInv
<1> QED
  BY <1>2, <1>3, <1>6, <1>8, <1>9 DEF FrameInv

\* Another process of a pipeline begins.
LEMMA OtherWait ==
  ASSUME Inv, FrameInv, NEW m \in 1..Len(parents), NEW p, Waits(p, Start(parents, m)),
         parents' = [parents EXCEPT ![m] = p], prog' = prog,
         m = Len(parents) \/ p.k = parents[m].k,
         IF m = Len(parents) THEN Sound(ctl', k', reg', Len(p.k) + 1)
                             ELSE Sound(ctl', k', reg', Here)
  PROVE  FrameInv'
<1> DEFINE n == Len(parents)
<1>1. n \in Nat /\ IsStack(parents)
  BY StackShape DEF Inv, AllWait
<1>2. Len(parents') = n /\ \A j \in 1..n : parents'[j] = IF j = m THEN p ELSE parents[j]
  <2> DEFINE S == {parents[j] : j \in DOMAIN parents}
             T == S \cup {p}
  <2>1. parents \in Seq(S) /\ S \subseteq T /\ p \in T
    BY <1>1 DEF IsStack
  <2> HIDE DEF S, T
  <2>2. parents \in Seq(T)
    BY <2>1, SeqMonotonic
  <2>3. /\ Len([parents EXCEPT ![m] = p]) = Len(parents)
        /\ \A j \in 1..Len(parents) : [parents EXCEPT ![m] = p][j] = IF j = m THEN p ELSE parents[j]
    BY <2>1, <2>2, ExceptSeq
  <2> QED
    BY <2>3
<1>3. m \in 1..n /\ (m = n \/ p.k = parents[m].k)
  OBVIOUS
<1>4. IF m = n THEN Sound(ctl', k', reg', Len(p.k) + 1) ELSE Sound(ctl', k', reg', Here)
  OBVIOUS
<1>5. \A j \in 1..n : Waits(parents[j], Start(parents, j))
  BY DEF FrameInv
<1>6. Here = Start(parents, n + 1) /\ Here' = Start(parents', n + 1)
  BY <1>2 DEF Here
<1> HIDE DEF n
<1>7. \A j \in 1..n : j # 1 => j - 1 \in 1..n /\ j - 1 # n
  BY <1>1
<1>8. \A j \in 1..n : Start(parents', j) = Start(parents, j)
  BY <1>2, <1>3, <1>7 DEF Start
<1>9. Start(parents', n + 1) = IF m = n THEN Len(p.k) + 1 ELSE Start(parents, n + 1)
  <2>1. n + 1 # 1 /\ (n + 1) - 1 = n /\ n \in 1..n
    BY <1>1, <1>3
  <2> QED
    BY <1>2, <1>3, <2>1 DEF Start
<1>10. \A j \in 1..n : Waits(parents'[j], Start(parents', j))
  <2> TAKE j \in 1..n
  <2>1. CASE j = m
    BY <1>2, <1>8, <2>1
  <2>2. CASE j # m
    BY <1>2, <1>5, <1>8, <2>2
  <2> QED
    BY <2>1, <2>2
<1>11. Sound(ctl', k', reg', Here')
  BY <1>4, <1>6, <1>9
<1>12. prog' \in Scripts
  BY DEF FrameInv
<1> QED
  BY <1>2, <1>10, <1>11, <1>12 DEF FrameInv

\* A child is gone: another one begins, or the shell goes on.
LEMMA ChildGoneMatches ==
  ASSUME TameScripts, Inv, FrameInv, ChildGone
  PROVE  FrameInv'
<1> DEFINE m == Len(parents)
           p == Last(parents)
           b == Start(parents, m)
           s == p.k
           r == p.reg
           f == Last(s)
           u == Front(s)
           g == [f EXCEPT !.rest = Tail(@)]
           w == Append(u, g)
           q == [p EXCEPT !.k = w]
<1>1. parents # <<>> /\ ctl.go = "halt" /\ prog' = prog
  BY DEF ChildGone
<1>2. /\ m \in Nat /\ m > 0 /\ p = parents[m] /\ IsStack(parents)
      /\ Settled(s, r, b) /\ NoSkip(r)
      /\ IsReg(r) /\ f.t = "fork" /\ {"k", "reg"} \subseteq DOMAIN p
  BY <1>1, LastOfParents
<1>3. ctl.st \in Nat
  BY <1>1 DEF FrameInv, Sound, ControlOK
<1>4. \/ /\ f.rest # <<>>
         /\ parents' = [parents EXCEPT ![m] = q] /\ Child(Head(f.rest), f.fl, w, r)
      \/ parents' = Front(parents) /\ INTON(Ret(ctl.st), u, r)
  BY <1>2 DEF ChildGone
<1>5. q.k = w /\ q.reg = r
  BY <1>2
<1> HIDE DEF p, m, q, b
<1>6. GivesUp(f, r, r)
  BY <1>2, SameGivesUp DEF Settled
<1>7. Settled(u, r, b) /\ Placed(u, b, r.exited, Len(u), f)
  <2>1. f.t \notin {"top", "cmd", "tree"}
    BY <1>2
  <2> QED
    BY <1>2, <1>6, <2>1, PopSettled
<1> HIDE DEF u
<1>8. CASE parents' = Front(parents) /\ INTON(Ret(ctl.st), u, r)
  <2>1. Sound(Ret(ctl.st), u, r, b)
    BY <1>2, <1>3, <1>7, RetSound DEF Skips1
  <2>2. Ret(ctl.st).go # "halt"
    BY DEF Ret
  <2>3. Sound(ctl', k', reg', b)
    BY <1>8, <2>1, <2>2, OnSound
  <2> QED
    BY <1>1, <1>8, <2>3, LessWait DEF b, m
<1>9. CASE /\ f.rest # <<>>
           /\ parents' = [parents EXCEPT ![m] = q] /\ Child(Head(f.rest), f.fl, w, r)
  <2>1. /\ {"t", "rest", "fl"} \subseteq DOMAIN f /\ f.rest \in Seq(Trees)
        /\ NodesOf(f) = ToSet(f.rest) /\ FrameOK(f)
    BY <1>2, <1>7 DEF Placed, FrameOK, NodesOf
  <2>2. /\ Head(f.rest) = f.rest[1] /\ f.rest[1] \in ToSet(f.rest)
        /\ Tail(f.rest) \in Seq(Trees) /\ ToSet(Tail(f.rest)) \subseteq ToSet(f.rest)
    BY <1>9, <2>1, HeadAndTail
  <2>3. g.t = "fork" /\ g.rest = Tail(f.rest) /\ g.fl = f.fl /\ {"t", "rest", "fl"} \subseteq DOMAIN g
    BY <1>2, <2>1
  <2> HIDE DEF f, g
  <2>4. FrameOK(g) /\ NodesOf(g) = ToSet(Tail(f.rest))
    BY <2>2, <2>3 DEF FrameOK, NodesOf, Composed
  <2>5. Placed(u, b, r.exited, Len(u), g)
    BY <1>2, <1>7, <2>1, <2>2, <2>3, <2>4 DEF Placed
  <2>6. Counts(g, r, r)
    BY <1>7, <2>3 DEF Counts, Settled, RegOK
  <2>7. Settled(w, r, b) /\ Above(u, g, w, b)
    BY <1>7, <2>5, <2>6, PushSettled
  <2> HIDE DEF w
  <2>8. Last(w) = g
    BY <2>7 DEF Above
  <2>9. Allowed(w, Len(w), Head(f.rest))
    <3>1. /\ Allowed(u, Len(u), Head(f.rest))
          /\ Recovering(u, Len(u)) => Head(f.rest) \in Errorless
      BY <1>2, <1>7, <2>1, <2>2 DEF Placed, Exposing
    <3>2. ~Catcher(g) /\ g.t # "trap"
      BY <2>3 DEF Catcher
    <3> QED
      BY <2>7, <3>1, <3>2, StillAllowed
  <2>10. Sound(ctl', k', reg', Len(w) + 1)
    BY <1>2, <1>9, <2>3, <2>7, <2>8, <2>9, ChildSound
  <2>11. Waits(q, b)
    BY <1>2, <1>5, <2>7 DEF Waits, Settled
  <2>12. m \in 1..Len(parents) /\ m = Len(parents)
    BY <1>2 DEF m
  <2> QED
    BY <1>1, <1>5, <1>9, <2>10, <2>11, <2>12, OtherWait DEF b
<1> QED
  BY <1>4, <1>8, <1>9

-----------------------------------------------------------------------------
(* The frames: simple commands.                                            *)

\* The error of a command: where command eval would catch it, no loop and no
\* child has begun.
LEMMA ErrorSound ==
  ASSUME TameScripts, Inv, FrameInv, Entering, Raises(ctl.n), NEW r, RegOK(r),
         r.nest = reg.nest, r.saved = reg.saved, r.root = reg.root, r.exited = reg.exited,
         r.pend = reg.pend, r.skip = reg.skip, sh_error(r)
  PROVE  Sound(ctl', k', reg', Here)
<1> DEFINE q == Raised("ERROR", [r EXCEPT !.exit = 2])
           b == Here
<1>1. ctl.go \in {"eval", "enter"}
  BY DEF Entering
<1>2. /\ Sound(ctl, k, reg, b) /\ b \in Nat /\ b > 0
      /\ Bottomed(k) /\ Len(k) \in Nat /\ Len(k) > 0
  BY <1>1, AtSound
<1>3. /\ RegOK(q) /\ q.nest = r.nest /\ q.saved = r.saved /\ q.root = r.root
      /\ q.exited = r.exited /\ q.pend = r.pend /\ q.skip = r.skip /\ q.exc = "ERROR"
  BY DEF RegOK, Raised
<1>4. ctl' = [go |-> "throw"] /\ k' = k /\ reg' = q
  BY DEF sh_error, exraise, Step
<1> HIDE DEF q, b
<1>5. Onward(ctl, k, reg, b) /\ Good(k, b, reg.exited) /\ (reg.root <=> b = 1) /\ (b > 1 => ~reg.pend)
  BY <1>1, <1>2 DEF Sound
<1>6. Exact(k, q) /\ NoSkip(q)
  BY <1>1, <1>3, <1>5 DEF Onward, Exact, NoSkip
<1>7. Allowed(k, Len(k), ctl.n) /\ b <= Len(k) + 1
  BY <1>1, <1>2, <1>5 DEF Onward, Evaluates
<1>8. ~Exposed(k, Len(k))
  BY <1>7 DEF Allowed, TameScripts, Tame
<1>9. ~Below(k, b, Len(k))
  BY <1>2, <1>5, <1>7, <1>8, NotBelow
<1>10. Thrown(k, q, b)
  BY <1>6, <1>8, <1>9 DEF Thrown
<1>11. Good(k, b, q.exited) /\ (q.root <=> b = 1) /\ (b > 1 => ~q.pend)
  BY <1>3, <1>5
<1>12. Sound([go |-> "throw"], k, q, b)
  BY <1>3, <1>10, <1>11, ThrowSound
<1> QED
  BY <1>4, <1>12 DEF b

\* What a command pushes.
LEMMA PushedOK ==
  ASSUME RegOK(reg), NEW n
  PROVE  /\ RegOK(Pushed(n)) /\ Pushed(n).nest = reg.nest /\ Pushed(n).saved = reg.saved
         /\ Pushed(n).root = reg.root /\ Pushed(n).exited = reg.exited
         /\ Pushed(n).pend = reg.pend /\ Pushed(n).skip = reg.skip /\ Pushed(n).files = reg.files
         /\ Pushed(n).redirs = reg.redirs + IF n.redir = "none" THEN 0 ELSE 1
         /\ Pushed(n).locals = reg.locals + IF Special(n) THEN 0 ELSE 1
BY DEF RegOK, Pushed

\* A command has a node.
LEMMA AtCommand ==
  ASSUME TameScripts, Inv, FrameInv, Node("cmd")
  PROVE  /\ Entering /\ ctl.n.t = "cmd" /\ ctl.n \in Trees /\ IsNode(ctl.n, Trees) /\ RegOK(reg)
         /\ Ready(Append(k, Tree(TRUE)), reg, ctl.n, ctl.fl, Here)
         /\ NoSkip(reg)
<1>1. Entering /\ ctl.n.t = "cmd"
  BY DEF Node
<1>2. Ready(Append(k, Tree(TRUE)), reg, ctl.n, ctl.fl, Here)
  BY <1>1, TreePushed
<1>3. ctl.n \in Trees /\ RegOK(reg) /\ NoSkip(reg)
  BY <1>2 DEF Ready, Allowed, Settled
<1>4. IsNode(ctl.n, Trees)
  BY <1>3 DEF TameScripts, Tame
<1> QED
  BY <1>1, <1>2, <1>3, <1>4

\* A status is returned after FORCEINTON.
LEMMA StatusSound ==
  ASSUME Inv, FrameInv, Entering, NEW st \in Nat, NEW r, Alike(reg, r),
         Skips1(Append(k, Tree(TRUE)), r), FORCEINTON(Ret(st), Append(k, Tree(TRUE)), r)
  PROVE  Sound(ctl', k', reg', Here)
<1> DEFINE s == Append(k, Tree(TRUE))
<1>1. Ready(s, reg, ctl.n, ctl.fl, Here)
  BY TreePushed
<1>2. Skips1(s, r) /\ FORCEINTON(Ret(st), s, r)
  OBVIOUS
<1> HIDE DEF s
<1>3. Settled(s, r, Here)
  BY <1>1, AlikeSettled DEF Ready
<1>4. Sound(Ret(st), s, r, Here)
  BY <1>2, <1>3, RetSound
<1>5. Ret(st).go # "halt"
  BY DEF Ret
<1> QED
  BY <1>2, <1>4, <1>5, ForcedSound

\* A builtin returns.
LEMMA ReturnsSound ==
  ASSUME Inv, FrameInv, Entering, NEW st \in Nat, NEW r, Alike(reg, r),
         Skips1(Append(k, Tree(TRUE)), r), Returns(st, r)
  PROVE  Sound(ctl', k', reg', Here)
<1> DEFINE q == [r EXCEPT !.exit = st]
<1>1. Alike(reg, q) /\ q.skip = r.skip /\ q.count = r.count
  BY DEF Alike, RegOK
<1>2. FORCEINTON(Ret(st), Append(k, Tree(TRUE)), q)
  BY DEF Returns
<1> HIDE DEF q
<1>3. Skips1(Append(k, Tree(TRUE)), q)
  BY <1>1 DEF Skips1, NoSkip
<1> QED
  BY <1>1, <1>2, <1>3, StatusSound

\* Words are expanded.
LEMMA CmdExpandMatches ==
  ASSUME TameScripts, Inv, FrameInv, CmdExpand
  PROVE  Sound(ctl', k', reg', Here)
<1>1. Entering /\ RegOK(reg)
  BY AtCommand DEF CmdExpand
<1>2. Raises(ctl.n) /\ sh_error(reg)
  BY DEF CmdExpand, Node, Raises
<1> QED
  BY <1>1, <1>2, ErrorSound

\* A redirection fails, or the command is not found.
LEMMA CmdFailsMatches ==
  ASSUME TameScripts, Inv, FrameInv, CmdFails
  PROVE  Sound(ctl', k', reg', Here)
<1>1. Entering /\ RegOK(reg) /\ ctl.n.t = "cmd" /\ NoSkip(reg)
      /\ Ready(Append(k, Tree(TRUE)), reg, ctl.n, ctl.fl, Here)
  BY AtCommand DEF CmdFails
<1>2. CASE Special(ctl.n)
  <2>1. sh_error(Pushed(ctl.n))
    BY <1>2 DEF CmdFails
  <2>2. ctl.n.redir = "bad"
    BY <1>2 DEF CmdFails, Special, SpecialBuiltins
  <2>3. Raises(ctl.n)
    BY <1>1, <1>2, <2>2 DEF Raises
  <2> QED
    BY <1>1, <2>1, <2>3, PushedOK, ErrorSound
<1>3. CASE ~Special(ctl.n)
  <2> DEFINE s == Append(k, Tree(TRUE))
  <2>1. PICK st \in Nat : ctl' = Ret(st) /\ k' = s /\ reg' = [reg EXCEPT !.exit = st]
    BY <1>3 DEF CmdFails, Step
  <2> DEFINE q == [reg EXCEPT !.exit = st]
  <2>2. Alike(reg, q) /\ NoSkip(q)
    BY <1>1 DEF Alike, RegOK, NoSkip
  <2>3. Settled(s, reg, Here)
    BY <1>1 DEF Ready
  <2> HIDE DEF q, s
  <2>4. Settled(s, q, Here) /\ Skips1(s, q)
    BY <2>2, <2>3, AlikeSettled DEF Skips1
  <2>5. Sound(Ret(st), s, q, Here)
    BY <2>4, RetSound
  <2> QED
    BY <2>1, <2>5 DEF q
<1> QED
  BY <1>2, <1>3

\* An external command.
LEMMA CmdRunMatches ==
  ASSUME TameScripts, Inv, FrameInv, CmdRun
  PROVE  Sound(ctl', k', reg', Here)
<1>1. Entering /\ RegOK(reg) /\ ctl.n.t = "cmd" /\ NoSkip(reg) /\ IsNode(ctl.n, Trees)
  BY AtCommand DEF CmdRun, Runs
<1>2. FORCEINTON(Ret(ctl.n.st), Append(k, Tree(TRUE)), reg) /\ ctl.n.c = "run"
  BY DEF CmdRun, Runs
<1>3. ctl.n.st \in Nat
  BY <1>1, <1>2 DEF IsNode
<1>4. Alike(reg, reg) /\ Skips1(Append(k, Tree(TRUE)), reg)
  BY <1>1 DEF Alike, Skips1
<1> QED
  BY <1>1, <1>2, <1>3, <1>4, StatusSound

\* A loop test.
LEMMA CmdTickMatches ==
  ASSUME TameScripts, Inv, FrameInv, CmdTick
  PROVE  Sound(ctl', k', reg', Here)
<1> DEFINE r == [reg EXCEPT !.tick = IF @ = 2 THEN 2 ELSE @ + 1]
<1>1. Entering /\ RegOK(reg) /\ NoSkip(reg)
  BY AtCommand DEF CmdTick, Runs
<1>2. PICK st \in Nat : Returns(st, r)
  BY DEF CmdTick
<1>3. Alike(reg, r) /\ NoSkip(r)
  BY <1>1 DEF Alike, RegOK, NoSkip
<1> HIDE DEF r
<1>4. Skips1(Append(k, Tree(TRUE)), r)
  BY <1>3 DEF Skips1
<1> QED
  BY <1>1, <1>2, <1>3, <1>4, ReturnsSound

\* A builtin that raises an error.
LEMMA CmdBltinErrorMatches ==
  ASSUME TameScripts, Inv, FrameInv, CmdBltinError
  PROVE  Sound(ctl', k', reg', Here)
<1>1. Entering /\ RegOK(reg) /\ ctl.n.t = "cmd" /\ NoSkip(reg)
  BY AtCommand DEF CmdBltinError, Runs
<1>2. CASE Special(ctl.n)
  <2>1. sh_error(Pushed(ctl.n))
    BY <1>2 DEF CmdBltinError
  <2>2. ctl.n.c = "special"
    BY <1>2 DEF CmdBltinError, Runs, Special, SpecialBuiltins
  <2>3. Raises(ctl.n)
    BY <1>1, <2>2 DEF Raises
  <2> QED
    BY <1>1, <2>1, <2>3, PushedOK, ErrorSound
<1>3. CASE ~Special(ctl.n)
  <2>1. Returns(2, reg)
    BY <1>3 DEF CmdBltinError
  <2>2. Alike(reg, reg) /\ Skips1(Append(k, Tree(TRUE)), reg)
    BY <1>1 DEF Alike, Skips1
  <2> QED
    BY <1>1, <2>1, <2>2, ReturnsSound
<1> QED
  BY <1>2, <1>3

\* break and continue: the count is of loops there are, and no trap is cut.
LEMMA breakcmdMatches ==
  ASSUME TameScripts, Inv, FrameInv, breakcmd
  PROVE  Sound(ctl', k', reg', Here)
<1> DEFINE n == IF ctl.n.arg > reg.nest THEN reg.nest ELSE ctl.n.arg
           q == [reg EXCEPT !.skip = ctl.n.c, !.count = n]
           r == IF n = 0 THEN reg ELSE q
           s == Append(k, Tree(TRUE))
<1>1. /\ Entering /\ RegOK(reg) /\ ctl.n.t = "cmd" /\ NoSkip(reg) /\ IsNode(ctl.n, Trees)
      /\ Ready(s, reg, ctl.n, ctl.fl, Here)
  BY AtCommand DEF breakcmd, Runs
<1>2. Returns(0, r) /\ ctl.n.c \in {"break", "cont"}
  BY DEF breakcmd, Runs
<1>3. ctl.n.arg \in Nat \ {0}
  BY <1>1, <1>2 DEF IsNode
<1>4. reg.nest = Loops(s, Len(s)) /\ Loops(s, Len(s)) \in Nat
  <2> HIDE DEF s
  <2>1. reg.nest = Loops(s, Len(s)) /\ Len(s) \in Nat
    BY <1>1 DEF Ready, Settled, Exact
  <2> QED
    BY <2>1, FunIs
<1>5. ~Trapped(s, Len(s))
  <2>1. Allowed(s, Len(s), ctl.n) /\ Breaks(ctl.n)
    BY <1>1, <1>2 DEF Ready, Breaks
  <2> QED
    BY <2>1 DEF Allowed, TameScripts, Tame
<1> HIDE DEF s
<1>6. n \in Nat /\ (n # 0 => n \in 1..Loops(s, Len(s)))
  BY <1>3, <1>4
<1> HIDE DEF n
<1>7. Alike(reg, q) /\ q.count = n
  BY <1>1, <1>6 DEF Alike, RegOK
<1>8. Alike(reg, reg)
  BY <1>1 DEF Alike
<1> HIDE DEF q
<1>9. Alike(reg, r) /\ Skips1(s, r)
  <2>1. CASE n = 0
    BY <1>1, <1>8, <2>1 DEF Skips1
  <2>2. CASE n # 0
    BY <1>5, <1>6, <1>7, <2>2 DEF Skips1
  <2> QED
    BY <2>1, <2>2
<1> HIDE DEF r
<1> QED
  BY <1>1, <1>2, <1>9, ReturnsSound DEF s

\* return.
LEMMA returncmdMatches ==
  ASSUME TameScripts, Inv, FrameInv, returncmd
  PROVE  Sound(ctl', k', reg', Here)
<1> DEFINE q == [reg EXCEPT !.skip = "func"]
           r == [reg EXCEPT !.skip = "funcdef"]
           s == Append(k, Tree(TRUE))
<1>1. /\ Entering /\ RegOK(reg) /\ ctl.n.t = "cmd" /\ IsNode(ctl.n, Trees)
  BY AtCommand DEF returncmd, Runs
<1>2. ctl.n.arg \in Int
  BY <1>1 DEF returncmd, Runs, IsNode
<1>3. Alike(reg, q) /\ NoSkip(q) /\ Alike(reg, r) /\ NoSkip(r) /\ reg.exit \in Nat
  BY <1>1 DEF Alike, RegOK, NoSkip
<1>4. \/ ctl.n.arg \in Nat /\ Returns(ctl.n.arg, q)
      \/ Returns(reg.exit, r)
  BY <1>2 DEF returncmd
<1> HIDE DEF q, r, s
<1>5. Skips1(s, q) /\ Skips1(s, r)
  BY <1>3 DEF Skips1
<1> QED
  BY <1>1, <1>3, <1>4, <1>5, ReturnsSound DEF s

\* exit.
LEMMA exitcmdMatches ==
  ASSUME TameScripts, Inv, FrameInv, exitcmd
  PROVE  Sound(ctl', k', reg', Here)
<1> DEFINE p == Pushed(ctl.n)
           r == IF ctl.n.arg >= 0 THEN [p EXCEPT !.saved = ctl.n.arg] ELSE p
<1>1. /\ Entering /\ RegOK(reg) /\ ctl.n.t = "cmd" /\ IsNode(ctl.n, Trees)
  BY AtCommand DEF exitcmd, Runs
<1>2. ctl.n.arg \in Int
  BY <1>1 DEF exitcmd, Runs, IsNode
<1>3. RegOK(p) /\ p.root = reg.root /\ p.exited = reg.exited /\ p.pend = reg.pend
  BY <1>1, PushedOK
<1>4. ctl' = [go |-> "throw"] /\ k' = k /\ reg' = Raised("EXIT", r)
  BY DEF exitcmd, exraise, Step
<1> HIDE DEF p
<1>5. RegOK(r) /\ r.root = reg.root /\ r.exited = reg.exited /\ r.pend = reg.pend
  BY <1>2, <1>3 DEF RegOK
<1> HIDE DEF r
<1>6. ctl.go \in {"eval", "enter"}
  BY <1>1 DEF Entering
<1>7. Sound(ctl, k, reg, Here)
  BY AtSound
<1>8. (r.root <=> Here = 1) /\ (Here > 1 => ~r.pend) /\ Good(k, Here, r.exited) /\ "EXIT" # "ERROR"
  BY <1>5, <1>6, <1>7 DEF Sound
<1> QED
  BY <1>4, <1>5, <1>8, RaiseSound

-----------------------------------------------------------------------------
(* The frames: texts and functions.                                        *)

\* The stack of a command that has pushed what it will give back, on which its
\* texts or the body of the function may be evaluated.
Marked == Append(Append(k, Tree(TRUE)), Mark(ctl.n))

\* The registers have counted what was pushed, and the parts are allowed there.
LEMMA MarkedOK ==
  ASSUME TameScripts, Inv, FrameInv, Node("cmd")
  PROVE  /\ Settled(Marked, Pushed(ctl.n), Here) /\ NoSkip(Pushed(ctl.n))
         /\ Last(Marked).n = ctl.n
         /\ \A p \in Parts(ctl.n) : Allowed(Marked, Len(Marked), p)
<1> DEFINE s == Append(k, Tree(TRUE))
           f == Mark(ctl.n)
           q == Pushed(ctl.n)
           u == Append(s, f)
<1>1. /\ ctl.n.t = "cmd" /\ ctl.n \in Trees /\ RegOK(reg)
      /\ Ready(s, reg, ctl.n, ctl.fl, Here) /\ NoSkip(reg)
  BY AtCommand
<1>2. /\ f.t = "cmd" /\ f.n = ctl.n /\ f.redirs = reg.redirs /\ f.locals = reg.locals
      /\ f.files = reg.files
  BY DEF Mark
<1>3. /\ RegOK(q) /\ q.nest = reg.nest /\ q.saved = reg.saved
      /\ q.root = reg.root /\ q.exited = reg.exited
      /\ q.pend = reg.pend /\ q.skip = reg.skip /\ q.files = reg.files
      /\ q.redirs = reg.redirs + IF ctl.n.redir = "none" THEN 0 ELSE 1
      /\ q.locals = reg.locals + IF Special(ctl.n) THEN 0 ELSE 1
  BY <1>1, PushedOK
<1>4. u = Marked
  BY DEF Marked
<1> HIDE DEF s, f, q
<1>5. Settled(s, reg, Here) /\ Allowed(s, Len(s), ctl.n)
  BY <1>1 DEF Ready
<1>6. Here \in Nat /\ Here <= Len(s) /\ Len(s) \in Nat
  BY <1>5 DEF Settled
<1>7. Placed(s, Here, reg.exited, Len(s), f)
  <2>1. FrameOK(f) /\ NodesOf(f) = {}
    BY <1>1, <1>2 DEF FrameOK, NodesOf, Composed, RegOK
  <2>2. Len(s) + 1 # Here /\ Len(s) + 2 # Here
    BY <1>6
  <2>3. ~reg.exited =>
          /\ reg.files = Num("files", s, Here, Len(s))
          /\ reg.redirs = Num("redirs", s, Here, Len(s))
          /\ reg.locals = Num("locals", s, 1, Len(s))
    BY <1>5 DEF Settled, Marks
  <2> QED
    BY <1>2, <2>1, <2>2, <2>3 DEF Placed
<1>8. Counts(f, reg, q)
  BY <1>1, <1>2, <1>3 DEF Counts, RegOK
<1>9. Settled(u, q, Here) /\ Above(s, f, u, Here)
  BY <1>5, <1>7, <1>8, PushSettled
<1> HIDE DEF u
<1>10. \A p \in Parts(ctl.n) : Allowed(u, Len(u), p)
  <2> TAKE p \in Parts(ctl.n)
  <2>1. Allowed(s, Len(s), p)
    BY <1>5, PartAllowed
  <2>2. Catcher(f) => p \in Recoverable
    <3>1. CASE CatchesErrors(ctl.n)
      <4>1. p \in ToSet(ctl.n.b)
        BY <1>1, <3>1 DEF Parts, CatchesErrors, Texts
      <4>2. ToSet(ctl.n.b) \subseteq Recoverable
        BY <1>1, <3>1 DEF TameScripts, Tame
      <4> QED
        BY <4>1, <4>2
    <3>2. CASE ~CatchesErrors(ctl.n)
      BY <1>2, <3>2 DEF Catcher
    <3> QED
      BY <3>1, <3>2
  <2>3. f.t # "trap" /\ f.t \notin Exposing
    BY <1>2 DEF Exposing
  <2> QED
    BY <1>9, <2>1, <2>2, <2>3, StillAllowed
<1>11. Last(u) = f
  BY <1>9 DEF Above
<1>12. NoSkip(q)
  BY <1>1, <1>3 DEF NoSkip
<1> QED
  BY <1>2, <1>4, <1>9, <1>10, <1>11, <1>12 DEF q

\* The members of a list are among a set if it is one of that set's lists.
LEMMA Members ==
  ASSUME NEW S, NEW list \in Seq(S)
  PROVE  ToSet(list) \subseteq S
BY LenProperties DEF ToSet

\* eval, . and command eval.
LEMMA CmdTextMatches ==
  ASSUME TameScripts, Inv, FrameInv, CmdText
  PROVE  Sound(ctl', k', reg', Here)
<1> DEFINE s == Marked
           p == Pushed(ctl.n)
           h == [t |-> "bltin", handler |-> reg.handler]
           f == [t |-> IF ctl.n.c = "dot" THEN "file" ELSE "str", rest |-> ctl.n.b,
                 fl |-> IF ctl.n.c = "dot" THEN {} ELSE Tested(ctl.fl), st |-> 0]
           q == [p EXCEPT !.handler = Len(k) + 3, !.files = @ + 1]
           u == Append(s, h)
           w == Append(u, f)
<1>1. Node("cmd") /\ ctl.n.c \in {"eval", "ceval", "dot"}
  BY DEF CmdText, Runs
<1>2. /\ Entering /\ ctl.n.t = "cmd" /\ IsNode(ctl.n, Trees)
  BY <1>1, AtCommand
<1>3. /\ Settled(s, p, Here) /\ NoSkip(p) /\ Last(s).n = ctl.n
      /\ \A x \in Parts(ctl.n) : Allowed(s, Len(s), x)
  BY <1>1, MarkedOK
<1>4. h.t = "bltin"
  OBVIOUS
<1>5. /\ f.t \in {"str", "file"} /\ f.rest = ctl.n.b /\ f.st = 0
      /\ {"t", "rest", "fl", "st"} \subseteq DOMAIN f /\ "exit" \notin f.fl
  BY NoExit
<1>6. RegOK(p)
  BY <1>3 DEF Settled
<1>7. /\ RegOK(q) /\ q.nest = p.nest /\ q.saved = p.saved /\ q.root = p.root
      /\ q.exited = p.exited /\ q.pend = p.pend /\ q.skip = p.skip /\ q.files = p.files + 1
      /\ q.redirs = p.redirs /\ q.locals = p.locals
  BY <1>6 DEF RegOK
<1>8. ctl.n.b \in Seq(Trees) /\ Parts(ctl.n) = ToSet(ctl.n.b)
  BY <1>1, <1>2 DEF IsNode, Parts, Texts
<1>9. ctl' = [go |-> "next"] /\ k' = w /\ reg' = q
  <2>1. IsStack(k)
    BY <1>2, AtNode DEF Stacked
  <2>2. \A e, m, x, y : k \o <<e, m, x, y>> = Append(Append(Append(Append(k, e), m), x), y)
    BY ONLY <2>1, OneByOne
  <2>3. k \o <<Tree(TRUE), Mark(ctl.n), h, f>> = w
    <3> DEFINE e == Tree(TRUE)
               m == Mark(ctl.n)
    <3> HIDE DEF e, m, h, f
    <3>1. k \o <<e, m, h, f>> = Append(Append(Append(Append(k, e), m), h), f)
      BY ONLY <2>2
    <3> QED
      BY <3>1 DEF Marked, e, m
  <2> QED
    BY <2>3 DEF CmdText, Step
<1> HIDE DEF s, p, h, f, q
<1>10. Here \in Nat /\ Here <= Len(s) /\ Len(s) \in Nat
  BY <1>3 DEF Settled
<1>11. Placed(s, Here, p.exited, Len(s), h)
  <2>1. FrameOK(h) /\ NodesOf(h) = {}
    BY <1>4 DEF FrameOK, NodesOf, Composed
  <2>2. Len(s) + 1 # Here /\ Len(s) + 2 # Here
    BY <1>10
  <2>3. s[Len(s)].n.c \in Texts
    BY <1>1, <1>3 DEF Last, Texts
  <2> QED
    BY <1>4, <2>1, <2>2, <2>3 DEF Placed
<1>12. Counts(h, p, p)
  BY <1>4, <1>6 DEF Counts, RegOK
<1>13. Settled(u, p, Here) /\ Above(s, h, u, Here)
  BY <1>3, <1>11, <1>12, PushSettled
<1> HIDE DEF u
<1>14. \A x \in ToSet(ctl.n.b) : Allowed(u, Len(u), x)
  <2>1. ~Catcher(h) /\ h.t # "trap" /\ h.t \notin Exposing
    BY <1>4 DEF Catcher, Exposing
  <2> QED
    BY <1>3, <1>8, <1>13, <2>1, StillAllowed
<1>15. Placed(u, Here, p.exited, Len(u), f)
  <2>1. FrameOK(f) /\ NodesOf(f) = ToSet(ctl.n.b) /\ f.t \notin Exposing
    BY <1>5, <1>8 DEF FrameOK, NodesOf, Composed, Exposing
  <2>2. Len(u) + 1 # Here /\ Len(u) + 2 # Here
    BY <1>13 DEF Settled
  <2> QED
    BY <1>5, <1>14, <2>1, <2>2 DEF Placed
<1>16. Counts(f, p, q)
  BY <1>5, <1>6, <1>7 DEF Counts, RegOK
<1>17. Settled(w, q, Here)
  BY <1>13, <1>15, <1>16, PushSettled
<1>18. NoSkip(q)
  BY <1>3, <1>7 DEF NoSkip
<1> HIDE DEF w
<1> QED
  BY <1>9, <1>17, <1>18, NextSound

\* A function is called.
LEMMA evalfunMatches ==
  ASSUME TameScripts, Inv, FrameInv, evalfun
  PROVE  Sound(ctl', k', reg', Here)
<1> DEFINE s == Marked
           p == Pushed(ctl.n)
           f == [t |-> "fun", handler |-> reg.handler, nest |-> reg.nest]
           q == InFunction([p EXCEPT !.handler = Len(k) + 3])
           u == Append(s, f)
           n == ctl.n.b[1]
           fl == Tested(ctl.fl)
<1>1. Node("cmd") /\ ctl.n.c = "fun"
  BY DEF evalfun, Runs
<1>2. /\ Entering /\ ctl.n.t = "cmd" /\ IsNode(ctl.n, Trees) /\ RegOK(reg)
  BY <1>1, AtCommand
<1>3. /\ Settled(s, p, Here) /\ NoSkip(p)
      /\ \A x \in Parts(ctl.n) : Allowed(s, Len(s), x)
  BY <1>1, MarkedOK
<1>4. f.t = "fun" /\ f.nest = reg.nest
  OBVIOUS
<1>5. p.nest = reg.nest
  BY <1>2, PushedOK
<1>6. RegOK(p)
  BY <1>3 DEF Settled
<1>7. /\ RegOK(q) /\ q.nest = 0 /\ q.saved = p.saved /\ q.root = p.root
      /\ q.exited = p.exited /\ q.pend = p.pend /\ q.skip = p.skip /\ q.files = p.files
      /\ q.redirs = p.redirs /\ q.locals = p.locals
  BY <1>6 DEF RegOK, InFunction
<1>8. n \in Parts(ctl.n)
  <2>1. ctl.n.b \in Seq(Trees) /\ ctl.n.b # <<>> /\ Parts(ctl.n) = ToSet(ctl.n.b)
    BY <1>1, <1>2 DEF IsNode, Parts, Texts
  <2> QED
    BY <2>1, HeadAndTail
<1>9. ctl' = Eval(n, fl) /\ k' = u /\ reg' = q
  <2>1. IsStack(k)
    BY <1>2, AtNode DEF Stacked
  <2>2. \A e, m, x : k \o <<e, m, x>> = Append(Append(Append(k, e), m), x)
    BY ONLY <2>1, OneByOne
  <2>3. k \o <<Tree(TRUE), Mark(ctl.n), f>> = u
    <3> DEFINE e == Tree(TRUE)
               m == Mark(ctl.n)
    <3> HIDE DEF e, m, f
    <3>1. k \o <<e, m, f>> = Append(Append(Append(k, e), m), f)
      BY ONLY <2>2
    <3> QED
      BY <3>1 DEF Marked, e, m
  <2> QED
    BY <2>3 DEF evalfun, Step
<1> HIDE DEF s, p, f, q, n
<1>10. /\ Here \in Nat /\ Here <= Len(s) /\ Len(s) \in Nat
       /\ p.nest = Loops(s, Len(s))
  BY <1>3 DEF Settled, Exact
<1>11. Placed(s, Here, p.exited, Len(s), f)
  <2>1. FrameOK(f) /\ NodesOf(f) = {}
    BY <1>2, <1>4 DEF FrameOK, NodesOf, Composed, RegOK
  <2>2. Len(s) + 1 # Here /\ Len(s) + 2 # Here
    BY <1>10
  <2> QED
    BY <1>4, <1>5, <1>10, <2>1, <2>2 DEF Placed
<1>12. Counts(f, p, q)
  BY <1>4, <1>6, <1>7 DEF Counts, RegOK
<1>13. NoSkip(q)
  BY <1>3, <1>7 DEF NoSkip
<1>14. "exit" \notin fl
  BY NoExit
<1>15. f.t \notin {"cmd", "trap"} /\ f.t \notin Exposing
  BY <1>4 DEF Exposing
<1>16. Allowed(s, Len(s), n)
  BY <1>3, <1>8
<1> HIDE DEF u, fl
<1>17. Sound(Eval(n, fl), Append(s, f), q, Here)
  BY <1>3, <1>11, <1>12, <1>13, <1>14, <1>15, <1>16, AboveSound
<1> QED
  BY <1>9, <1>17 DEF u

\* The top frame holds what its fields say.
LEMMA TopOK ==
  ASSUME NEW s, NEW b, NEW ex, Good(s, b, ex), Bottomed(s)
  PROVE  FrameOK(Last(s))
<1>1. Len(s) \in Nat /\ Len(s) > 0
  BY StackShape DEF Bottomed
<1>2. Len(s) \in 1..Len(s)
  BY <1>1
<1> QED
  BY <1>2 DEF Good, Placed, Last

\* A function is left: a return ends here, and a break never gets here.
LEMMA FunBackMatches ==
  ASSUME Inv, FrameInv, FunBack
  PROVE  Sound(ctl', k', reg', Here)
<1> DEFINE f == Last(k)
           q == funcdone(f, reg)
           u == Front(k)
<1>1. ctl.go = "ret" /\ f.t = "fun"
  BY DEF FunBack, Frame, Top
<1>2. Settled(k, reg, Here) /\ Skips1(k, reg) /\ RegOK(reg)
  BY <1>1, AtReturn
<1>3. f.nest \in Int /\ reg.exit \in Nat
  <2>1. FrameOK(f)
    BY <1>2, TopOK DEF Settled
  <2> HIDE DEF f
  <2> QED
    BY <1>1, <1>2, <2>1 DEF FrameOK, RegOK
<1>4. ctl' = Ret(reg.exit) /\ k' = u /\ reg' = q
  BY DEF FunBack, Step, Top
<1>5. /\ RegOK(q) /\ q.root = reg.root /\ q.exited = reg.exited /\ q.pend = reg.pend
      /\ q.nest = f.nest /\ q.saved = reg.saved /\ q.files = reg.files
      /\ q.redirs = reg.redirs /\ q.locals = reg.locals
      /\ NoSkip(reg) => NoSkip(q)
  <2> HIDE DEF f
  <2> DEFINE r == [reg EXCEPT !.handler = f.handler, !.nest = f.nest]
  <2>1. /\ RegOK(r) /\ r.root = reg.root /\ r.exited = reg.exited /\ r.pend = reg.pend
        /\ r.nest = f.nest /\ r.saved = reg.saved /\ r.files = reg.files
        /\ r.redirs = reg.redirs /\ r.locals = reg.locals /\ r.skip = reg.skip
    BY <1>2, <1>3 DEF RegOK
  <2>2. q = NoReturn(r)
    BY DEF funcdone
  <2> HIDE DEF r, q
  <2>3. q = r \/ q = [r EXCEPT !.skip = "none"]
    BY <2>2 DEF NoReturn
  <2>4. CASE q = r
    BY <2>1, <2>4 DEF NoSkip
  <2>5. CASE q = [r EXCEPT !.skip = "none"]
    <3>1. /\ RegOK(q) /\ q.root = r.root /\ q.exited = r.exited /\ q.pend = r.pend
          /\ q.nest = r.nest /\ q.saved = r.saved /\ q.files = r.files
          /\ q.redirs = r.redirs /\ q.locals = r.locals /\ q.skip = "none"
      BY <2>1, <2>5 DEF RegOK
    <3> QED
      BY <2>1, <3>1 DEF NoSkip
  <2> QED
    BY <2>3, <2>4, <2>5
<1> HIDE DEF q
<1>6. GivesUp(f, reg, q)
  <2> HIDE DEF f
  <2> QED
    BY <1>1, <1>2, <1>5 DEF GivesUp, RegOK
<1>7. Settled(u, q, Here) /\ Above(u, f, k, Here)
  BY <1>1, <1>2, <1>6, PopSettled
<1>8. NoSkip(reg)
  BY <1>1, <1>2, <1>7, NoSkips
<1>9. Skips1(u, q)
  BY <1>5, <1>8 DEF Skips1
<1> HIDE DEF u
<1> QED
  BY <1>3, <1>4, <1>7, <1>9, RetSound

\* A builtin with a text is over.
LEMMA BltinBackMatches ==
  ASSUME Inv, FrameInv, BltinBack
  PROVE  Sound(ctl', k', reg', Here)
<1> DEFINE q == [reg EXCEPT !.handler = Last(k).handler, !.exit = ctl.st]
<1>1. ctl.go = "ret" /\ Last(k).t = "bltin"
  BY DEF BltinBack, Frame, Top
<1>2. Settled(k, reg, Here) /\ Skips1(k, reg) /\ RegOK(reg) /\ ControlOK(ctl) /\ ctl.st \in Nat
  BY <1>1, AtReturn
<1>3. ctl' = ctl /\ k' = Front(k) /\ reg' = q
  BY DEF BltinBack, Step, Top
<1>4. GivesUp(Last(k), reg, q) /\ (NoSkip(reg) => NoSkip(q)) /\ q.count = reg.count
  BY <1>1, <1>2 DEF GivesUp, RegOK, NoSkip
<1> HIDE DEF q
<1>5. Settled(Front(k), q, Here) /\ Skips1(Front(k), q)
  BY <1>1, <1>2, <1>4, PopRet
<1> QED
  BY <1>1, <1>2, <1>3, <1>5, SameRetSound

\* A command is over and gives back what it pushed: its marks are true of the
\* frames below, whatever has become of the registers.
LEMMA CmdBackMatches ==
  ASSUME Inv, FrameInv, CmdBack
  PROVE  Sound(ctl', k', reg', Here)
<1> DEFINE f == Last(k)
           r == Unwound(reg, f)
           u == Front(k)
           b == Here
<1>1. ctl.go = "ret" /\ f.t = "cmd"
  BY DEF CmdBack, Frame, Top
<1>2. /\ Sound(ctl, k, reg, b) /\ b \in Nat /\ b > 0
      /\ Bottomed(k) /\ Len(k) \in Nat
  BY <1>1, AtSound
<1>3. FORCEINTON(ctl, u, r)
  BY DEF CmdBack, Top
<1> HIDE DEF f, r, u, b
<1>4. /\ RegOK(reg) /\ (reg.root <=> b = 1) /\ (b > 1 => ~reg.pend) /\ Good(k, b, reg.exited)
      /\ Exact(k, reg) /\ b <= Len(k) /\ ControlOK(ctl) /\ Skips1(k, reg)
  BY <1>1, <1>2 DEF Sound, Onward, Skips1
<1>5. /\ b <= Len(u) /\ Len(u) \in Nat
      /\ Bottomed(u) /\ Good(u, b, reg.exited)
      /\ Placed(u, b, reg.exited, Len(u), f)
      /\ Above(u, f, k, b)
  BY <1>1, <1>2, <1>4, NotTheFirst DEF f, u
<1>6. FrameOK(f)
  BY <1>5 DEF Placed
<1>7. /\ RegOK(r) /\ r.root = reg.root /\ r.pend = reg.pend /\ r.exited = reg.exited
      /\ r.nest = reg.nest /\ r.saved = reg.saved /\ r.skip = reg.skip /\ r.count = reg.count
      /\ r.files = f.files /\ r.redirs = f.redirs /\ r.locals = f.locals
  BY <1>1, <1>4, <1>6 DEF Unwound, RegOK, FrameOK, r
<1>8. Marks(u, r, b)
  <2>1. Len(u) + 1 >= b
    BY <1>2, <1>5
  <2> QED
    BY <1>1, <1>5, <1>7, <2>1 DEF Placed, Marks
<1>9. Exact(u, r)
  BY <1>1, <1>4, <1>5, <1>7 DEF Above, Exact
<1>10. Settled(u, r, b)
  BY <1>2, <1>4, <1>5, <1>7, <1>8, <1>9 DEF Settled
<1>11. Skips1(u, r)
  <2>1. f.t \notin {"while", "for"} /\ (NoSkip(reg) => NoSkip(r)) /\ r.count = reg.count
    BY <1>1, <1>7 DEF NoSkip
  <2> QED
    BY <1>4, <1>5, <2>1, PopSkips
<1>12. Sound(ctl, u, r, b)
  BY <1>1, <1>4, <1>10, <1>11, SameRetSound
<1>13. Sound(ctl', k', reg', b)
  BY <1>1, <1>3, <1>12, ForcedSound
<1> QED
  BY <1>13 DEF b

-----------------------------------------------------------------------------
(* The frames: input.                                                      *)

\* A text that is read on keeps its place in the stack.
LEMMA ReadOn ==
  ASSUME NEW s, NEW r, NEW b, Settled(s, r, b), Last(s).t \in {"str", "file"}, NEW g,
         g.t = Last(s).t, g.fl = Last(s).fl, {"t", "rest", "fl", "st"} \subseteq DOMAIN g,
         g.st \in Nat, g.rest \in Seq(Trees), ToSet(g.rest) \subseteq ToSet(Last(s).rest)
  PROVE  /\ Settled(Append(Front(s), g), r, b) /\ "exit" \notin g.fl
         /\ \A n \in ToSet(Last(s).rest) :
              Allowed(Append(Front(s), g), Len(Append(Front(s), g)), n)
<1> DEFINE f == Last(s)
           u == Front(s)
           w == Append(u, g)
           q == [r EXCEPT !.files = @ - 1]
<1>1. RegOK(r)
  BY DEF Settled
<1>2. /\ RegOK(q) /\ q.root = r.root /\ q.exited = r.exited /\ q.pend = r.pend
      /\ q.nest = r.nest /\ q.saved = r.saved /\ q.files = r.files - 1
      /\ q.redirs = r.redirs /\ q.locals = r.locals
  BY <1>1 DEF RegOK
<1> HIDE DEF q
<1>3. GivesUp(f, r, q)
  BY <1>1, <1>2 DEF GivesUp, RegOK
<1>4. f.t \notin {"top", "cmd"} /\ f.t # "tree"
  OBVIOUS
<1>5. Settled(u, q, b) /\ Placed(u, b, r.exited, Len(u), f)
  BY <1>3, <1>4, PopSettled
<1>6. /\ f.t \in {"str", "file"} /\ g.t = f.t /\ g.fl = f.fl
      /\ ToSet(g.rest) \subseteq ToSet(f.rest)
  OBVIOUS
<1> HIDE DEF f, u
<1>7. FrameOK(g) /\ NodesOf(g) = ToSet(g.rest) /\ NodesOf(f) = ToSet(f.rest)
  BY <1>6 DEF FrameOK, NodesOf, Composed
<1>8. g.t \notin Exposing /\ ~Catcher(g)
  BY <1>6 DEF Exposing, Catcher
<1>9. "exit" \notin g.fl
  BY <1>5, <1>6 DEF Placed
<1>10. Len(u) + 1 # b /\ Len(u) + 2 # b
  BY <1>5 DEF Settled
<1>11. \A n \in ToSet(f.rest) : Allowed(u, Len(u), n)
  BY <1>5, <1>7 DEF Placed
<1>12. Placed(u, b, q.exited, Len(u), g)
  BY <1>2, <1>6, <1>7, <1>8, <1>9, <1>10, <1>11 DEF Placed
<1>13. Counts(g, q, r)
  <2>1. \A x \in Int : x + 0 = x /\ (x - 1) + 1 = x
    OBVIOUS
  <2>2. g.t \in {"str", "file"}
    BY <1>6
  <2>3. /\ RegOK(r) /\ r.root = q.root /\ r.exited = q.exited /\ r.pend = q.pend
        /\ r.nest = q.nest /\ r.saved = q.saved /\ r.files = q.files + 1
        /\ r.redirs = q.redirs /\ r.locals = q.locals
    BY <1>1, <1>2, <2>1 DEF RegOK
  <2> QED
    BY <1>1, <1>2, <2>1, <2>2, <2>3 DEF Counts, RegOK
<1>14. Settled(w, r, b) /\ Above(u, g, w, b)
  BY <1>5, <1>12, <1>13, PushSettled
<1> HIDE DEF w
<1>15. \A n \in ToSet(f.rest) : Allowed(w, Len(w), n)
  BY <1>6, <1>8, <1>11, <1>14, StillAllowed
<1> QED
  BY <1>9, <1>14, <1>15 DEF w, u, f

\* The next command of a text.
LEMMA NextCommandMatches ==
  ASSUME Inv, FrameInv, NextCommand
  PROVE  Sound(ctl', k', reg', Here)
<1> DEFINE f == Last(k)
<1>1. ctl.go = "next" /\ f.t \in {"str", "file"}
  BY DEF NextCommand, Top
<1>2. Settled(k, reg, Here) /\ RegOK(reg) /\ NoSkip(reg)
  BY <1>1, AtReturn
<1>3. /\ f.rest \in Seq(Trees) /\ f.st \in Nat
      /\ {"t", "rest", "fl", "st"} \subseteq DOMAIN f
  <2>1. FrameOK(f)
    BY <1>2, TopOK DEF Settled
  <2> HIDE DEF f
  <2> QED
    BY <1>1, <2>1 DEF FrameOK
<1>4. CASE f.rest = <<>>
  <2> DEFINE q == [reg EXCEPT !.files = @ - 1]
  <2>1. ctl' = Ret(f.st) /\ k' = Front(k) /\ reg' = q
    BY <1>4 DEF NextCommand, Step, Top
  <2>2. f.t \notin {"top", "cmd"} /\ f.t # "tree"
    BY <1>1
  <2> HIDE DEF f
  <2>3. GivesUp(f, reg, q) /\ NoSkip(q)
    BY <1>1, <1>2 DEF GivesUp, RegOK, NoSkip
  <2> HIDE DEF q
  <2>4. Settled(Front(k), q, Here)
    BY <1>2, <2>2, <2>3, PopSettled DEF f
  <2>5. Sound(Ret(f.st), Front(k), q, Here)
    BY <1>3, <2>3, <2>4, RetSound DEF Skips1
  <2> QED
    BY <2>1, <2>5
<1>5. CASE f.rest # <<>>
  <2> DEFINE g == [f EXCEPT !.rest = Tail(@)]
             w == Append(Front(k), g)
  <2>1. ctl' = Eval(Head(f.rest), f.fl) /\ k' = w /\ reg' = reg
    BY <1>5 DEF NextCommand, Step, Top
  <2>2. /\ Head(f.rest) = f.rest[1] /\ f.rest[1] \in ToSet(f.rest)
        /\ Tail(f.rest) \in Seq(Trees) /\ ToSet(Tail(f.rest)) \subseteq ToSet(f.rest)
    BY <1>3, <1>5, HeadAndTail
  <2>3. /\ g.t = f.t /\ g.fl = f.fl /\ g.st = f.st /\ g.rest = Tail(f.rest)
        /\ {"t", "rest", "fl", "st"} \subseteq DOMAIN g
    BY <1>3
  <2> HIDE DEF g
  <2>4. /\ Settled(w, reg, Here) /\ "exit" \notin g.fl
        /\ \A n \in ToSet(f.rest) : Allowed(w, Len(w), n)
    BY <1>1, <1>2, <1>3, <2>2, <2>3, ReadOn
  <2> HIDE DEF f, w
  <2>5. Ready(w, reg, Head(f.rest), f.fl, Here)
    BY <1>2, <2>2, <2>3, <2>4 DEF Ready
  <2> QED
    BY <2>1, <2>5, EvalSound
<1> QED
  BY <1>4, <1>5

\* A text has a status: it is read on, or a skip ends it.
LEMMA TextBackMatches ==
  ASSUME Inv, FrameInv, TextBack
  PROVE  Sound(ctl', k', reg', Here)
<1> DEFINE f == Last(k)
<1>1. ctl.go = "ret" /\ f.t \in {"str", "file"}
  BY DEF TextBack, Frame, Top
<1>2. Settled(k, reg, Here) /\ Skips1(k, reg) /\ RegOK(reg) /\ ControlOK(ctl) /\ ctl.st \in Nat
  BY <1>1, AtReturn
<1>3. /\ f.rest \in Seq(Trees) /\ {"t", "rest", "fl", "st"} \subseteq DOMAIN f
  <2>1. FrameOK(f)
    BY <1>2, TopOK DEF Settled
  <2> HIDE DEF f
  <2> QED
    BY <1>1, <2>1 DEF FrameOK
<1>4. CASE reg.skip = "none"
  <2> DEFINE g == [f EXCEPT !.st = ctl.st]
             w == Append(Front(k), g)
  <2>1. ctl' = [go |-> "next"] /\ k' = w /\ reg' = reg
    BY <1>4 DEF TextBack, Step, WithStatus, Top
  <2>2. /\ g.t = f.t /\ g.fl = f.fl /\ g.st = ctl.st /\ g.rest = f.rest
        /\ {"t", "rest", "fl", "st"} \subseteq DOMAIN g
    BY <1>3
  <2> HIDE DEF g
  <2>3. Settled(w, reg, Here)
    BY <1>1, <1>2, <1>3, <2>2, ReadOn
  <2>4. NoSkip(reg)
    BY <1>4 DEF NoSkip
  <2> HIDE DEF w
  <2> QED
    BY <2>1, <2>3, <2>4, NextSound
<1>5. CASE reg.skip # "none"
  <2> DEFINE r == [reg EXCEPT !.files = @ - 1]
  <2>1. PICK q : ctl' = ctl /\ k' = Front(k) /\ reg' = q /\ (q = r \/ q = [r EXCEPT !.skip = "none"])
    BY <1>5 DEF TextBack, Step, NoReturn
  <2>2. /\ RegOK(r) /\ r.root = reg.root /\ r.exited = reg.exited /\ r.pend = reg.pend
        /\ r.nest = reg.nest /\ r.saved = reg.saved /\ r.files = reg.files - 1
        /\ r.redirs = reg.redirs /\ r.locals = reg.locals
        /\ r.skip = reg.skip /\ r.count = reg.count
    BY <1>2 DEF RegOK
  <2> HIDE DEF r
  <2>3. /\ RegOK(q) /\ q.root = r.root /\ q.exited = r.exited /\ q.pend = r.pend
        /\ q.nest = r.nest /\ q.saved = r.saved /\ q.files = r.files
        /\ q.redirs = r.redirs /\ q.locals = r.locals /\ q.count = r.count
        /\ q.skip = r.skip \/ q.skip = "none"
    <3>1. CASE q = r
      BY <2>2, <3>1
    <3>2. CASE q = [r EXCEPT !.skip = "none"]
      BY <2>2, <3>2 DEF RegOK
    <3> QED
      BY <2>1, <3>1, <3>2
  <2>4. NoSkip(reg) => NoSkip(q)
    BY <2>2, <2>3 DEF NoSkip
  <2>5. f.t \notin {"top", "cmd", "while", "for"} /\ f.t # "tree"
    BY <1>1
  <2>6. GivesUp(f, reg, q)
    <3> HIDE DEF f
    <3> QED
      BY <1>1, <1>2, <2>2, <2>3 DEF GivesUp, RegOK
  <2>7. Settled(Front(k), q, Here) /\ Skips1(Front(k), q)
    BY <1>2, <2>2, <2>3, <2>4, <2>5, <2>6, PopRet
  <2> QED
    BY <1>1, <1>2, <2>1, <2>7, SameRetSound
<1> QED
  BY <1>4, <1>5

\* The shell ends, after its trap on EXIT if it has one to run.
LEMMA ExitSound ==
  ASSUME TameScripts, prog \in Scripts, NEW rest \in Seq(Trees), NEW r, RegOK(r), IsReg(r),
         r.nest = 0, NEW b \in Nat, b > 0, r.root <=> b = 1, b > 1 => ~r.pend,
         exitshell(rest, r)
  PROVE  Sound(ctl', k', reg', b)
<1>1. CASE prog.exit # <<>> /\ r.root /\ ~r.exited
  <2> DEFINE f == [t |-> "top", rest |-> rest]
             e == [t |-> "exit"]
             g == [t |-> "str", rest |-> prog.exit, fl |-> {}, st |-> 0]
             p == [r EXCEPT !.exited = TRUE]
             q == [r EXCEPT !.saved = r.exit, !.exited = TRUE, !.handler = 2,
                            !.skip = "none", !.files = @ + 1]
             s == <<f>>
             u == Append(s, e)
             w == Append(u, g)
  <2>1. ctl' = [go |-> "next"] /\ k' = <<f, e, g>> /\ reg' = q
    BY <1>1 DEF exitshell, Step
  <2>2. f.t = "top" /\ {"t", "rest"} \subseteq DOMAIN f /\ f.rest = rest
    OBVIOUS
  <2>3. e.t = "exit"
    OBVIOUS
  <2>4. /\ g.t = "str" /\ g.rest = prog.exit /\ g.fl = {} /\ g.st = 0
        /\ {"t", "rest", "fl", "st"} \subseteq DOMAIN g
    OBVIOUS
  <2>5. /\ RegOK(p) /\ p.root = r.root /\ p.pend = r.pend /\ p.nest = 0 /\ p.exited
        /\ RegOK(q) /\ q.root = r.root /\ q.pend = r.pend /\ q.nest = 0 /\ q.exited = p.exited
        /\ NoSkip(q)
    BY DEF RegOK, IsReg, NoSkip
  <2>6. prog.exit \in Seq(Trees)
    BY DEF TameScripts, Tame
  <2> HIDE DEF f, e, g, p, q
  <2>7. <<f, e, g>> = s \o <<e, g>>
    OBVIOUS
  <2>8. /\ Bottomed(s) /\ Len(s) = 1 /\ Good(s, 1, p.exited)
    BY <2>2, BottomGood
  <2> HIDE DEF s
  <2>9. k' = w
    <3>1. IsStack(s)
      BY <2>8 DEF Bottomed
    <3>2. s \o <<e, g>> = Append(Append(s, e), g)
      BY ONLY <3>1, OneByOne
    <3> QED
      BY <2>1, <2>7, <3>2
  <2>10. Loops(s, Len(s)) = 0 /\ ~Trapped(s, Len(s)) /\ ~Recovering(s, Len(s)) /\ ~Exposed(s, Len(s))
    BY <2>8, BottomFacts DEF Nothing
  <2>11. b = 1
    BY <1>1
  <2>12. Settled(s, p, 1)
    <3>1. Exact(s, p)
      BY <2>5, <2>10 DEF Exact
    <3>2. Marks(s, p, 1)
      BY <2>5 DEF Marks
    <3>3. p.root <=> 1 = 1
      BY <1>1, <2>5
    <3>4. 1 \in Nat /\ 1 > 0 /\ ~(1 > 1) /\ 1 <= Len(s) /\ Len(s) \in Nat
      BY <2>8
    <3> QED
      BY <2>5, <2>8, <3>1, <3>2, <3>3, <3>4 DEF Settled
  <2>13. Placed(s, 1, p.exited, Len(s), e)
    <3>1. FrameOK(e) /\ NodesOf(e) = {}
      BY <2>3 DEF FrameOK, NodesOf, Composed
    <3> QED
      BY <2>3, <2>5, <2>8, <3>1 DEF Placed
  <2>14. Counts(e, p, p)
    BY <2>3, <2>5 DEF Counts, RegOK
  <2>15. Settled(u, p, 1) /\ Above(s, e, u, 1)
    BY <2>12, <2>13, <2>14, PushSettled
  <2> HIDE DEF u
  <2>16. Len(u) = 2 /\ ~Trapped(u, Len(u)) /\ ~Recovering(u, Len(u)) /\ ~Exposed(u, Len(u))
    <3>1. ~Catcher(e) /\ e.t \notin Exposing /\ e.t # "trap"
      BY <2>3 DEF Catcher, Exposing
    <3> QED
      BY <2>8, <2>10, <2>15, <3>1 DEF Above
  <2>17. Placed(u, 1, p.exited, Len(u), g)
    <3>1. FrameOK(g) /\ NodesOf(g) = ToSet(prog.exit) /\ g.t \notin Exposing
      BY <2>4, <2>6 DEF FrameOK, NodesOf, Composed, Exposing
    <3>2. \A n \in ToSet(prog.exit) : Allowed(u, Len(u), n)
      BY <2>6, <2>16, Members DEF Allowed
    <3> QED
      BY <2>4, <2>16, <3>1, <3>2 DEF Placed
  <2>18. Counts(g, p, q)
    BY <2>4, <2>5 DEF Counts
  <2>19. Settled(w, q, 1)
    BY <2>15, <2>17, <2>18, PushSettled
  <2> HIDE DEF w
  <2>20. Sound([go |-> "next"], w, q, 1)
    BY <2>5, <2>19, NextSound
  <2> QED
    BY <2>1, <2>9, <2>11, <2>20
<1>2. CASE ~(prog.exit # <<>> /\ r.root /\ ~r.exited)
  <2>1. ctl' = [go |-> "halt", st |-> r.exit] /\ reg' = r
    BY <1>2 DEF exitshell, Step
  <2>2. r.exit \in Nat
    BY DEF RegOK
  <2> QED
    BY <2>1, <2>2, HaltSound
<1> QED
  BY <1>1, <1>2

\* cmdloop(1).
LEMMA TopLevelMatches ==
  ASSUME TameScripts, Inv, FrameInv, TopLevel
  PROVE  Sound(ctl', k', reg', Here)
<1> DEFINE f == Last(k)
<1>1. ctl.go \in {"ret", "next"} /\ f.t = "top"
  BY DEF TopLevel, Frame, Top
<1>2. /\ Settled(k, reg, Here) /\ Skips1(k, reg) /\ RegOK(reg) /\ ControlOK(ctl)
      /\ ctl.go = "next" => NoSkip(reg)
  BY <1>1, AtReturn
<1>3. IsReg(reg) /\ Stacked(k, reg.handler)
  BY <1>1 DEF Inv, Running
<1>4. Len(k) = 1
  <2>1. Len(k) \in Nat /\ Len(k) > 0
    BY <1>3, StackShape DEF Stacked
  <2>2. Fits(k, Len(k))
    BY <1>3, <2>1 DEF Stacked
  <2> QED
    BY <1>1, <2>2 DEF Fits, Last
<1>5. /\ Here = 1 /\ Bottomed(k) /\ (reg.root <=> Here = 1) /\ (Here > 1 => ~reg.pend)
      /\ Here \in Nat /\ Here > 0
  BY <1>2, <1>4 DEF Settled
<1>6. Nothing(k)
  BY <1>4, <1>5, BottomFacts
<1>7. reg.nest = 0
  BY <1>2, <1>6 DEF Settled, Exact, Nothing
<1>8. f.rest \in Seq(Trees) /\ {"t", "rest"} \subseteq DOMAIN f
  <2>1. FrameOK(f)
    BY <1>2, TopOK DEF Settled
  <2> HIDE DEF f
  <2> QED
    BY <1>1, <2>1 DEF FrameOK
<1>9. prog \in Scripts
  BY DEF FrameInv
<1>10. CASE ctl.go = "next" /\ f.rest = <<>> /\ exitshell(<<>>, reg)
  <2>1. <<>> \in Seq(Trees)
    BY EmptySeq
  <2> QED
    BY <1>2, <1>3, <1>5, <1>7, <1>9, <1>10, <2>1, ExitSound
<1>11. CASE /\ ctl.go = "next" /\ f.rest # <<>>
            /\ Step(Eval(Head(f.rest), {}), <<[f EXCEPT !.rest = Tail(@)]>>, reg)
  <2> DEFINE g == [f EXCEPT !.rest = Tail(@)]
             w == <<g>>
  <2>1. ctl' = Eval(Head(f.rest), {}) /\ k' = w /\ reg' = reg
    BY <1>11 DEF Step
  <2>2. /\ Head(f.rest) = f.rest[1] /\ f.rest[1] \in ToSet(f.rest)
        /\ Tail(f.rest) \in Seq(Trees)
    BY <1>8, <1>11, HeadAndTail
  <2>3. g.t = "top" /\ g.rest = Tail(f.rest) /\ {"t", "rest"} \subseteq DOMAIN g
    BY <1>1, <1>8
  <2> HIDE DEF g
  <2>4. Bottomed(w) /\ Len(w) = 1 /\ Good(w, 1, reg.exited)
    BY <2>2, <2>3, BottomGood
  <2> HIDE DEF w
  <2>5. Nothing(w)
    BY <2>4, BottomFacts
  <2>6. Exact(w, reg) /\ Marks(w, reg, 1)
    BY <1>2, <1>5, <1>6, <2>5 DEF Settled, Exact, Marks, Nothing
  <2>7. Settled(w, reg, 1)
    BY <1>2, <1>5, <2>4, <2>6 DEF Settled
  <2>8. Head(f.rest) \in Trees
    BY <1>8, <2>2, Members
  <2>9. Ready(w, reg, Head(f.rest), {}, 1)
    BY <1>2, <1>11, <2>5, <2>7, <2>8 DEF Ready, Allowed, Nothing
  <2>10. Sound(Eval(Head(f.rest), {}), w, reg, 1)
    BY <2>9, EvalSound
  <2> QED
    BY <1>5, <2>1, <2>10
<1>12. CASE /\ ctl.go = "ret"
            /\ IF reg.skip = "none" THEN Step([go |-> "next"], k, reg)
               ELSE exitshell(f.rest, NoReturn(reg))
  <2>1. CASE reg.skip = "none"
    <3>1. ctl' = [go |-> "next"] /\ k' = k /\ reg' = reg
      BY <1>12, <2>1 DEF Step
    <3>2. NoSkip(reg)
      BY <2>1 DEF NoSkip
    <3> QED
      BY <1>2, <3>1, <3>2, NextSound
  <2>2. CASE reg.skip # "none"
    <3> DEFINE r == NoReturn(reg)
    <3>1. exitshell(f.rest, r)
      BY <1>12, <2>2
    <3>2. r = reg \/ r = [reg EXCEPT !.skip = "none"]
      BY DEF NoReturn
    <3>3. IsReg(r)
      BY <1>3, NoReturnReg
    <3>4. RegOK(r) /\ r.nest = reg.nest /\ r.root = reg.root /\ r.pend = reg.pend
      <4> HIDE DEF r
      <4>1. CASE r = reg
        BY <1>2, <4>1
      <4>2. CASE r = [reg EXCEPT !.skip = "none"]
        BY <1>2, <4>2 DEF RegOK
      <4> QED
        BY <3>2, <4>1, <4>2
    <3> HIDE DEF r, f
    <3>5. r.nest = 0 /\ (r.root <=> Here = 1) /\ (Here > 1 => ~r.pend)
      BY <1>5, <1>7, <3>4
    <3> QED
      BY <1>5, <1>8, <1>9, <3>1, <3>3, <3>4, <3>5, ExitSound
  <2> QED
    BY <2>1, <2>2
<1> QED
  BY <1>10, <1>11, <1>12 DEF TopLevel, Top

-----------------------------------------------------------------------------
(* The frames: handlers.                                                   *)

\* What is left when the handler is that of a builtin or a function: the frame
\* below it is that of its command, and where an error can be caught nothing
\* has changed since.
LEMMA CutFacts ==
  ASSUME Inv, FrameInv, ctl.go = "throw", reg.handler # 0,
         k[reg.handler].t \in {"bltin", "fun"},
         NEW m, m = reg.handler - 1, NEW u, u = SubSeq(k, 1, m)
  PROVE  /\ m \in 1..Len(k) /\ Len(k) \in Nat /\ Bottomed(u) /\ Len(u) = m /\ Last(u) = k[m]
         /\ k[m].t = "cmd" /\ FrameOK(k[m])
         /\ Good(u, Here, reg.exited) /\ Placed(k, Here, reg.exited, m, k[reg.handler])
         /\ SameFacts(k, u, m)
         /\ reg.exc = "ERROR" =>
              /\ ~Exposed(u, m) /\ ~Below(u, Here, m) /\ NoSkip(reg)
              /\ Recovering(u, m) =>
                   /\ Exact(k, reg)
                   /\ Trapped(k, Len(k)) <=> Trapped(u, m)
                   /\ k[reg.handler].t = "bltin" => Loops(k, Len(k)) = Loops(u, m)
<1> DEFINE h == reg.handler
           n == Len(k)
           b == Here
<1>1. /\ Sound(ctl, k, reg, b) /\ b \in Nat /\ b > 0
      /\ Bottomed(k) /\ n \in Nat /\ n > 0
  BY AtSound
<1>2. Stacked(k, h) /\ h # 0 /\ k[h].t \in {"bltin", "fun"}
  BY AtThrow
<1>3. Innermost(k, n, h)
  BY <1>2 DEF Stacked
<1>4. h \in 1..n /\ \A j \in (h + 1)..n : k[j].t \notin Handlers
  BY <1>1, <1>2, <1>3 DEF Innermost
<1> HIDE DEF n
<1>5. Fits(k, h)
  BY <1>2, <1>4 DEF Stacked, n
<1>6. h # 1 /\ k[h - 1].t = "cmd"
  BY <1>2, <1>5 DEF Fits
<1>7. m = h - 1 /\ m \in 1..n /\ h = m + 1 /\ k[m].t = "cmd" /\ m \in 0..n /\ m \in Nat
  BY <1>1, <1>4, <1>6
<1> HIDE DEF h
<1>8. Good(k, b, reg.exited) /\ Thrown(k, reg, b)
  BY <1>1 DEF Sound
<1>9. /\ Bottomed(u) /\ Len(u) = m /\ Last(u) = k[m] /\ SameFacts(k, u, m)
      /\ \A b2, ex : b2 \in Nat /\ b2 > 0 /\ Good(k, b2, ex) => Good(u, b2, ex)
  BY <1>1, <1>7, CutGood DEF n
<1>10. Good(u, b, reg.exited)
  BY <1>1, <1>8, <1>9
<1>11. Placed(k, b, reg.exited, m, k[h])
  BY <1>4, <1>7, <1>8 DEF Good, n
<1>12. FrameOK(k[m])
  BY <1>7, <1>8 DEF Good, Placed, n
<1>13. ASSUME reg.exc = "ERROR"
       PROVE  /\ ~Exposed(u, m) /\ ~Below(u, b, m) /\ NoSkip(reg)
              /\ Recovering(u, m) =>
                   /\ Exact(k, reg)
                   /\ Trapped(k, n) <=> Trapped(u, m)
                   /\ k[h].t = "bltin" => Loops(k, n) = Loops(u, m)
  <2>1. /\ ~Exposed(k, n) /\ ~Below(k, b, n) /\ NoSkip(reg)
        /\ Recovering(k, n) => Exact(k, reg)
    BY <1>8, <1>13 DEF Thrown, n
  <2>2. /\ Recovering(k, m) => Recovering(k, n)
        /\ Exposed(k, m) => Exposed(k, n)
        /\ Below(k, b, m) => Below(k, b, n)
    BY <1>1, <1>7, MoreFrames
  <2>3. ~Exposed(u, m) /\ ~Below(u, b, m) /\ (Recovering(u, m) <=> Recovering(k, m))
    BY <1>1, <1>9, <2>1, <2>2 DEF SameFacts
  <2>4. ASSUME Recovering(k, m)
        PROVE  /\ Trapped(k, n) <=> Trapped(k, m)
               /\ k[h].t = "bltin" => Loops(k, n) = Loops(k, m)
    <3>1. /\ Trapped(k, n) <=> Trapped(k, m)
          /\ (\A i \in (m + 1)..n : k[i].t # "fun") => Loops(k, n) = Loops(k, m)
      BY <1>1, <1>7, <2>1, <2>4, NotExposed
    <3>2. ASSUME k[h].t = "bltin", NEW i \in (m + 1)..n
          PROVE  k[i].t # "fun"
      <4>1. i = h \/ i \in (h + 1)..n
        BY <1>7
      <4> QED
        BY <1>4, <3>2, <4>1 DEF Handlers
    <3> QED
      BY <3>1, <3>2
  <2>5. (Trapped(u, m) <=> Trapped(k, m)) /\ Loops(u, m) = Loops(k, m)
    BY <1>9 DEF SameFacts
  <2> QED
    BY <2>1, <2>2, <2>3, <2>4, <2>5
<1> QED
  BY <1>1, <1>7, <1>9, <1>10, <1>11, <1>12, <1>13 DEF h, n, b

\* A handler of evalbltin.
LEMMA CatchBltinMatches ==
  ASSUME Inv, FrameInv, CatchBltin
  PROVE  Sound(ctl', k', reg', Here)
<1> DEFINE m == reg.handler - 1
           u == SubSeq(k, 1, m)
           r == [reg EXCEPT !.handler = k[reg.handler].handler]
           b == Here
<1>1. ctl.go = "throw" /\ reg.handler # 0 /\ k[reg.handler].t = "bltin"
  BY DEF CatchBltin
<1>2. /\ Sound(ctl, k, reg, b) /\ b \in Nat /\ b > 0
  BY AtSound
<1>3. RegOK(reg) /\ (reg.root <=> b = 1) /\ (b > 1 => ~reg.pend) /\ Thrown(k, reg, b)
  BY <1>1, <1>2 DEF Sound
<1>4. /\ RegOK(r) /\ r.root = reg.root /\ r.pend = reg.pend /\ r.exited = reg.exited
      /\ r.nest = reg.nest /\ r.saved = reg.saved /\ r.skip = reg.skip /\ r.exc = reg.exc
  BY <1>3 DEF RegOK
<1>5. k' = u /\ reg' = r /\ (ctl' = IF Recovers(Last(u).n) THEN Ret(reg.exit) ELSE ctl)
  BY DEF CatchBltin, Step
<1> HIDE DEF m, u, r
<1>6. /\ m \in 1..Len(k) /\ Len(k) \in Nat /\ Bottomed(u) /\ Len(u) = m /\ Last(u) = k[m]
      /\ k[m].t = "cmd" /\ FrameOK(k[m])
      /\ Good(u, b, reg.exited) /\ Placed(k, b, reg.exited, m, k[reg.handler])
      /\ reg.exc = "ERROR" =>
           /\ ~Exposed(u, m) /\ ~Below(u, b, m) /\ NoSkip(reg)
           /\ Recovering(u, m) =>
                /\ Exact(k, reg)
                /\ Trapped(k, Len(k)) <=> Trapped(u, m)
                /\ Loops(k, Len(k)) = Loops(u, m)
  <2>1. /\ m = reg.handler - 1 /\ u = SubSeq(k, 1, m)
        /\ ctl.go = "throw" /\ reg.handler # 0 /\ k[reg.handler].t \in {"bltin", "fun"}
    BY <1>1 DEF m, u
  <2>2. /\ m \in 1..Len(k) /\ Len(k) \in Nat /\ Bottomed(u) /\ Len(u) = m /\ Last(u) = k[m]
        /\ k[m].t = "cmd" /\ FrameOK(k[m])
        /\ Good(u, b, reg.exited) /\ Placed(k, b, reg.exited, m, k[reg.handler])
    BY <2>1, CutFacts
  <2>3. ASSUME reg.exc = "ERROR"
        PROVE  /\ ~Exposed(u, m) /\ ~Below(u, b, m) /\ NoSkip(reg)
               /\ Recovering(u, m) =>
                    /\ Exact(k, reg)
                    /\ Trapped(k, Len(k)) <=> Trapped(u, m)
                    /\ k[reg.handler].t = "bltin" => Loops(k, Len(k)) = Loops(u, m)
    BY <2>1, <2>3, CutFacts
  <2> QED
    BY <1>1, <2>2, <2>3
<1> HIDE DEF b
<1>7. reg.exc = "ERROR" /\ Recovering(u, m) => Exact(u, r)
  BY <1>4, <1>6 DEF Exact
<1>8. CASE Recovers(Last(u).n)
  <2>1. reg.exc = "ERROR" /\ ~Special(k[m].n)
    BY <1>6, <1>8 DEF Recovers
  <2>2. k[m].n.c = "ceval"
    <3>1. k[m].n.c \in Texts
      BY <1>1, <1>6 DEF Placed
    <3> QED
      BY <2>1, <3>1 DEF Texts, Special, SpecialBuiltins
  <2>3. Catcher(k[m])
    BY <1>6, <2>2 DEF Catcher, CatchesErrors, FrameOK
  <2>4. u[m] = k[m] /\ m \in 1..m
    BY <1>6 DEF Last
  <2>5. Recovering(u, m)
    BY <2>3, <2>4 DEF Recovering
  <2>6. b <= m
    <3>1. ~(m < b)
      BY <1>6, <2>1, <2>3, <2>4 DEF Below
    <3> QED
      BY <1>2, <1>6, <3>1
  <2> DEFINE c == Ret(reg.exit)
  <2>7. c.go = "ret" /\ {"go", "st"} \subseteq DOMAIN c /\ c.st = reg.exit
    BY DEF Ret
  <2> HIDE DEF c
  <2>8. ControlOK(c)
    BY <1>3, <2>7 DEF ControlOK, RegOK
  <2>9. Onward(c, u, r, b)
    BY <1>4, <1>6, <1>7, <2>1, <2>5, <2>6, <2>7 DEF Onward, NoSkip
  <2>10. Sound(c, u, r, b)
    BY <1>3, <1>4, <1>6, <2>7, <2>8, <2>9 DEF Sound
  <2> QED
    BY <1>5, <1>8, <2>10 DEF b, c
<1>9. CASE ~Recovers(Last(u).n)
  <2>1. Thrown(u, r, b)
    BY <1>4, <1>6, <1>7 DEF Thrown, NoSkip
  <2>2. Sound(ctl, u, r, b)
    BY <1>1, <1>2, <1>3, <1>4, <1>6, <2>1 DEF Sound
  <2> QED
    BY <1>5, <1>9, <2>2 DEF b
<1> QED
  BY <1>8, <1>9

\* The handler of evalfun.
LEMMA CatchFunMatches ==
  ASSUME Inv, FrameInv, CatchFun
  PROVE  Sound(ctl', k', reg', Here)
<1> DEFINE m == reg.handler - 1
           u == SubSeq(k, 1, m)
           f == k[reg.handler]
           r == funcdone(f, reg)
           b == Here
<1>1. ctl.go = "throw" /\ reg.handler # 0 /\ f.t = "fun"
  BY DEF CatchFun
<1>2. /\ Sound(ctl, k, reg, b) /\ b \in Nat /\ b > 0
  BY AtSound
<1>3. RegOK(reg) /\ (reg.root <=> b = 1) /\ (b > 1 => ~reg.pend)
  BY <1>1, <1>2 DEF Sound
<1>4. k' = u /\ reg' = r /\ ctl' = ctl
  BY DEF CatchFun, Step
<1> HIDE DEF m, u, r
<1>5. /\ m \in 1..Len(k) /\ Bottomed(u) /\ Len(u) = m
      /\ Good(u, b, reg.exited) /\ Placed(k, b, reg.exited, m, f)
      /\ SameFacts(k, u, m)
      /\ reg.exc = "ERROR" =>
           /\ ~Exposed(u, m) /\ ~Below(u, b, m) /\ NoSkip(reg)
           /\ Recovering(u, m) => Exact(k, reg) /\ (Trapped(k, Len(k)) <=> Trapped(u, m))
  BY <1>1, CutFacts DEF m, u
<1> HIDE DEF b, f
<1>6. f.nest \in Int /\ f.nest = Loops(u, m)
  BY <1>1, <1>5 DEF Placed, FrameOK, SameFacts
<1>7. /\ RegOK(r) /\ r.root = reg.root /\ r.exited = reg.exited /\ r.pend = reg.pend
      /\ r.nest = f.nest /\ r.saved = reg.saved /\ r.exc = reg.exc
      /\ NoSkip(reg) => NoSkip(r)
  <2> DEFINE q == [reg EXCEPT !.handler = f.handler, !.nest = f.nest]
  <2>1. /\ RegOK(q) /\ q.root = reg.root /\ q.exited = reg.exited /\ q.pend = reg.pend
        /\ q.nest = f.nest /\ q.saved = reg.saved /\ q.exc = reg.exc /\ q.skip = reg.skip
    BY <1>3, <1>6 DEF RegOK
  <2>2. r = NoReturn(q)
    BY DEF funcdone, r
  <2> HIDE DEF q
  <2>3. r = q \/ r = [q EXCEPT !.skip = "none"]
    BY <2>2 DEF NoReturn
  <2>4. CASE r = q
    BY <2>1, <2>4 DEF NoSkip
  <2>5. CASE r = [q EXCEPT !.skip = "none"]
    <3>1. /\ RegOK(r) /\ r.root = q.root /\ r.exited = q.exited /\ r.pend = q.pend
          /\ r.nest = q.nest /\ r.saved = q.saved /\ r.exc = q.exc /\ r.skip = "none"
      BY <2>1, <2>5 DEF RegOK
    <3> QED
      BY <2>1, <3>1 DEF NoSkip
  <2> QED
    BY <2>3, <2>4, <2>5
<1>8. reg.exc = "ERROR" /\ Recovering(u, m) => Exact(u, r)
  BY <1>5, <1>6, <1>7 DEF Exact
<1>9. Thrown(u, r, b)
  BY <1>5, <1>7, <1>8 DEF Thrown
<1>10. Sound(ctl, u, r, b)
  BY <1>1, <1>2, <1>3, <1>5, <1>7, <1>9 DEF Sound
<1> QED
  BY <1>4, <1>10 DEF b

\* exitreset forgets loops, skips and the saved status.
LEMMA ExitresetOK ==
  ASSUME NEW r, RegOK(r), IsReg(r)
  PROVE  /\ RegOK(exitreset(r)) /\ IsReg(exitreset(r)) /\ exitreset(r).root = r.root
         /\ exitreset(r).pend = r.pend /\ exitreset(r).exited = r.exited
         /\ exitreset(r).nest = 0 /\ exitreset(r).saved = -1 /\ exitreset(r).redirs = 0
         /\ NoSkip(exitreset(r))
BY DEF RegOK, IsReg, exitreset, NoSkip

\* The handler of main.
LEMMA CatchMainMatches ==
  ASSUME TameScripts, Inv, FrameInv, CatchMain
  PROVE  Sound(ctl', k', reg', Here)
<1> DEFINE r == exitreset(reg)
           b == Here
<1>1. ctl.go = "throw" /\ reg.handler = 0
  BY DEF CatchMain
<1>2. /\ Sound(ctl, k, reg, b) /\ b \in Nat /\ b > 0
      /\ Bottomed(k) /\ Len(k) \in Nat /\ Len(k) > 0
  BY <1>1, AtSound
<1>3. /\ RegOK(reg) /\ (reg.root <=> b = 1) /\ (b > 1 => ~reg.pend) /\ Good(k, b, reg.exited)
      /\ IsReg(reg) /\ prog \in Scripts
  BY <1>1, <1>2 DEF Sound, Inv, Running, FrameInv
<1>4. /\ RegOK(r) /\ IsReg(r) /\ r.root = reg.root
      /\ r.pend = reg.pend /\ r.exited = reg.exited
      /\ r.nest = 0 /\ r.saved = -1 /\ r.redirs = 0
      /\ NoSkip(r)
  BY <1>3, ExitresetOK
<1>5. \/ exitshell(<<>>, r)
      \/ reg.root /\ FORCEINTON([go |-> "next"], <<k[1]>>, [r EXCEPT !.files = 0, !.locals = 0])
  BY DEF CatchMain
<1> HIDE DEF r, b
<1>6. CASE exitshell(<<>>, r)
  <2>1. <<>> \in Seq(Trees)
    BY EmptySeq
  <2>2. Sound(ctl', k', reg', b)
    BY <1>2, <1>3, <1>4, <1>6, <2>1, ExitSound
  <2> QED
    BY <2>2 DEF b
<1>7. CASE reg.root /\ FORCEINTON([go |-> "next"], <<k[1]>>, [r EXCEPT !.files = 0, !.locals = 0])
  <2> DEFINE c == [go |-> "next"]
             f == k[1]
             s == <<f>>
             q == [r EXCEPT !.files = 0, !.locals = 0]
  <2>1. FORCEINTON(c, s, q) /\ c.go = "next"
    BY <1>7
  <2>2. /\ RegOK(q) /\ q.root = reg.root /\ q.pend = reg.pend /\ q.exited = reg.exited
        /\ q.nest = 0 /\ q.saved = -1 /\ q.redirs = 0 /\ q.files = 0 /\ q.locals = 0
        /\ NoSkip(q)
    BY <1>4 DEF RegOK, NoSkip
  <2>3. f.t = "top" /\ FrameOK(f)
    <3>1. 1 \in 1..Len(k)
      BY <1>2
    <3> QED
      BY <1>2, <1>3, <3>1 DEF Bottomed, Good, Placed
  <2> HIDE DEF f, q
  <2>4. {"t", "rest"} \subseteq DOMAIN f /\ f.rest \in Seq(Trees)
    BY <2>3 DEF FrameOK
  <2>5. Bottomed(s) /\ Len(s) = 1 /\ Good(s, 1, q.exited)
    BY <2>3, <2>4, BottomGood
  <2> HIDE DEF s, c
  <2>6. Nothing(s)
    BY <2>5, BottomFacts
  <2>7. Exact(s, q)
    BY <2>2, <2>6 DEF Exact, Nothing
  <2>8. Marks(s, q, 1)
    BY <2>2, <2>6 DEF Marks, Nothing
  <2>9. b = 1 /\ q.root
    BY <1>3, <1>7, <2>2
  <2>10. Settled(s, q, 1)
    BY <2>2, <2>5, <2>7, <2>8, <2>9 DEF Settled
  <2>11. Sound(c, s, q, 1)
    BY <2>2, <2>10, NextSound DEF c
  <2>12. Sound(ctl', k', reg', 1)
    BY <2>1, <2>11, ForcedSound
  <2> QED
    BY <2>9, <2>12 DEF b
<1> QED
  BY <1>5, <1>6, <1>7

\* The trap on EXIT is over.
LEMMA ExitDoneMatches ==
  ASSUME Inv, FrameInv, ExitDone
  PROVE  Sound(ctl', k', reg', Here)
<1> DEFINE q == IF ctl.go = "ret" THEN [reg EXCEPT !.skip = "funcdef"] ELSE reg
           r == exitreset(q)
           b == Here
<1>1. Sound(ctl, k, reg, b) /\ IsReg(reg)
  BY DEF FrameInv, Inv, Running
<1>2. RegOK(reg) /\ (reg.root <=> b = 1) /\ (b > 1 => ~reg.pend)
  BY <1>1 DEF Sound
<1>3. RegOK(q) /\ IsReg(q) /\ q.root = reg.root /\ q.pend = reg.pend
  <2>1. CASE ctl.go = "ret"
    BY <1>1, <1>2, <2>1 DEF RegOK, IsReg
  <2>2. CASE ctl.go # "ret"
    BY <1>1, <1>2, <2>2
  <2> QED
    BY <2>1, <2>2
<1>4. ctl' = [go |-> "halt", st |-> r.exit] /\ reg' = r
  BY DEF ExitDone, Step
<1> HIDE DEF q
<1>5. RegOK(r) /\ r.root = q.root /\ r.pend = q.pend
  BY <1>3, ExitresetOK
<1> HIDE DEF r, b
<1>6. r.exit \in Nat
  BY <1>5 DEF RegOK
<1>7. (r.root <=> b = 1) /\ (b > 1 => ~r.pend)
  BY <1>2, <1>3, <1>5
<1>8. Sound([go |-> "halt", st |-> r.exit], k', r, b)
  BY <1>5, <1>6, <1>7, HaltSound
<1> QED
  BY <1>4, <1>8 DEF b

-----------------------------------------------------------------------------
(* The frames: traps and signals.                                          *)

\* Where evaltree looks for a trap, in the first process.
LEMMA AtTrap ==
  ASSUME Inv, FrameInv, Trapping, ctl.go = "eval" \/ Frame("tree")
  PROVE  /\ Here = 1 /\ Settled(k, reg, 1) /\ ControlOK(ctl)
         /\ ctl.go = "eval" => Evaluates(k, ctl, 1)
         /\ ctl.go # "eval" => ctl.go = "ret" /\ ctl.st \in Nat
<1> DEFINE b == Here
<1>1. ctl.go \in {"eval", "ret"} /\ (ctl.go = "ret" => Last(k).t # "cmd") /\ reg.pend
  BY DEF Frame, Top, Trapping
<1>2. /\ Sound(ctl, k, reg, b) /\ b \in Nat /\ b > 0
      /\ Bottomed(k) /\ Len(k) \in Nat /\ Len(k) > 0
  BY <1>1, AtSound
<1> HIDE DEF b
<1>3. b = 1
  BY <1>1, <1>2 DEF Sound
<1>4. /\ RegOK(reg) /\ (reg.root <=> b = 1) /\ (b > 1 => ~reg.pend) /\ Good(k, b, reg.exited)
      /\ ControlOK(ctl) /\ Onward(ctl, k, reg, b)
  BY <1>1, <1>2 DEF Sound
<1>5. Exact(k, reg) /\ Marks(k, reg, b)
  BY <1>1, <1>4 DEF Onward
<1>6. Settled(k, reg, b)
  BY <1>2, <1>3, <1>4, <1>5 DEF Settled
<1>7. ctl.go = "eval" => Evaluates(k, ctl, b)
  BY <1>4 DEF Onward
<1>8. ctl.go # "eval" => ctl.go = "ret" /\ ctl.st \in Nat
  BY <1>1, <1>4 DEF ControlOK
<1> QED
  BY <1>3, <1>4, <1>6, <1>7, <1>8 DEF b

\* The commands of a trap may be evaluated wherever it comes.
LEMMA TrapAllowed ==
  ASSUME TameScripts, prog \in Scripts, NEW s, Len(s) \in Nat, NEW b, NEW ex, Good(s, b, ex),
         NEW n \in ToSet(prog.trap)
  PROVE  Allowed(s, Len(s), n)
<1>1. prog.trap \in Seq(Trees) /\ ToSet(prog.trap) \subseteq Steady
  BY DEF TameScripts, Tame
<1>2. n \in Trees /\ n \in Steady
  BY <1>1, Members
<1>3. CASE ToSet(prog.trap) \subseteq Errorless
  BY <1>2, <1>3 DEF Allowed, TameScripts, Tame
<1>4. CASE \A x \in Trees : ~CatchesErrors(x)
  <2>1. ~Recovering(s, Len(s))
    BY <1>4, NoRecovery
  <2>2. ~Exposed(s, Len(s))
    <3>1. ASSUME NEW i \in 1..Len(s)
          PROVE  ~Recovering(s, i)
      <4>1. i \in 0..Len(s)
        OBVIOUS
      <4> QED
        BY <2>1, <4>1, MoreFrames
    <3> QED
      BY <3>1 DEF Exposed
  <2> QED
    BY <1>2, <2>1, <2>2 DEF Allowed
<1> QED
  BY <1>3, <1>4 DEF TameScripts, Tame

\* dotrap.
LEMMA dotrapMatches ==
  ASSUME TameScripts, Inv, FrameInv, dotrap
  PROVE  Sound(ctl', k', reg', Here)
<1> DEFINE exit == IF ctl.go = "eval" THEN reg.exit ELSE ctl.st
           status == IF reg.saved < 0 THEN exit ELSE reg.saved
           then == IF ctl.go = "eval" THEN [ctl EXCEPT !.go = "enter"]
                                      ELSE [ctl EXCEPT !.go = "leave"]
           f == [t |-> "trap", status |-> status, last |-> reg.saved, then |-> then]
           g == [t |-> "str", rest |-> prog.trap, fl |-> {}, st |-> 0]
           p == [reg EXCEPT !.pend = FALSE, !.saved = status, !.exit = exit]
           r == [reg EXCEPT !.pend = FALSE, !.saved = status, !.exit = exit, !.files = @ + 1]
           u == Append(k, f)
           w == Append(u, g)
<1>1. /\ Here = 1 /\ Settled(k, reg, 1) /\ ControlOK(ctl)
      /\ ctl.go = "eval" => Evaluates(k, ctl, 1)
      /\ ctl.go # "eval" => ctl.go = "ret" /\ ctl.st \in Nat
  BY AtTrap DEF dotrap
<1>2. RegOK(reg) /\ Len(k) \in Nat /\ Len(k) >= 1 /\ prog \in Scripts /\ reg.skip = "none"
  BY <1>1 DEF Settled, FrameInv, dotrap, Trapping
<1>3. exit \in Nat /\ reg.saved \in Int
  BY <1>1, <1>2 DEF RegOK
<1>4. status \in Nat
  BY <1>3
<1>5. /\ ControlOK(then) /\ then.go \in {"enter", "leave"}
      /\ then.go = "enter" => "exit" \notin then.fl /\ Allowed(k, Len(k), then.n)
  <2>1. CASE ctl.go = "eval"
    <3>1. /\ then.go = "enter" /\ then.n = ctl.n /\ then.fl = ctl.fl
          /\ {"go", "n", "fl"} \subseteq DOMAIN then /\ ctl.n \in Trees
      BY <1>1, <2>1 DEF ControlOK
    <3>2. Allowed(k, Len(k), ctl.n) /\ "exit" \notin ctl.fl
      BY <1>1, <2>1 DEF Evaluates
    <3> HIDE DEF then
    <3> QED
      BY <3>1, <3>2 DEF ControlOK
  <2>2. CASE ctl.go # "eval"
    <3>1. then.go = "leave" /\ then.st = ctl.st /\ {"go", "st"} \subseteq DOMAIN then
      BY <1>1, <2>2 DEF ControlOK
    <3> HIDE DEF then
    <3> QED
      BY <1>1, <2>2, <3>1 DEF ControlOK
  <2> QED
    BY <2>1, <2>2
<1>6. ctl' = [go |-> "next"] /\ k' = k \o <<f, g>> /\ reg' = r
  BY DEF dotrap, Step
<1> HIDE DEF exit, status, then
<1>7. f.t = "trap" /\ f.status = status /\ f.last = reg.saved /\ f.then = then
  OBVIOUS
<1>8. /\ g.t = "str" /\ g.rest = prog.trap /\ g.fl = {} /\ g.st = 0
      /\ {"t", "rest", "fl", "st"} \subseteq DOMAIN g
  OBVIOUS
<1>9. /\ RegOK(p) /\ p.root = reg.root /\ p.exited = reg.exited /\ p.pend = FALSE
      /\ p.nest = reg.nest /\ p.saved = status /\ p.files = reg.files
      /\ p.redirs = reg.redirs /\ p.locals = reg.locals
      /\ RegOK(r) /\ r.root = reg.root /\ r.exited = reg.exited /\ r.pend = FALSE
      /\ r.nest = reg.nest /\ r.saved = status /\ r.files = reg.files + 1
      /\ r.redirs = reg.redirs /\ r.locals = reg.locals /\ r.skip = "none"
  BY <1>2, <1>3, <1>4 DEF RegOK
<1> HIDE DEF f, g, p, r
<1>10. k' = w
  <2>1. IsStack(k)
    BY <1>1 DEF Settled, Bottomed
  <2>2. k \o <<f, g>> = Append(Append(k, f), g)
    BY ONLY <2>1, OneByOne
  <2> QED
    BY <1>6, <2>2
<1>11. Placed(k, 1, reg.exited, Len(k), f)
  <2>1. FrameOK(f)
    BY <1>3, <1>4, <1>5, <1>7 DEF FrameOK, Composed
  <2>2. NodesOf(f) = {}
    BY <1>7 DEF NodesOf, Composed
  <2>3. ~reg.exited => (f.last = -1 <=> ~Trapped(k, Len(k)))
    BY <1>1, <1>7 DEF Settled, Exact
  <2>4. Len(k) + 1 # 1 /\ Len(k) + 2 # 1
    BY <1>2
  <2> QED
    BY <1>5, <1>7, <2>1, <2>2, <2>3, <2>4 DEF Placed
<1>12. Counts(f, reg, p)
  <2>1. status # -1
    BY <1>4
  <2> QED
    BY <1>2, <1>7, <1>9, <2>1 DEF Counts, RegOK
<1>13. Settled(u, p, 1) /\ Above(k, f, u, 1)
  BY <1>1, <1>11, <1>12, PushSettled
<1> HIDE DEF u
<1>14. \A n \in ToSet(prog.trap) : Allowed(u, Len(u), n)
  BY <1>2, <1>13, TrapAllowed DEF Settled
<1>15. Placed(u, 1, p.exited, Len(u), g)
  <2>1. FrameOK(g) /\ NodesOf(g) = ToSet(prog.trap) /\ g.t \notin Exposing
    <3>1. prog.trap \in Seq(Trees)
      BY <1>2 DEF TameScripts, Tame
    <3> QED
      BY <1>8, <3>1 DEF FrameOK, NodesOf, Composed, Exposing
  <2>2. Len(u) + 1 # 1 /\ Len(u) + 2 # 1
    BY <1>13 DEF Settled
  <2> QED
    BY <1>8, <1>14, <2>1, <2>2 DEF Placed
<1>16. Counts(g, p, r)
  BY <1>2, <1>8, <1>9 DEF Counts, RegOK
<1>17. Settled(w, r, 1) /\ NoSkip(r)
  BY <1>9, <1>13, <1>15, <1>16, PushSettled DEF NoSkip
<1> HIDE DEF w
<1> QED
  BY <1>1, <1>6, <1>10, <1>17, NextSound

\* The trap is over: evaltree goes on where it was.
LEMMA TrapBackMatches ==
  ASSUME Inv, FrameInv, TrapBack
  PROVE  Sound(ctl', k', reg', Here)
<1> DEFINE f == Last(k)
           c == f.then
           u == Front(k)
           b == Here
           q == [reg EXCEPT !.saved = f.last, !.exit = IF reg.skip = "func" THEN @ ELSE f.status]
<1>1. ctl.go = "ret" /\ f.t = "trap"
  BY DEF TrapBack, Frame, Top
<1>2. Settled(k, reg, b) /\ Skips1(k, reg) /\ RegOK(reg)
  BY <1>1, AtReturn
<1>3. ctl' = c /\ k' = u /\ reg' = q
  BY DEF TrapBack, Step, Top
<1>4. c.go \in {"enter", "leave"}
  <2>1. Stacked(k, reg.handler) /\ Len(k) \in Nat /\ Len(k) > 0
    BY <1>1, StackShape DEF Inv, Running, Stacked
  <2>2. Fits(k, Len(k))
    BY <2>1 DEF Stacked
  <2> QED
    BY <1>1, <2>2 DEF Fits, Last
<1>5. FrameOK(f)
  BY <1>2, TopOK DEF Settled
<1> HIDE DEF b, f
<1>6. f.status \in Nat /\ f.last \in Int /\ ControlOK(c)
  BY <1>1, <1>5 DEF FrameOK
<1>7. /\ RegOK(q) /\ q.root = reg.root /\ q.exited = reg.exited /\ q.pend = reg.pend
      /\ q.nest = reg.nest /\ q.saved = f.last /\ q.files = reg.files
      /\ q.redirs = reg.redirs /\ q.locals = reg.locals /\ q.skip = reg.skip
  BY <1>2, <1>6 DEF RegOK
<1> HIDE DEF q, c
<1>8. GivesUp(f, reg, q)
  BY <1>1, <1>2, <1>7 DEF GivesUp, RegOK
<1>9. /\ Settled(u, q, b) /\ Above(u, f, k, b)
      /\ Placed(u, b, reg.exited, Len(u), f)
  BY <1>1, <1>2, <1>8, PopSettled DEF f
<1>10. NoSkip(q)
  BY <1>1, <1>2, <1>7, <1>9, NoSkips DEF NoSkip
<1> HIDE DEF u
<1>11. CASE c.go = "leave"
  <2>1. Sound(c, u, q, b)
    BY <1>6, <1>9, <1>10, <1>11, SameRetSound DEF Skips1
  <2> QED
    BY <1>3, <2>1 DEF b
<1>12. CASE c.go = "enter"
  <2>1. "exit" \notin c.fl /\ Allowed(u, Len(u), c.n)
    BY <1>1, <1>9, <1>12 DEF Placed, c
  <2>2. Onward(c, u, q, b)
    BY <1>9, <1>10, <1>12, <2>1 DEF Onward, Settled, Evaluates
  <2>3. Sound(c, u, q, b)
    BY <1>6, <1>9, <1>12, <2>2 DEF Sound, Settled
  <2> QED
    BY <1>3, <2>3 DEF b
<1> QED
  BY <1>4, <1>11, <1>12

\* A signal is noted in the first process only, and changes nothing else.
LEMMA PendSound ==
  ASSUME NEW c, NEW s, NEW r, NEW q, Sound(c, s, r, 1), RegOK(q), q.skip = r.skip,
         q.count = r.count, q.nest = r.nest, q.redirs = r.redirs, q.locals = r.locals,
         q.files = r.files, q.exc = r.exc, q.saved = r.saved, q.root = r.root,
         q.exited = r.exited
  PROVE  Sound(c, s, q, 1)
<1>1. Exact(s, r) <=> Exact(s, q)
  BY DEF Exact
<1>2. Marks(s, r, 1) <=> Marks(s, q, 1)
  BY DEF Marks
<1>3. c.go = "throw" => Thrown(s, q, 1)
  BY <1>1 DEF Sound, Thrown, NoSkip
<1>4. c.go \notin {"throw", "halt"} => Onward(c, s, q, 1)
  BY <1>1, <1>2 DEF Sound, Onward, NoSkip
<1> QED
  BY <1>3, <1>4 DEF Sound

\* A signal comes to the process that runs.
LEMMA SignalMatches ==
  ASSUME Inv, FrameInv, Signal
  PROVE  Sound(ctl', k', reg', Here)
<1>1. parents = <<>> /\ ctl.go # "halt"
  BY DEF Signal
<1>2. Here = 1 /\ Sound(ctl, k, reg, 1)
  BY <1>1, HereIs, AtSound
<1>3. RegOK(reg)
  BY <1>2 DEF Sound
<1>4. \/ Step(ctl, k, [reg EXCEPT !.pend = TRUE])
      \/ onint(k, reg)
      \/ Step(ctl, k, [reg EXCEPT !.intp = TRUE])
  BY DEF Signal
<1>5. CASE Step(ctl, k, [reg EXCEPT !.pend = TRUE])
  <2> DEFINE q == [reg EXCEPT !.pend = TRUE]
  <2>1. ctl' = ctl /\ k' = k /\ reg' = q
    BY <1>5 DEF Step
  <2>2. /\ RegOK(q) /\ q.skip = reg.skip
        /\ q.count = reg.count /\ q.nest = reg.nest /\ q.redirs = reg.redirs
        /\ q.locals = reg.locals /\ q.files = reg.files /\ q.exc = reg.exc
        /\ q.saved = reg.saved /\ q.root = reg.root /\ q.exited = reg.exited
    BY <1>3 DEF RegOK
  <2> HIDE DEF q
  <2> QED
    BY <1>2, <2>1, <2>2, PendSound
<1>6. CASE Step(ctl, k, [reg EXCEPT !.intp = TRUE])
  <2> DEFINE q == [reg EXCEPT !.intp = TRUE]
  <2>1. ctl' = ctl /\ k' = k /\ reg' = q
    BY <1>6 DEF Step
  <2>2. /\ RegOK(q) /\ q.skip = reg.skip
        /\ q.count = reg.count /\ q.nest = reg.nest /\ q.redirs = reg.redirs
        /\ q.locals = reg.locals /\ q.files = reg.files /\ q.exc = reg.exc
        /\ q.saved = reg.saved /\ q.root = reg.root /\ q.exited = reg.exited
    BY <1>3 DEF RegOK
  <2> HIDE DEF q
  <2> QED
    BY <1>2, <2>1, <2>2, PendSound
<1>7. CASE onint(k, reg)
  <2>1. Interrupted(reg, ctl', reg') /\ k' = k
    BY <1>7 DEF onint, Step, Interrupted
  <2> QED
    BY <1>1, <1>2, <2>1, InterruptSound
<1> QED
  BY <1>4, <1>5, <1>6, <1>7

\* A signal comes to the first process while it waits.
LEMMA SignalParentMatches ==
  ASSUME Inv, FrameInv, SignalParent
  PROVE  FrameInv'
<1> DEFINE o == parents[1]
           p == [o EXCEPT !.reg.pend = TRUE]
           q == [o EXCEPT !.reg.intp = TRUE]
<1>1. AllWait(parents) /\ Len(parents) \in Nat /\ Len(parents) > 0
  BY LastWaits DEF SignalParent, Inv
<1>2. 1 \in 1..Len(parents) /\ Waiting(o)
  BY <1>1 DEF AllWait
<1>3. Start(parents, 1) = 1
  BY DEF Start
<1>4. Waits(o, 1)
  BY <1>2, <1>3 DEF FrameInv
<1>5. parents' = [parents EXCEPT ![1] = p] \/ parents' = [parents EXCEPT ![1] = q]
  BY DEF SignalParent
<1> HIDE DEF o
<1>6. {"k", "reg"} \subseteq DOMAIN o /\ RegOK(o.reg)
  BY <1>2, <1>4 DEF Waiting, Waits
<1>7. p.k = o.k /\ p.reg = [o.reg EXCEPT !.pend = TRUE]
  BY <1>6
<1>8. q.k = o.k /\ q.reg = [o.reg EXCEPT !.intp = TRUE]
  BY <1>6
<1> HIDE DEF p, q
<1>9. ASSUME NEW r, r = [o.reg EXCEPT !.pend = TRUE] \/ r = [o.reg EXCEPT !.intp = TRUE]
      PROVE  /\ RegOK(r) /\ r.skip = o.reg.skip
             /\ r.nest = o.reg.nest /\ r.redirs = o.reg.redirs
             /\ r.locals = o.reg.locals /\ r.files = o.reg.files
             /\ r.saved = o.reg.saved /\ r.root = o.reg.root /\ r.exited = o.reg.exited
  <2> DEFINE g == o.reg
  <2>1. RegOK(g) /\ (r = [g EXCEPT !.pend = TRUE] \/ r = [g EXCEPT !.intp = TRUE])
    BY <1>6, <1>9
  <2> HIDE DEF g
  <2>2. CASE r = [g EXCEPT !.pend = TRUE]
    <3>1. /\ RegOK(r) /\ r.skip = g.skip
          /\ r.nest = g.nest /\ r.redirs = g.redirs
          /\ r.locals = g.locals /\ r.files = g.files
          /\ r.saved = g.saved /\ r.root = g.root /\ r.exited = g.exited
      BY ONLY <2>1, <2>2 DEF RegOK
    <3> QED
      BY <3>1 DEF g
  <2>3. CASE r = [g EXCEPT !.intp = TRUE]
    <3>1. /\ RegOK(r) /\ r.skip = g.skip
          /\ r.nest = g.nest /\ r.redirs = g.redirs
          /\ r.locals = g.locals /\ r.files = g.files
          /\ r.saved = g.saved /\ r.root = g.root /\ r.exited = g.exited
      BY ONLY <2>1, <2>3 DEF RegOK
    <3> QED
      BY <3>1 DEF g
  <2> QED
    BY <2>1, <2>2, <2>3
<1>10. ASSUME NEW x, x.k = o.k,
              x.reg = [o.reg EXCEPT !.pend = TRUE] \/ x.reg = [o.reg EXCEPT !.intp = TRUE]
       PROVE  Waits(x, 1)
  <2>1. /\ RegOK(x.reg) /\ x.reg.skip = o.reg.skip
        /\ x.reg.nest = o.reg.nest /\ x.reg.redirs = o.reg.redirs
        /\ x.reg.locals = o.reg.locals /\ x.reg.files = o.reg.files
        /\ x.reg.saved = o.reg.saved /\ x.reg.root = o.reg.root /\ x.reg.exited = o.reg.exited
    BY <1>9, <1>10
  <2>2. Exact(o.k, x.reg) /\ Marks(o.k, x.reg, 1) /\ NoSkip(x.reg)
    BY <1>4, <2>1 DEF Waits, Exact, Marks, NoSkip
  <2> QED
    BY <1>4, <1>10, <2>1, <2>2 DEF Waits
<1>11. PICK x : parents' = [parents EXCEPT ![1] = x] /\ x.k = o.k /\ Waits(x, 1)
  BY <1>5, <1>7, <1>8, <1>10
<1>12. ctl' = ctl /\ k' = k /\ reg' = reg /\ prog' = prog
  BY DEF SignalParent
<1>13. Sound(ctl', k', reg', Here)
  BY <1>12 DEF FrameInv
<1>14. 1 = Len(parents) => Here = Len(x.k) + 1
  <2>1. 1 + 1 # 1 /\ (1 + 1) - 1 = 1
    OBVIOUS
  <2> QED
    BY <1>11, <2>1 DEF Here, Start, o
<1> QED
  BY <1>2, <1>3, <1>11, <1>12, <1>13, <1>14, OtherWait DEF o

\* The invariant holds when the shell begins.
LEMMA InitFrames ==
  ASSUME TameScripts, Init
  PROVE  FrameInv
<1> DEFINE f == [t |-> "top", rest |-> Lines(prog)]
           s == <<f>>
<1>1. /\ k = s /\ ctl = [go |-> "next"] /\ parents = <<>> /\ prog \in Scripts
      /\ RegOK(reg) /\ reg.root /\ ~reg.pend /\ NoSkip(reg)
      /\ reg.nest = 0 /\ reg.saved = -1 /\ reg.files = 0 /\ reg.redirs = 0 /\ reg.locals = 0
  BY DEF Init, RegOK, NoSkip
<1>2. f.t = "top" /\ {"t", "rest"} \subseteq DOMAIN f /\ f.rest = Lines(prog)
  OBVIOUS
<1> HIDE DEF f
<1>3. Lines(prog) \in Seq(Trees)
  BY <1>1 DEF TameScripts, Tame
<1>4. Bottomed(s) /\ Len(s) = 1 /\ Good(s, 1, reg.exited)
  BY <1>2, <1>3, BottomGood
<1> HIDE DEF s
<1>5. Nothing(s)
  BY <1>4, BottomFacts
<1>6. Exact(s, reg)
  BY <1>1, <1>5 DEF Exact, Nothing
<1>7. Marks(s, reg, 1)
  BY <1>1, <1>5 DEF Marks, Nothing
<1>8. Settled(s, reg, 1)
  BY <1>1, <1>4, <1>6, <1>7 DEF Settled
<1>9. Sound([go |-> "next"], s, reg, 1)
  BY <1>1, <1>8, NextSound
<1>10. Here = 1 /\ Len(parents) = 0
  BY <1>1 DEF Here, Start
<1> QED
  BY <1>1, <1>9, <1>10 DEF FrameInv

-----------------------------------------------------------------------------
(* The invariant says what the properties ask for.                         *)

\* The sets of frames that the properties count, as the invariant counts them.
LEMMA CountsAre ==
  ASSUME NEW b \in Nat, b > 0, Len(k) \in Nat
  PROVE  /\ Cardinality(Frames({"str", "file"}, b)) = Num("files", k, b, Len(k))
         /\ Cardinality({i \in Frames({"cmd"}, 1) : ~Special(k[i].n)}) = Num("locals", k, 1, Len(k))
         /\ Cardinality(Frames({"while", "for"}, 1 + Highest(Frames({"fun"}, 1))))
              = Loops(k, Len(k))
         /\ Frames({"trap"}, 1) = {} <=> ~Trapped(k, Len(k))
<1>1. Frames({"str", "file"}, b) = {i \in b..Len(k) : Opens("files", k[i])}
  BY DEF Frames, Opens
<1>2. {i \in Frames({"cmd"}, 1) : ~Special(k[i].n)} = {i \in 1..Len(k) : Opens("locals", k[i])}
  BY DEF Frames, Opens
<1>3. Highest(Frames({"fun"}, 1)) = Fun(k, Len(k))
  <2>1. Frames({"fun"}, 1) = {i \in 1..Len(k) : k[i].t = "fun"}
    BY DEF Frames
  <2> QED
    BY <2>1 DEF Fun
<1>4. \A m : Frames({"while", "for"}, m) = {i \in m..Len(k) : Opens("loops", k[i])}
  BY DEF Frames, Opens
<1>5. Frames({"trap"}, 1) = {} <=> ~Trapped(k, Len(k))
  BY DEF Frames, Trapped
<1> QED
  BY <1>1, <1>2, <1>3, <1>4, <1>5 DEF Num, Loops

\* A command saves descriptors in its own frame, a redirected command in that
\* of the redirection.
LEMMA RedirsAre ==
  ASSUME NEW b \in Nat, Len(k) \in Nat
  PROVE  Cardinality(Frames({"redir"}, b))
           + Cardinality({i \in Frames({"cmd"}, b) : k[i].n.redir # "none"})
         = Num("redirs", k, b, Len(k))
<1> DEFINE S == Frames({"redir"}, b)
           T == {i \in Frames({"cmd"}, b) : k[i].n.redir # "none"}
           U == {i \in b..Len(k) : Opens("redirs", k[i])}
<1>1. U = S \cup T /\ S \cap T = {}
  BY DEF Frames, Opens
<1>2. IsFiniteSet(U) /\ Num("redirs", k, b, Len(k)) = Cardinality(U)
  <2>1. b \in Int /\ Len(k) \in Int
    OBVIOUS
  <2> QED
    BY <2>1, NumIs DEF Num
<1> HIDE DEF S, T, U
<1>3. S \in SUBSET U /\ T \in SUBSET U
  BY <1>1
<1>4. IsFiniteSet(S) /\ IsFiniteSet(T)
  BY <1>2, <1>3, FS_Subset
<1>5. Cardinality(S \cap T) = 0
  BY <1>1, FS_EmptySet
<1>6. /\ Cardinality(S) \in Nat /\ Cardinality(T) \in Nat
      /\ Cardinality(S \cup T) = Cardinality(S) + Cardinality(T) - Cardinality(S \cap T)
  BY <1>4, FS_Union, FS_CardinalityType
<1>7. Cardinality(U) = Cardinality(S) + Cardinality(T)
  BY <1>1, <1>5, <1>6
<1> QED
  BY <1>2, <1>7 DEF S, T

\* The frame of exitshell is there only when the shell is on its way out.
LEMMA HandlerIs ==
  ASSUME Inv, FrameInv, ctl.go \in {"eval", "next"}, ~reg.exited
  PROVE  reg.handler = Highest(Frames({"bltin", "fun"}, 1))
<1> DEFINE S == Frames({"bltin", "fun"}, 1)
           h == reg.handler
           n == Len(k)
<1>1. Sound(ctl, k, reg, Here) /\ Len(k) \in Nat
  BY AtSound DEF FrameInv
<1>2. Innermost(k, n, h)
  BY DEF Inv, Running, Stacked
<1>3. \A i \in 1..n : k[i].t # "exit"
  BY <1>1 DEF Sound, Good, Placed
<1>4. /\ h \in 0..n /\ (h > 0 => k[h].t \in {"bltin", "fun"})
      /\ \A j \in (h + 1)..n : k[j].t \notin {"bltin", "fun"}
  BY <1>2, <1>3 DEF Innermost, Handlers
<1>5. S = {i \in 1..n : k[i].t \in {"bltin", "fun"}}
  BY DEF Frames
<1> HIDE DEF S, h, n
<1>6. n \in Nat /\ S \subseteq 1..n
  BY <1>1, <1>5 DEF n
<1>7. /\ Highest(S) \in 0..n
      /\ S # {} => Highest(S) \in S /\ \A j \in S : j <= Highest(S)
      /\ S = {} => Highest(S) = 0
  BY ONLY <1>6, HighestIs
<1>8. ASSUME h = 0
      PROVE  h = Highest(S)
  <2>1. (h + 1)..n = 1..n
    BY <1>8
  <2>2. S = {}
    BY <1>4, <1>5, <2>1
  <2> QED
    BY <1>7, <1>8, <2>2
<1>9. ASSUME h > 0
      PROVE  h = Highest(S)
  <2>1. h \in 1..n
    BY <1>4, <1>6, <1>9
  <2>2. h \in S
    BY <1>4, <1>5, <1>9, <2>1
  <2>3. Highest(S) \in S /\ h <= Highest(S)
    BY <1>7, <2>2
  <2>4. Highest(S) \in 1..n /\ k[Highest(S)].t \in {"bltin", "fun"}
    BY <1>5, <2>3
  <2>5. Highest(S) \notin (h + 1)..n
    BY <1>4, <2>4
  <2> QED
    BY <1>6, <2>1, <2>3, <2>4, <2>5
<1>10. h \in Nat
  BY <1>4, <1>6
<1> QED
  BY <1>8, <1>9, <1>10 DEF S, h

\* The process that runs has begun where the properties say.
LEMMA BaseIs ==
  ASSUME Inv
  PROVE  Base = Here
<1>1. Len(parents) \in Nat /\ DOMAIN parents = 1..Len(parents)
  BY StackShape DEF Inv, AllWait
<1>2. parents = <<>> <=> Len(parents) = 0
  BY <1>1 DEF Inv, AllWait, IsStack
<1>3. (Len(parents) + 1) - 1 = Len(parents) /\ (Len(parents) + 1 = 1 <=> Len(parents) = 0)
  BY <1>1
<1>4. Last(parents) = parents[Len(parents)]
  BY DEF Last
<1> QED
  BY <1>2, <1>3, <1>4 DEF Base, Here, Start

\* loopnest and the lists, where a command begins or the next is read; and a
\* break on its way has a loop.
LEMMA FramesFollow ==
  ASSUME Inv, FrameInv
  PROVE  FramesMatch
<1>1. ctl.go # "halt" => Len(k) \in Nat /\ Sound(ctl, k, reg, Here) /\ Here \in Nat /\ Here > 0
  BY AtSound
<1>2. Base = Here
  BY BaseIs
<1>3. ASSUME ctl.go \in {"eval", "next"}, ~reg.exited
      PROVE  RegistersMatch
  <2>1. Len(k) \in Nat /\ Sound(ctl, k, reg, Here) /\ Here \in Nat /\ Here > 0
    BY <1>1, <1>3
  <2>2. Exact(k, reg) /\ Marks(k, reg, Here)
    BY <1>3, <2>1 DEF Sound, Onward
  <2>3. /\ reg.nest = Loops(k, Len(k)) /\ (reg.saved = -1 <=> ~Trapped(k, Len(k)))
        /\ reg.files = Num("files", k, Here, Len(k))
        /\ reg.redirs = Num("redirs", k, Here, Len(k))
        /\ reg.locals = Num("locals", k, 1, Len(k))
    BY <1>3, <2>2 DEF Exact, Marks
  <2>4. reg.handler = Highest(Frames({"bltin", "fun"}, 1))
    BY <1>3, HandlerIs
  <2>5. reg.files = Cardinality(Frames({"str", "file"}, Base))
    BY <1>2, <2>1, <2>3, CountsAre
  <2>6. reg.locals = Cardinality({i \in Frames({"cmd"}, 1) : ~Special(k[i].n)})
    BY <2>1, <2>3, CountsAre
  <2>7. reg.nest = Cardinality(Frames({"while", "for"}, 1 + Highest(Frames({"fun"}, 1))))
    BY <2>1, <2>3, CountsAre
  <2>8. (reg.saved = -1) <=> (Frames({"trap"}, 1) = {})
    BY <2>1, <2>3, CountsAre
  <2>9. reg.redirs = Cardinality(Frames({"redir"}, Base))
              + Cardinality({i \in Frames({"cmd"}, Base) : k[i].n.redir # "none"})
    BY <1>2, <2>1, <2>3, RedirsAre
  <2> QED
    BY <2>4, <2>5, <2>6, <2>7, <2>8, <2>9 DEF RegistersMatch
<1>4. RegistersMatch
  BY <1>3 DEF RegistersMatch
<1>5. ASSUME reg.skip \in {"break", "cont"}, ctl.go \notin {"throw", "halt"}
      PROVE  SkipHasTarget
  <2>1. Len(k) \in Nat /\ Sound(ctl, k, reg, Here) /\ Here \in Nat /\ Here > 0
    BY <1>1, <1>5
  <2>2. reg.count \in 1..Loops(k, Len(k))
    BY <1>5, <2>1 DEF Sound, Onward, NoSkip
  <2>3. Cardinality(Frames({"while", "for"}, 1 + Highest(Frames({"fun"}, 1)))) = Loops(k, Len(k))
    BY <2>1, CountsAre
  <2> QED
    BY <2>2, <2>3 DEF SkipHasTarget
<1> QED
  BY <1>4, <1>5 DEF SkipHasTarget, FramesMatch

-----------------------------------------------------------------------------
(* Every step keeps it.                                                    *)

\* One case for each action.
LEMMA NextFrames ==
  ASSUME TameScripts, Inv, FrameInv, [Next]_vars
  PROVE  FrameInv'
<1>1. ASSUME Sound(ctl', k', reg', Here), prog' = prog, parents' = parents
      PROVE  FrameInv'
  BY <1>1, SameParents
<1>2. ASSUME Construct
      PROVE  FrameInv'
  <2>1. CASE Enter
    BY <2>1, <1>1, EnterMatches DEF Enter, Quiet
  <2>2. CASE Not
    BY <2>2, <1>1, NotMatches DEF Not, Quiet
  <2>3. CASE Binary
    BY <2>3, <1>1, BinaryMatches DEF Binary, Quiet
  <2>4. CASE If
    BY <2>4, <1>1, IfMatches DEF If, Quiet
  <2>5. CASE Leave
    BY <2>5, <1>1, LeaveMatches DEF Leave, Quiet
  <2>6. CASE EnterLoop
    BY <2>6, <1>1, EnterLoopMatches DEF EnterLoop, Quiet
  <2>7. CASE evalloop
    BY <2>7, <1>1, evalloopMatches DEF evalloop, Quiet
  <2>8. CASE evalfor
    BY <2>8, <1>1, evalforMatches DEF evalfor, Quiet
  <2>9. CASE EnterRedir
    BY <2>9, <1>1, EnterRedirMatches DEF EnterRedir, Quiet
  <2>10. CASE popredir
    BY <2>10, <1>1, popredirMatches DEF popredir, Quiet
  <2> QED
    BY <1>2, <2>1, <2>2, <2>3, <2>4, <2>5, <2>6, <2>7, <2>8, <2>9, <2>10, EnterForkMatches, ChildGoneMatches
       DEF Construct
<1>3. ASSUME Command
      PROVE  FrameInv'
  <2>1. CASE CmdExpand
    BY <2>1, <1>1, CmdExpandMatches DEF CmdExpand, Quiet
  <2>2. CASE CmdFails
    BY <2>2, <1>1, CmdFailsMatches DEF CmdFails, Quiet
  <2>3. CASE CmdRun
    BY <2>3, <1>1, CmdRunMatches DEF CmdRun
  <2>4. CASE CmdTick
    BY <2>4, <1>1, CmdTickMatches DEF CmdTick, Quiet
  <2>5. CASE CmdBltinError
    BY <2>5, <1>1, CmdBltinErrorMatches DEF CmdBltinError, Quiet
  <2>6. CASE breakcmd
    BY <2>6, <1>1, breakcmdMatches DEF breakcmd, Quiet
  <2>7. CASE returncmd
    BY <2>7, <1>1, returncmdMatches DEF returncmd, Quiet
  <2>8. CASE exitcmd
    BY <2>8, <1>1, exitcmdMatches DEF exitcmd, Quiet
  <2>9. CASE CmdText
    BY <2>9, <1>1, CmdTextMatches DEF CmdText, Quiet
  <2>10. CASE evalfun
    BY <2>10, <1>1, evalfunMatches DEF evalfun, Quiet
  <2>11. CASE FunBack
    BY <2>11, <1>1, FunBackMatches DEF FunBack, Quiet
  <2>12. CASE BltinBack
    BY <2>12, <1>1, BltinBackMatches DEF BltinBack, Quiet
  <2>13. CASE CmdBack
    BY <2>13, <1>1, CmdBackMatches DEF CmdBack, Quiet
  <2> QED
    BY <1>3, <2>1, <2>2, <2>3, <2>4, <2>5, <2>6, <2>7, <2>8, <2>9, <2>10, <2>11, <2>12, <2>13
       DEF Command
<1>4. ASSUME Input \/ Catch
      PROVE  FrameInv'
  <2>1. CASE NextCommand
    BY <2>1, <1>1, NextCommandMatches DEF NextCommand, Quiet
  <2>2. CASE TextBack
    BY <2>2, <1>1, TextBackMatches DEF TextBack, Quiet
  <2>3. CASE TopLevel
    BY <2>3, <1>1, TopLevelMatches DEF TopLevel, Quiet
  <2>4. CASE CatchBltin
    BY <2>4, <1>1, CatchBltinMatches DEF CatchBltin, Quiet
  <2>5. CASE CatchFun
    BY <2>5, <1>1, CatchFunMatches DEF CatchFun, Quiet
  <2>6. CASE CatchMain
    BY <2>6, <1>1, CatchMainMatches DEF CatchMain, Quiet
  <2>7. CASE ExitDone
    BY <2>7, <1>1, ExitDoneMatches DEF ExitDone, Quiet
  <2> QED
    BY <1>4, <2>1, <2>2, <2>3, <2>4, <2>5, <2>6, <2>7
       DEF Input, Catch
<1>5. ASSUME Trap
      PROVE  FrameInv'
  <2>1. CASE dotrap
    BY <2>1, <1>1, dotrapMatches DEF dotrap, Quiet
  <2>2. CASE TrapBack
    BY <2>2, <1>1, TrapBackMatches DEF TrapBack, Quiet
  <2>3. CASE Signal
    BY <2>3, <1>1, SignalMatches DEF Signal
  <2> QED
    BY <1>5, <2>1, <2>2, <2>3, SignalParentMatches
       DEF Trap
<1>6. CASE UNCHANGED vars
  <2>1. ctl' = ctl /\ k' = k /\ reg' = reg /\ prog' = prog /\ parents' = parents
    BY <1>6 DEF vars
  <2> QED
    BY <1>1, <2>1 DEF FrameInv
<1> QED
  BY <1>2, <1>3, <1>4, <1>5, <1>6 DEF Next

\* In every state of a shell whose scripts are tame, the registers say what the
\* stack says, and what is skipped has a place to end (eval.c, error.c, input.c).
THEOREM FramesTheorem ==
  ASSUME TameScripts
  PROVE  Spec => []FramesMatch
<1>1. Init => Inv /\ FrameInv
  BY InitInv, InitFrames
<1>2. Inv /\ FrameInv /\ [Next]_vars => (Inv /\ FrameInv)'
  BY NextInv, NextFrames
<1>3. Inv /\ FrameInv => FramesMatch
  BY FramesFollow
<1> QED
  BY <1>1, <1>2, <1>3, PTL DEF Spec

=============================================================================
