--------------------------- MODULE DashJobs_proof ---------------------------
(***************************************************************************)
(* Proofs about DashJobs, for any processes and any number of slots: every *)
(* status the table holds is that of the process it names, no child is     *)
(* lost to the table, a status is never asked for before it is there, and  *)
(* the shell never goes to sleep on news it would not hear of.             *)
(***************************************************************************)
EXTENDS DashJobs, SequenceTheorems, WellFoundedInduction, TLAPS

USE DashJobsAssumption

-----------------------------------------------------------------------------
(* Lists of jobs.                                                          *)

Lists(c, x) == \E i \in 1 .. Len(c) : c[i] = x
Once(c) == \A i, k \in 1 .. Len(c) : c[i] = c[k] => i = k

\* The two parts of a list that are kept when something happens between them.
LEMMA Parts ==
  ASSUME NEW S, NEW c \in Seq(S), NEW a \in 0 .. Len(c), NEW b \in 1 .. Len(c) + 1
  PROVE  /\ SubSeq(c, 1, a) \in Seq(S) /\ Len(SubSeq(c, 1, a)) = a
         /\ \A i \in 1 .. a : SubSeq(c, 1, a)[i] = c[i]
         /\ SubSeq(c, b, Len(c)) \in Seq(S) /\ Len(SubSeq(c, b, Len(c))) = Len(c) + 1 - b
         /\ \A i \in 1 .. Len(c) + 1 - b : SubSeq(c, b, Len(c))[i] = c[b + i - 1]
<1>1. /\ 1 \in Int /\ a \in Int /\ b \in Int /\ Len(c) \in Int /\ Len(c) \in Nat
      /\ \A i \in 1 .. a : c[i] \in S
      /\ \A i \in b .. Len(c) : c[i] \in S
  BY ElementOfSeq
<1>2. /\ SubSeq(c, 1, a) \in Seq(S)
      /\ Len(SubSeq(c, 1, a)) = IF 1 <= a THEN a - 1 + 1 ELSE 0
      /\ \A i \in 1 .. a - 1 + 1 : SubSeq(c, 1, a)[i] = c[1 + i - 1]
  BY <1>1, SubSeqProperties
<1>3. /\ SubSeq(c, b, Len(c)) \in Seq(S)
      /\ Len(SubSeq(c, b, Len(c))) = IF b <= Len(c) THEN Len(c) - b + 1 ELSE 0
      /\ \A i \in 1 .. Len(c) - b + 1 : SubSeq(c, b, Len(c))[i] = c[b + i - 1]
  BY <1>1, SubSeqProperties
<1> QED
  BY <1>1, <1>2, <1>3

\* Taking a job out of a list leaves the others, each once.
LEMMA RemoveFirstLists ==
  ASSUME NEW S, NEW c \in Seq(S), Once(c), NEW j
  PROVE  /\ RemoveFirst(c, j) \in Seq(S) /\ Once(RemoveFirst(c, j))
         /\ \A x : Lists(RemoveFirst(c, j), x) <=> Lists(c, x) /\ x # j
<1>1. CASE ~ Lists(c, j)
  <2>1. RemoveFirst(c, j) = c
    BY <1>1 DEF RemoveFirst, Lists
  <2> QED
    BY <1>1, <2>1 DEF Lists
<1>2. CASE Lists(c, j)
  <2>1. PICK p \in 1 .. Len(c) : c[p] = j
    BY <1>2 DEF Lists
  <2>2. {i \in 1 .. Len(c) : c[i] = j} = {p}
    BY <2>1 DEF Once
  <2>3. Min({p}) = p
    BY DEF Min
  <2>4. SelectInSeq(c, LAMBDA v : v = j) = p
    BY <2>2, <2>3 DEF SelectInSeq
  <2>5. RemoveFirst(c, j) = RemoveAt(c, p)
    BY <2>1, <2>4 DEF RemoveFirst
  <2> DEFINE d == SubSeq(c, 1, p - 1) \o SubSeq(c, p + 1, Len(c))
  <2>6. RemoveFirst(c, j) = d
    BY <2>5 DEF RemoveAt
  <2> DEFINE u == SubSeq(c, 1, p - 1)
             v == SubSeq(c, p + 1, Len(c))
  <2>a. Len(c) \in Nat /\ p - 1 \in 0 .. Len(c) /\ p + 1 \in 1 .. Len(c) + 1
    BY <2>1
  <2>b. /\ u \in Seq(S) /\ Len(u) = p - 1 /\ \A i \in 1 .. p - 1 : u[i] = c[i]
        /\ v \in Seq(S) /\ Len(v) = Len(c) + 1 - (p + 1)
        /\ \A i \in 1 .. Len(c) + 1 - (p + 1) : v[i] = c[p + 1 + i - 1]
    BY <2>a, Parts
  <2>c. /\ d = u \o v
    OBVIOUS
  <2> HIDE DEF u, v, d
  <2>d. /\ d \in Seq(S) /\ Len(d) = Len(u) + Len(v)
        /\ \A i \in 1 .. Len(u) + Len(v) : d[i] = IF i <= Len(u) THEN u[i] ELSE v[i - Len(u)]
    BY <2>b, <2>c, ConcatProperties
  <2>7. d \in Seq(S) /\ Len(d) = Len(c) - 1
    BY <2>a, <2>b, <2>d
  <2>8. \A i \in 1 .. Len(c) - 1 : d[i] = IF i < p THEN c[i] ELSE c[i + 1]
    BY <2>a, <2>b, <2>d
  <2>9. Once(d)
    BY <2>1, <2>7, <2>8 DEF Once
  <2>10. ASSUME NEW x
         PROVE  Lists(d, x) <=> Lists(c, x) /\ x # j
    <3>1. ASSUME NEW i \in 1 .. Len(d), d[i] = x
          PROVE  Lists(c, x) /\ x # j
      BY <3>1, <2>1, <2>7, <2>8 DEF Lists, Once
    <3>2. ASSUME NEW i \in 1 .. Len(c), c[i] = x, x # j
          PROVE  Lists(d, x)
      <4>1. i < p => i \in 1 .. Len(d) /\ d[i] = x
        BY <3>2, <2>1, <2>7, <2>8
      <4>2. i > p => i - 1 \in 1 .. Len(d) /\ d[i - 1] = x
        BY <3>2, <2>1, <2>7, <2>8
      <4>3. i # p
        BY <3>2, <2>1
      <4> QED
        BY <4>1, <4>2, <4>3 DEF Lists
    <3> QED
      BY <3>1, <3>2 DEF Lists
  <2> QED
    BY <2>6, <2>7, <2>9, <2>10
<1> QED
  BY <1>1, <1>2

\* Putting a job into a list that does not have it.
LEMMA InsertLists ==
  ASSUME NEW S, NEW c \in Seq(S), Once(c), NEW j \in S, ~ Lists(c, j), NEW k \in 0 .. Len(c)
  PROVE  LET d == SubSeq(c, 1, k) \o <<j>> \o SubSeq(c, k + 1, Len(c))
         IN  d \in Seq(S) /\ Once(d) /\ \A x : Lists(d, x) <=> Lists(c, x) \/ x = j
<1> DEFINE d == SubSeq(c, 1, k) \o <<j>> \o SubSeq(c, k + 1, Len(c))
<1> DEFINE u == SubSeq(c, 1, k)
           v == SubSeq(c, k + 1, Len(c))
           w == u \o <<j>>
<1>a. Len(c) \in Nat /\ k + 1 \in 1 .. Len(c) + 1
  OBVIOUS
<1>b. /\ u \in Seq(S) /\ Len(u) = k /\ \A i \in 1 .. k : u[i] = c[i]
      /\ v \in Seq(S) /\ Len(v) = Len(c) + 1 - (k + 1)
      /\ \A i \in 1 .. Len(c) + 1 - (k + 1) : v[i] = c[k + 1 + i - 1]
  BY <1>a, Parts
<1>c. <<j>> \in Seq(S) /\ Len(<<j>>) = 1 /\ <<j>>[1] = j
  OBVIOUS
<1>d. d = w \o v
  OBVIOUS
<1> HIDE DEF u, v, d
<1>e. /\ w \in Seq(S) /\ Len(w) = k + 1
      /\ \A i \in 1 .. k + 1 : w[i] = IF i <= k THEN u[i] ELSE <<j>>[i - k]
  <2>1. /\ w \in Seq(S) /\ Len(w) = Len(u) + Len(<<j>>)
        /\ \A i \in 1 .. Len(u) + Len(<<j>>) :
             w[i] = IF i <= Len(u) THEN u[i] ELSE <<j>>[i - Len(u)]
    BY <1>b, <1>c, ConcatProperties
  <2> HIDE DEF w
  <2> QED
    BY <2>1, <1>a, <1>b, <1>c
<1> HIDE DEF w
<1>g. (\A i \in 1 .. k : w[i] = c[i]) /\ w[k + 1] = j
  <2>1. k + 1 \in 1 .. k + 1 /\ ~ (k + 1 <= k) /\ (k + 1) - k = 1
    OBVIOUS
  <2>2. w[k + 1] = <<j>>[(k + 1) - k]
    BY <2>1, <1>e
  <2>3. \A i \in 1 .. k : i \in 1 .. k + 1 /\ i <= k
    OBVIOUS
  <2> QED
    BY <2>1, <2>2, <2>3, <1>b, <1>c, <1>e
<1>f. /\ d \in Seq(S) /\ Len(d) = Len(w) + Len(v)
      /\ \A i \in 1 .. Len(w) + Len(v) : d[i] = IF i <= Len(w) THEN w[i] ELSE v[i - Len(w)]
  <2>1. w \in Seq(S) /\ v \in Seq(S)
    BY <1>b, <1>e
  <2>2. /\ w \o v \in Seq(S) /\ Len(w \o v) = Len(w) + Len(v)
        /\ \A i \in 1 .. Len(w) + Len(v) :
             (w \o v)[i] = IF i <= Len(w) THEN w[i] ELSE v[i - Len(w)]
    BY ONLY <2>1, ConcatProperties
  <2> QED
    BY <1>d, <2>2
<1>1. d \in Seq(S) /\ Len(d) = Len(c) + 1
  BY <1>a, <1>b, <1>e, <1>f
<1>2. ASSUME NEW i \in 1 .. Len(c) + 1
      PROVE  d[i] = IF i <= k THEN c[i] ELSE IF i = k + 1 THEN j ELSE c[i - 1]
  <2>1. CASE i <= k
    <3>1. d[i] = w[i]
      BY <2>1, <1>a, <1>b, <1>e, <1>f
    <3> QED
      BY <2>1, <3>1, <1>g
  <2>2. CASE i = k + 1
    <3>1. d[i] = w[i]
      BY <2>2, <1>a, <1>b, <1>e, <1>f
    <3> QED
      BY <2>2, <3>1, <1>g
  <2>3. CASE i > k + 1
    <3>1. d[i] = v[i - (k + 1)] /\ i - (k + 1) \in 1 .. Len(c) + 1 - (k + 1)
      BY <2>3, <1>a, <1>b, <1>e, <1>f
    <3>2. (k + 1) + (i - (k + 1)) - 1 = i - 1
      OBVIOUS
    <3> QED
      BY <2>3, <3>1, <3>2, <1>b
  <2> QED
    BY <2>1, <2>2, <2>3
<1>h. /\ \A i \in 1 .. k : i \in 1 .. Len(d) /\ d[i] = c[i]
      /\ k + 1 \in 1 .. Len(d) /\ d[k + 1] = j
      /\ \A i \in k + 2 .. Len(d) : d[i] = c[i - 1] /\ i - 1 \in k + 1 .. Len(c)
  BY <1>a, <1>1, <1>2
<1>3. Once(d)
  <2>1. \A i \in 1 .. Len(c) : c[i] # j
    BY DEF Lists
  <2> DEFINE old(i) == IF i <= k THEN i ELSE i - 1
  <2>2. ASSUME NEW i \in 1 .. Len(d), i # k + 1
        PROVE  old(i) \in 1 .. Len(c) /\ d[i] = c[old(i)]
    BY <2>2, <1>a, <1>1, <1>h
  <2>3. ASSUME NEW i \in 1 .. Len(d), NEW m \in 1 .. Len(d), d[i] = d[m]
        PROVE  i = m
    <3>1. CASE i = k + 1
      BY <2>1, <2>2, <2>3, <3>1, <1>h
    <3>2. CASE m = k + 1
      BY <2>1, <2>2, <2>3, <3>2, <1>h
    <3>3. CASE i # k + 1 /\ m # k + 1
      <4>1. old(i) = old(m)
        BY <2>2, <2>3, <3>3 DEF Once
      <4> QED
        BY <4>1, <3>3
    <3> QED
      BY <3>1, <3>2, <3>3
  <2> QED
    BY <2>3 DEF Once
<1>4. ASSUME NEW x
      PROVE  Lists(d, x) <=> Lists(c, x) \/ x = j
  <2>1. ASSUME NEW i \in 1 .. Len(d), d[i] = x
        PROVE  Lists(c, x) \/ x = j
    <3>1. i <= k => i \in 1 .. Len(c) /\ c[i] = x
      BY <2>1, <1>a, <1>h
    <3>2. i > k + 1 => i - 1 \in 1 .. Len(c) /\ c[i - 1] = x
      BY <2>1, <1>a, <1>1, <1>h
    <3> QED
      BY <2>1, <3>1, <3>2, <1>h DEF Lists
  <2>2. ASSUME NEW i \in 1 .. Len(c), c[i] = x
        PROVE  Lists(d, x)
    <3>1. i <= k => i \in 1 .. Len(d) /\ d[i] = x
      BY <2>2, <1>1, <1>2
    <3>2. i > k => i + 1 \in 1 .. Len(d) /\ d[i + 1] = x
      BY <2>2, <1>1, <1>2
    <3> QED
      BY <3>1, <3>2 DEF Lists
  <2>3. Lists(d, j)
    BY <1>h DEF Lists
  <2> QED
    BY <2>1, <2>2, <2>3 DEF Lists
<1> QED
  BY <1>1, <1>3, <1>4 DEF d

\* A new head.
LEMMA PushLists ==
  ASSUME NEW S, NEW c \in Seq(S), Once(c), NEW j \in S, ~ Lists(c, j)
  PROVE  /\ <<j>> \o c \in Seq(S) /\ Once(<<j>> \o c)
         /\ \A x : Lists(<<j>> \o c, x) <=> Lists(c, x) \/ x = j
<1>1. SubSeq(c, 1, 0) \o <<j>> \o SubSeq(c, 0 + 1, Len(c)) = <<j>> \o c
  OBVIOUS
<1> DEFINE d == SubSeq(c, 1, 0) \o <<j>> \o SubSeq(c, 0 + 1, Len(c))
<1>2. d \in Seq(S) /\ Once(d) /\ \A x : Lists(d, x) <=> Lists(c, x) \/ x = j
  BY InsertLists
<1> HIDE DEF d
<1> QED
  BY <1>1, <1>2 DEF d

\* A set of numbers has a least one.
LEMMA LeastNumber ==
  ASSUME NEW S, S \subseteq Nat, S # {}
  PROVE  \E x \in S : \A y \in S : x <= y
<1> DEFINE R == {ss \in Nat \X Nat : ss[1] < ss[2]}
<1>1. IsWellFoundedOn(R, Nat)
  BY NatLessThanWellFounded DEF OpToRel
<1>2. PICK x \in S : \A y \in S : ~ (<<y, x>> \in R)
  <2> HIDE DEF R
  <2> QED
    BY <1>1, WFMin
<1>3. ASSUME NEW y \in S
      PROVE  x <= y
  <2>1. <<y, x>> \in Nat \X Nat /\ <<y, x>>[1] = y /\ <<y, x>>[2] = x
    OBVIOUS
  <2>2. ~ (y < x)
    BY <1>2, <2>1
  <2> QED
    BY <2>2
<1> QED
  BY <1>3

\* set_curjob moves the job, or takes it out, and leaves the others.
LEMMA SetCurjobLists ==
  ASSUME NEW c \in Seq(Slot), Once(c), NEW tab, NEW j \in Slot,
         NEW mode \in {"DELETE", "RUNNING", "STOPPED"}
  PROVE  LET d == set_curjob(c, tab, j, mode)
         IN  /\ d \in Seq(Slot) /\ Once(d)
             /\ \A x : Lists(d, x) <=> IF x = j THEN mode # "DELETE" ELSE Lists(c, x)
<1> DEFINE rest == RemoveFirst(c, j)
           Stopped(k) == /\ \A n \in 1 .. k : tab[rest[n]].state = "stopped"
                         /\ k < Len(rest) => tab[rest[k + 1]].state # "stopped"
<1>1. /\ rest \in Seq(Slot) /\ Once(rest)
      /\ \A x : Lists(rest, x) <=> Lists(c, x) /\ x # j
  BY RemoveFirstLists
<1> HIDE DEF rest
<1>2. CASE mode = "DELETE"
  <2>1. set_curjob(c, tab, j, mode) = rest
    BY <1>2 DEF set_curjob, rest
  <2> QED
    BY <1>1, <1>2, <2>1
<1>3. CASE mode = "STOPPED"
  <2>1. set_curjob(c, tab, j, mode) = <<j>> \o rest
    BY <1>3 DEF set_curjob, rest
  <2>2. ~ Lists(rest, j)
    BY <1>1
  <2>3. /\ <<j>> \o rest \in Seq(Slot) /\ Once(<<j>> \o rest)
        /\ \A x : Lists(<<j>> \o rest, x) <=> Lists(rest, x) \/ x = j
    BY <1>1, <2>2, PushLists
  <2> QED
    BY <1>1, <1>3, <2>1, <2>3
<1>4. CASE mode = "RUNNING"
  <2>1. \E k \in 0 .. Len(rest) : Stopped(k)
    <3> DEFINE S == {k \in 0 .. Len(rest) : k < Len(rest) => tab[rest[k + 1]].state # "stopped"}
    <3>1. S \subseteq Nat /\ Len(rest) \in S
      BY <1>1
    <3>2. PICK x \in S : \A y \in S : x <= y
      <4> HIDE DEF S
      <4> QED
        BY <3>1, LeastNumber
    <3>3. ASSUME NEW n \in 1 .. x
          PROVE  tab[rest[n]].state = "stopped"
      <4>1. n - 1 \in 0 .. Len(rest) /\ n - 1 < Len(rest) /\ n - 1 < x /\ (n - 1) + 1 = n
        BY <1>1, <3>2
      <4>2. n - 1 \notin S
        BY <3>2, <4>1
      <4> QED
        BY <4>1, <4>2
    <3> QED
      BY <3>2, <3>3
  <2> DEFINE k == CHOOSE n \in 0 .. Len(rest) : Stopped(n)
  <2>2. k \in 0 .. Len(rest)
    BY <2>1
  <2>3. set_curjob(c, tab, j, mode) = SubSeq(rest, 1, k) \o <<j>> \o SubSeq(rest, k + 1, Len(rest))
    BY <1>4 DEF set_curjob, rest
  <2>4. ~ Lists(rest, j)
    BY <1>1
  <2> HIDE DEF k
  <2> DEFINE d == SubSeq(rest, 1, k) \o <<j>> \o SubSeq(rest, k + 1, Len(rest))
  <2>5. d \in Seq(Slot) /\ Once(d) /\ \A x : Lists(d, x) <=> Lists(rest, x) \/ x = j
    BY <1>1, <2>2, <2>4, InsertLists
  <2> HIDE DEF d
  <2> QED
    BY <1>1, <1>4, <2>3, <2>5 DEF d
<1> QED
  BY <1>2, <1>3, <1>4

\* Induction over numbers, for a set of them.
LEMMA AllNumbers ==
  ASSUME NEW T, 0 \in T, \A k \in Nat : k \in T => k + 1 \in T
  PROVE  \A k \in Nat : k \in T
<1> DEFINE Rest == Nat \ T
<1>1. SUFFICES ASSUME Rest # {}
               PROVE  FALSE
  OBVIOUS
<1>2. PICK x \in Rest : \A y \in Rest : x <= y
  <2>1. Rest \subseteq Nat
    OBVIOUS
  <2> HIDE DEF Rest
  <2> QED
    BY <1>1, <2>1, LeastNumber
<1>3. x # 0 /\ x - 1 \in Nat /\ x - 1 \notin Rest
  BY <1>2
<1> QED
  BY <1>2, <1>3

\* One step of Unlisted: a job to be freed is taken out of the list.
Off(F, d, j) == IF j \in F THEN RemoveFirst(d, j) ELSE d

\* FoldLeft takes the elements away from the end of the list, one at a time; these
\* are its equations, for the elements at the places s and for a function g that
\* would satisfy them.
Greatest(s) == CHOOSE x \in s : \A y \in s : x >= y
Equation(F, t, l, g, s) ==
  IF s = {} THEN t ELSE Off(F, g[s \ {Greatest(s)}], l[Greatest(s)])
Folds(F, t, l, n, g) == g = [s \in SUBSET (1 .. n) |-> Equation(F, t, l, g, s)]
Fold(F, t, l) == CHOOSE g : Folds(F, t, l, Len(l), g)

\* The list after the first k steps of a walk.
Walked(F, t, l, k) == Fold(F, t, l)[1 .. k]

\* The greatest of some places that include the last one is the last one.
LEMMA GreatestIsLast ==
  ASSUME NEW n \in Nat, NEW s, s \subseteq 1 .. n, n \in s
  PROVE  Greatest(s) = n
<1>1. \A y \in s : y \in Nat /\ n >= y
  OBVIOUS
<1>2. \A x \in s : (\A y \in s : x >= y) => x = n
  BY <1>1
<1> QED
  BY <1>1, <1>2 DEF Greatest

\* The equations have a solution.
LEMMA FoldExists ==
  ASSUME NEW F, NEW t, NEW l
  PROVE  \A n \in Nat : \E g : Folds(F, t, l, n, g)
<1> DEFINE T == {n \in Nat : \E g : Folds(F, t, l, n, g)}
<1>1. 0 \in T
  <2>1. SUBSET (1 .. 0) = {{}}
    OBVIOUS
  <2>2. Folds(F, t, l, 0, [s \in SUBSET (1 .. 0) |-> t])
    BY <2>1 DEF Folds, Equation
  <2> QED
    BY <2>2
<1>2. ASSUME NEW n \in Nat, n \in T
      PROVE  n + 1 \in T
  <2>1. PICK g : Folds(F, t, l, n, g)
    BY <1>2
  <2> DEFINE m == n + 1
             h == [s \in SUBSET (1 .. m) |->
                     IF m \in s THEN Off(F, g[s \ {m}], l[m]) ELSE g[s]]
  <2>2. ASSUME NEW s \in SUBSET (1 .. m)
        PROVE  h[s] = Equation(F, t, l, h, s)
    <3>1. CASE m \in s
      <4>1. Greatest(s) = m /\ s # {}
        <5>1. m \in Nat /\ s \subseteq 1 .. m
          OBVIOUS
        <5> QED
          BY <3>1, <5>1, GreatestIsLast
      <4>2. s \ {m} \in SUBSET (1 .. n) /\ s \ {m} \in SUBSET (1 .. m)
        OBVIOUS
      <4>3. h[s \ {m}] = g[s \ {m}]
        BY <4>2
      <4>4. h[s] = Off(F, g[s \ {m}], l[m])
        BY <3>1
      <4> HIDE DEF h, m
      <4> QED
        BY <4>1, <4>3, <4>4 DEF Equation
    <3>2. CASE m \notin s
      <4>1. s \in SUBSET (1 .. n)
        BY <3>2
      <4>2. h[s] = g[s] /\ g[s] = Equation(F, t, l, g, s)
        BY <2>1, <3>2, <4>1 DEF Folds
      <4>3. s \ {Greatest(s)} \in SUBSET (1 .. n) /\ s \ {Greatest(s)} \in SUBSET (1 .. m)
        BY <4>1
      <4>4. m \notin s \ {Greatest(s)}
        BY <3>2
      <4>5. h[s \ {Greatest(s)}] = g[s \ {Greatest(s)}]
        BY <4>3, <4>4
      <4> HIDE DEF h, m
      <4> QED
        BY <4>2, <4>5 DEF Equation
    <3> QED
      BY <3>1, <3>2
  <2>3. h = [s \in SUBSET (1 .. m) |-> h[s]]
    OBVIOUS
  <2> HIDE DEF h
  <2>4. Folds(F, t, l, m, h)
    BY <2>2, <2>3 DEF Folds
  <2> QED
    BY <2>4
<1> HIDE DEF T
<1>3. \A n \in Nat : n \in T
  BY <1>1, <1>2, AllNumbers
<1> QED
  BY <1>3 DEF T

\* A step of the walk follows the steps before it.
StepByStep(F, t, l) ==
  /\ Walked(F, t, l, 0) = t
  /\ \A k \in 1 .. Len(l) : Walked(F, t, l, k) = Off(F, Walked(F, t, l, k - 1), l[k])

\* Any fold over a list goes step by step: its value on the first n + 1 elements is one step from that on the first n.
LEMMA WalkedSteps ==
  ASSUME NEW S, NEW F, NEW t, NEW l \in Seq(S)
  PROVE  StepByStep(F, t, l)
<1> DEFINE n == Len(l)
           g == Fold(F, t, l)
<1>1. Folds(F, t, l, n, g)
  BY FoldExists DEF Fold
<1>2. \A s \in SUBSET (1 .. n) : g[s] = Equation(F, t, l, g, s)
  <2> HIDE DEF g
  <2> QED
    BY <1>1 DEF Folds
<1>3. Walked(F, t, l, 0) = t
  <2>1. 1 .. 0 = {} /\ {} \in SUBSET (1 .. n)
    OBVIOUS
  <2> HIDE DEF g
  <2> QED
    BY <1>2, <2>1 DEF Equation, Walked, g
<1>4. ASSUME NEW k \in 1 .. n
      PROVE  Walked(F, t, l, k) = Off(F, Walked(F, t, l, k - 1), l[k])
  <2>1. /\ 1 .. k \in SUBSET (1 .. n) /\ 1 .. k # {}
        /\ (1 .. k) \ {k} = 1 .. k - 1
    <3>1. n \in Nat /\ k \in Nat /\ 1 <= k /\ k <= n
      OBVIOUS
    <3> HIDE DEF n
    <3>2. 1 .. k \subseteq 1 .. n /\ k \in 1 .. k
      BY <3>1
    <3>3. (1 .. k) \ {k} = 1 .. k - 1
      BY <3>1
    <3> QED
      BY <3>2, <3>3
  <2>2. Greatest(1 .. k) = k
    BY GreatestIsLast
  <2> HIDE DEF g
  <2> QED
    BY <1>2, <2>1, <2>2 DEF Equation, Walked, g
<1> QED
  BY <1>3, <1>4 DEF StepByStep

\* Unlisted walks over the whole list.
LEMMA UnlistedWalks ==
  ASSUME NEW F, NEW l, DOMAIN l = 1 .. Len(l)
  PROVE  Unlisted(l, F) = Walked(F, l, l, Len(l))
<1>1. Unlisted(l, F) = Fold(F, l, l)[DOMAIN l]
  BY DEF Unlisted, FoldLeft, MapThenFoldSet, Max, Fold, Folds, Equation, Greatest, Off
<1> QED
  BY <1>1 DEF Walked

\* Walking over a list takes out exactly the jobs to be freed.
LEMMA UnlistedLists ==
  ASSUME NEW S, NEW c \in Seq(S), Once(c), NEW F
  PROVE  /\ Unlisted(c, F) \in Seq(S) /\ Once(Unlisted(c, F))
         /\ \A x : Lists(Unlisted(c, F), x) <=> Lists(c, x) /\ x \notin F
<1>b. /\ Walked(F, c, c, 0) = c
      /\ \A k \in 1 .. Len(c) : Walked(F, c, c, k) = Off(F, Walked(F, c, c, k - 1), c[k])
  <2>1. StepByStep(F, c, c)
    BY WalkedSteps
  <2> QED
    BY <2>1 DEF StepByStep
<1> DEFINE Passed(k, x) == \E i \in 1 .. k : c[i] = x
           Fits(k) == /\ Walked(F, c, c, k) \in Seq(S) /\ Once(Walked(F, c, c, k))
                      /\ \A x : Lists(Walked(F, c, c, k), x)
                                <=> Lists(c, x) /\ ~ (x \in F /\ Passed(k, x))
           T == {k \in Nat : k <= Len(c) => Fits(k)}
<1>a. Len(c) \in Nat /\ DOMAIN c = 1 .. Len(c)
  OBVIOUS
<1>1. 0 \in T
  <2>1. \A x : ~ Passed(0, x)
    OBVIOUS
  <2> HIDE DEF Passed
  <2> QED
    BY <1>b, <2>1
<1>2. ASSUME NEW k \in Nat, k \in T
      PROVE  k + 1 \in T
  <2>1. SUFFICES ASSUME k + 1 <= Len(c)
                 PROVE  Fits(k + 1)
    OBVIOUS
  <2>2. Fits(k)
    BY <1>2, <1>a, <2>1
  <2> DEFINE d == Walked(F, c, c, k)
             j == c[k + 1]
  <2>3. Walked(F, c, c, k + 1) = Off(F, d, j)
    BY <1>a, <1>b, <2>1
  <2>4. \A x : Passed(k + 1, x) <=> Passed(k, x) \/ x = j
    <3>1. 1 .. k + 1 = (1 .. k) \cup {k + 1}
      OBVIOUS
    <3> QED
      BY <3>1
  <2> HIDE DEF Passed, d, j
  <2>5. CASE j \in F
    <3>1. Off(F, d, j) = RemoveFirst(d, j)
      BY <2>5 DEF Off
    <3>2. /\ RemoveFirst(d, j) \in Seq(S) /\ Once(RemoveFirst(d, j))
          /\ \A x : Lists(RemoveFirst(d, j), x) <=> Lists(d, x) /\ x # j
      BY <2>2, RemoveFirstLists DEF d
    <3> QED
      BY <2>2, <2>3, <2>4, <2>5, <3>1, <3>2 DEF d
  <2>6. CASE j \notin F
    <3>1. Off(F, d, j) = d
      BY <2>6 DEF Off
    <3> QED
      BY <2>2, <2>3, <2>4, <2>6, <3>1 DEF d
  <2> QED
    BY <2>5, <2>6
<1> HIDE DEF T
<1>3. Len(c) \in T
  BY <1>1, <1>2, <1>a, AllNumbers
<1>4. Fits(Len(c))
  BY <1>3, <1>a DEF T
<1>5. \A x : Lists(c, x) => Passed(Len(c), x)
  BY DEF Lists
<1>6. Unlisted(c, F) = Walked(F, c, c, Len(c))
  BY <1>a, UnlistedWalks
<1> QED
  BY <1>4, <1>5, <1>6

-----------------------------------------------------------------------------
(* The invariant.                                                          *)

\* The exact shape of every variable.
ProcessEntry == [pid : Pid, status : Status]
Job == [used : BOOLEAN, state : {"running", "stopped", "done"}, ps : Seq(ProcessEntry),
        jobctl : BOOLEAN, changed : BOOLEAN, waited : BOOLEAN]
Proc == [st : {"free", "new", "run", "stop", "zombie"}, how : Over \cup {"none"},
         grp : Pid \cup {Shell}, fg : BOOLEAN, told : BOOLEAN]
AtWait == {"clear", "wait3", "block", "nap", "back"}
ShellState ==
  [at : {"command", "prompt", "read", "fork", "gone"} \cup AtWait,
   job : Slot \cup {None}, block : {"NON", "BLOCK", "WAITCMD", "ALL"}, rpid : BOOLEAN,
   cmd : {"none", "fg", "wait", "waitall", "jobs", "changed"}, mode : Mode, left : 0 .. 2]

TableShape ==
  jobtab \in [Slot -> Job] /\ chain \in Seq(Slot)
ShellShape ==
  /\ sh \in ShellState
  /\ tty \in Pid \cup {Shell} /\ job_warning \in 0 .. 2
  /\ jobctl \in BOOLEAN /\ gotsigchld \in BOOLEAN
KernelShape ==
  /\ proc \in [Pid -> Proc]
  /\ \A p \in Pid : proc[p].st = "zombie" => proc[p].how \in Over
  /\ stops \in Nat /\ lost \subseteq Pid

\* The list names every job once and no free slot.
Chained ==
  /\ \A j \in Slot : jobtab[j].used <=> Lists(chain, j)
  /\ Once(chain)

\* A free slot names no process, and no process is named twice.
Apart ==
  /\ \A j \in Slot : ~jobtab[j].used => jobtab[j].ps = <<>>
  /\ \A j, k \in Slot : \A i \in 1 .. Len(jobtab[j].ps), m \in 1 .. Len(jobtab[k].ps) :
       jobtab[j].ps[i].pid = jobtab[k].ps[m].pid => j = k /\ i = m

\* A status is final exactly when the process is gone; a job is done only with
\* final ones, and not running only with known ones.
Statuses ==
  \A j \in Slot : \A i \in 1 .. Len(jobtab[j].ps) :
    LET q == jobtab[j].ps[i]
    IN  /\ q.status \in Over <=> ~Child(q.pid)
        /\ jobtab[j].state = "done" => q.status \in Over
        /\ jobtab[j].state # "running" => q.status # "none"

\* While a job is forked it is a running one; every other job has a process.
Forking ==
  /\ At("fork") => sh.job \in Slot /\ jobtab[sh.job].used /\ jobtab[sh.job].state = "running"
  /\ \A j \in Slot : jobtab[j].used /\ jobtab[j].ps = <<>> => At("fork") /\ sh.job = j /\ sh.left > 0

\* dowait on behalf of fg or wait is about a job of the table; it stops blocking
\* when that job does not run any more, and only wait is interrupted by a signal.
Waiting ==
  sh.at \in AtWait =>
    /\ sh.cmd \in {"fg", "wait"} => sh.job \in Slot /\ jobtab[sh.job].used
    /\ sh.cmd \in {"fg", "wait"} /\ sh.block = "NON" /\ sh.rpid => jobtab[sh.job].state # "running"
    /\ sh.cmd = "wait" => sh.block \in {"NON", "WAITCMD"}
    /\ sh.cmd = "fg" => sh.rpid /\ sh.block \in {"NON", "BLOCK"} /\ sh.at \notin {"block", "nap"}

\* Between the wait3 that finds nothing and sigsuspend, news set the flag.
Alert ==
  sh.at \in {"block", "nap"} /\ (\E p \in Pid : Reportable(p)) => gotsigchld

IInv ==
  /\ TableShape /\ ShellShape /\ KernelShape
  /\ Chained
  /\ Apart
  /\ Statuses
  /\ Forking
  /\ Waiting
  /\ StatusIsKnown
  /\ NoLostChild
  /\ Alert

\* What a call of dowait makes of the shell.
LEMMA DowaitSets ==
  ASSUME NEW tab, NEW block \in {"NON", "BLOCK", "WAITCMD", "ALL"}, NEW j \in Slot \cup {None},
         NEW cmd \in {"fg", "wait", "waitall", "jobs", "changed"}, dowait(tab, block, j, cmd)
  PROVE  /\ sh' \in ShellState /\ sh'.at \in {"back", "clear"}
         /\ sh'.job = j /\ sh'.cmd = cmd /\ sh'.rpid = TRUE
         /\ sh'.block = IF j # None /\ tab[j].state # "running" THEN "NON" ELSE block
         /\ sh'.at = "back" => sh'.block = "NON"
<1> DEFINE b == IF j # None /\ tab[j].state # "running" THEN "NON" ELSE block
           place == IF b = "NON" /\ ~gotsigchld THEN "back" ELSE "clear"
<1>1. sh' = [at |-> place, job |-> j, block |-> b, rpid |-> TRUE, cmd |-> cmd, mode |-> "FG",
             left |-> 0]
  BY DEF dowait, Idle
<1>2. b \in {"NON", "BLOCK", "WAITCMD", "ALL"} /\ place \in {"back", "clear"}
      /\ (place = "back" => b = "NON")
  OBVIOUS
<1>3. place \in {"command", "prompt", "read", "fork", "gone"} \cup AtWait /\ 0 \in 0 .. 2
  BY <1>2 DEF AtWait
<1>4. b = IF j # None /\ tab[j].state # "running" THEN "NON" ELSE block
  OBVIOUS
<1> HIDE DEF b, place
<1>5. sh' \in ShellState
  BY <1>1, <1>2, <1>3 DEF ShellState, Mode
<1> QED
  BY <1>1, <1>2, <1>4, <1>5

\* And what the end of a command does.
LEMMA GoToSets ==
  ASSUME NEW place \in {"command", "prompt", "read", "gone"}, GoTo(place)
  PROVE  sh' \in ShellState /\ sh'.at = place
<1>1. sh' = [at |-> place, job |-> None, block |-> "NON", rpid |-> TRUE, cmd |-> "none",
             mode |-> "FG", left |-> 0]
  BY DEF GoTo, Idle
<1>2. place \in {"command", "prompt", "read", "fork", "gone"} \cup AtWait /\ 0 \in 0 .. 2
      /\ None \in Slot \cup {None}
  OBVIOUS
<1>3. sh' \in ShellState
  BY <1>1, <1>2 DEF ShellState, Mode
<1> QED
  BY <1>1, <1>3

\* The entries of a job.
LEMMA EntryType ==
  ASSUME TableShape, NEW j \in Slot
  PROVE  /\ jobtab[j] \in Job /\ jobtab[j].ps \in Seq(ProcessEntry) /\ Len(jobtab[j].ps) \in Nat
         /\ \A i \in 1 .. Len(jobtab[j].ps) :
              /\ jobtab[j].ps[i] \in ProcessEntry
              /\ jobtab[j].ps[i].pid \in Pid /\ jobtab[j].ps[i].status \in Status
<1>1. jobtab[j] \in Job /\ jobtab[j].ps \in Seq(ProcessEntry)
  BY DEF TableShape, Job
<1>2. ASSUME NEW i \in 1 .. Len(jobtab[j].ps)
      PROVE  jobtab[j].ps[i] \in ProcessEntry
  BY <1>1, ElementOfSeq
<1> QED
  BY <1>1, <1>2 DEF ProcessEntry

\* Steps of the shell that leave the table and the processes as they are keep
\* every part but those about where the shell is.
LEMMA TableKeeps ==
  ASSUME TableShape, KernelShape, Chained, Apart, Statuses, NoLostChild,
         UNCHANGED <<jobtab, chain, proc, stops, lost>>
  PROVE  /\ TableShape' /\ KernelShape' /\ Chained' /\ Apart'
         /\ Statuses' /\ NoLostChild'
BY DEF TableShape, KernelShape, Chained, Apart, Statuses, NoLostChild, Child

\* So do the processes, when those that are children stay children.
LEMMA ProcessesKeep ==
  ASSUME TableShape, Chained, Apart, Statuses, NoLostChild, Forking, Waiting, StatusIsKnown,
         UNCHANGED <<jobtab, chain, sh, lost>>, \A p \in Pid : Child(p)' <=> Child(p)
  PROVE  /\ TableShape' /\ Chained' /\ Apart' /\ Statuses' /\ NoLostChild'
         /\ Forking' /\ Waiting' /\ StatusIsKnown'
<1>1. Statuses'
  BY EntryType DEF Statuses
<1>2. NoLostChild'
  BY DEF NoLostChild
<1>3. TableShape' /\ Chained' /\ Apart' /\ Forking'
  BY DEF TableShape, Chained, Apart, Forking, At
<1>4. Waiting' /\ StatusIsKnown'
  BY DEF Waiting, StatusIsKnown, At
<1> QED
  BY <1>1, <1>2, <1>3, <1>4

\* dowait forgets an earlier signal before it asks the kernel.
LEMMA ClearGotsigchldKeeps ==
  ASSUME IInv, ClearGotsigchld
  PROVE  IInv'
<1>1. UNCHANGED <<jobtab, chain, proc, stops, lost>>
  BY DEF ClearGotsigchld
<1>2. TableShape' /\ KernelShape' /\ Chained' /\ Apart' /\ Statuses' /\ NoLostChild'
  BY <1>1, TableKeeps DEF IInv
<1>3. /\ sh' \in ShellState
      /\ At("clear") /\ sh'.at = "wait3"
      /\ sh'.job = sh.job /\ sh'.cmd = sh.cmd /\ sh'.rpid = sh.rpid /\ sh'.block = sh.block
  BY DowaitSets, GoToSets DEF IInv, ShellShape, ShellState, AtWait, At, None, Forking, Mode,
     ClearGotsigchld
<1>4. ShellShape'
  BY <1>3 DEF IInv, ShellShape, ClearGotsigchld
<1>5. Forking'
  BY <1>1, <1>3 DEF IInv, Forking, At
<1>6. Waiting'
  BY <1>1, <1>3 DEF IInv, Waiting, Forking, At, AtWait
<1>7. StatusIsKnown'
  BY <1>1, <1>3, EntryType DEF IInv, Waiting, StatusIsKnown, Statuses, At, AtWait, Over, Forking
<1>8. Alert'
  BY <1>1, <1>3 DEF IInv, Alert, Reportable, At, ClearGotsigchld
<1> QED
  BY <1>2, <1>4, <1>5, <1>6, <1>7, <1>8 DEF IInv

\* wait3 finds nothing: the shell returns, or goes on to block the signals.
LEMMA Wait3NoneKeeps ==
  ASSUME IInv, Wait3None
  PROVE  IInv'
<1>1. UNCHANGED <<jobtab, chain, proc, stops, lost>>
  BY DEF Wait3None, signals, table
<1>2. TableShape' /\ KernelShape' /\ Chained' /\ Apart' /\ Statuses' /\ NoLostChild'
  BY <1>1, TableKeeps DEF IInv
<1>3. /\ sh' \in ShellState
      /\ At("wait3") /\ ~ \E p \in Pid : Reportable(p)
      /\ \/ sh'.at = "back" /\ (sh.block = "NON" \/ ~ \E p \in Pid : Child(p))
         \/ sh'.at = "block" /\ sh.block \in {"WAITCMD", "ALL"}
      /\ sh'.job = sh.job /\ sh'.cmd = sh.cmd /\ sh'.rpid = sh.rpid /\ sh'.block = sh.block
  BY DowaitSets, GoToSets DEF IInv, ShellShape, ShellState, AtWait, At, None, Forking, Mode,
     Wait3None, signals, table
<1>4. ShellShape'
  BY <1>3 DEF IInv, ShellShape, Wait3None, signals, table
<1>5. Forking'
  BY <1>1, <1>3 DEF IInv, Forking, At
<1>6. Waiting'
  BY <1>1, <1>3 DEF IInv, Waiting, Forking, At, AtWait
<1>7. StatusIsKnown'
  BY <1>1, <1>3, EntryType DEF IInv, Waiting, StatusIsKnown, Statuses, At, AtWait, Over, Forking
<1>8. Alert'
  BY <1>1, <1>3 DEF IInv, Alert, Reportable, At, Wait3None, signals, table
<1> QED
  BY <1>2, <1>4, <1>5, <1>6, <1>7, <1>8 DEF IInv

\* All signals are blocked and gotsigchld is read.
LEMMA sigblockallKeeps ==
  ASSUME IInv, sigblockall
  PROVE  IInv'
<1>1. UNCHANGED <<jobtab, chain, proc, stops, lost>>
  BY DEF sigblockall, signals, table
<1>2. TableShape' /\ KernelShape' /\ Chained' /\ Apart' /\ Statuses' /\ NoLostChild'
  BY <1>1, TableKeeps DEF IInv
<1>3. /\ sh' \in ShellState
      /\ At("block") /\ sh'.at = "nap"
      /\ sh'.job = sh.job /\ sh'.cmd = sh.cmd /\ sh'.rpid = sh.rpid /\ sh'.block = sh.block
  BY DowaitSets, GoToSets DEF IInv, ShellShape, ShellState, AtWait, At, None, Forking, Mode,
     sigblockall, signals, table
<1>4. ShellShape'
  BY <1>3 DEF IInv, ShellShape, sigblockall, signals, table
<1>5. Forking'
  BY <1>1, <1>3 DEF IInv, Forking, At
<1>6. Waiting'
  BY <1>1, <1>3 DEF IInv, Waiting, Forking, At, AtWait
<1>7. StatusIsKnown'
  BY <1>1, <1>3, EntryType DEF IInv, Waiting, StatusIsKnown, Statuses, At, AtWait, Over, Forking
<1>8. Alert'
  BY <1>1, <1>3 DEF IInv, Alert, Reportable, At, sigblockall, signals, table
<1> QED
  BY <1>2, <1>4, <1>5, <1>6, <1>7, <1>8 DEF IInv

\* sigsuspend returns.
LEMMA WakeKeeps ==
  ASSUME IInv, Wake
  PROVE  IInv'
<1>1. UNCHANGED <<jobtab, chain, proc, stops, lost>>
  BY DEF Wake, signals, table
<1>2. TableShape' /\ KernelShape' /\ Chained' /\ Apart' /\ Statuses' /\ NoLostChild'
  BY <1>1, TableKeeps DEF IInv
<1>3. /\ sh' \in ShellState
      /\ At("nap") /\ sh'.at = "clear" /\ sh'.job = sh.job /\ sh'.cmd = sh.cmd
      /\ (sh'.rpid = sh.rpid /\ sh'.block = sh.block) \/ (sh'.rpid = FALSE /\ sh'.block = "NON")
  BY DowaitSets, GoToSets DEF IInv, ShellShape, ShellState, AtWait, At, None, Forking, Mode,
     Wake, signals, table
<1>4. ShellShape'
  BY <1>3 DEF IInv, ShellShape, Wake, signals, table
<1>5. Forking'
  BY <1>1, <1>3 DEF IInv, Forking, At
<1>6. Waiting'
  BY <1>1, <1>3 DEF IInv, Waiting, Forking, At, AtWait
<1>7. StatusIsKnown'
  BY <1>1, <1>3, EntryType DEF IInv, Waiting, StatusIsKnown, Statuses, At, AtWait, Over, Forking
<1>8. Alert'
  BY <1>1, <1>3 DEF IInv, Alert, Reportable, At, Wake, signals, table
<1> QED
  BY <1>2, <1>4, <1>5, <1>6, <1>7, <1>8 DEF IInv

\* The prompt: the jobs that changed are listed.
LEMMA PromptKeeps ==
  ASSUME IInv, Prompt
  PROVE  IInv'
<1>1. UNCHANGED <<jobtab, chain, proc, stops, lost>>
  BY DEF Prompt, signals, table
<1>2. TableShape' /\ KernelShape' /\ Chained' /\ Apart' /\ Statuses' /\ NoLostChild'
  BY <1>1, TableKeeps DEF IInv
<1>3. /\ sh' \in ShellState
      /\ At("prompt") /\ sh'.at \in {"read", "back", "clear"}
      /\ sh'.at # "read" => sh'.cmd = "changed"
  BY DowaitSets, GoToSets DEF IInv, ShellShape, ShellState, AtWait, At, None, Forking, Mode,
     Prompt, signals, table
<1>4. ShellShape'
  BY <1>3 DEF IInv, ShellShape, Prompt, signals, table
<1>5. Forking'
  BY <1>1, <1>3 DEF IInv, Forking, At
<1>6. Waiting'
  BY <1>1, <1>3 DEF IInv, Waiting, Forking, At, AtWait
<1>7. StatusIsKnown'
  BY <1>1, <1>3, EntryType DEF IInv, Waiting, StatusIsKnown, Statuses, At, AtWait, Over, Forking
<1>8. Alert'
  BY <1>1, <1>3 DEF IInv, Alert, Reportable, At, Prompt, signals, table
<1> QED
  BY <1>2, <1>4, <1>5, <1>6, <1>7, <1>8 DEF IInv

\* The last process of a pipeline was forked.
LEMMA ForkedKeeps ==
  ASSUME IInv, Forked
  PROVE  IInv'
<1>1. UNCHANGED <<jobtab, chain, proc, stops, lost>>
  BY DEF Forked, signals, table
<1>2. TableShape' /\ KernelShape' /\ Chained' /\ Apart' /\ Statuses' /\ NoLostChild'
  BY <1>1, TableKeeps DEF IInv
<1>3. /\ sh' \in ShellState
      /\ At("fork") /\ sh.left = 0 /\ sh'.at \in {"command", "back", "clear"}
      /\ jobtab[sh.job].state = "running"
      /\ sh'.at # "command" => /\ sh'.cmd = "fg" /\ sh'.job = sh.job /\ sh'.rpid
                               /\ sh'.block = "BLOCK" /\ sh'.at = "clear"
  <2>1. At("fork") /\ sh.left = 0 /\ sh.job \in Slot /\ jobtab[sh.job].state = "running"
    BY DEF IInv, Forking, Forked
  <2>2. CASE GoTo("command")
    BY <2>1, <2>2, GoToSets
  <2>3. CASE dowait(jobtab, "BLOCK", sh.job, "fg")
    <3>1. /\ sh' \in ShellState /\ sh'.at \in {"back", "clear"}
          /\ sh'.job = sh.job /\ sh'.cmd = "fg" /\ sh'.rpid = TRUE
          /\ sh'.block = IF sh.job # None /\ jobtab[sh.job].state # "running" THEN "NON" ELSE "BLOCK"
          /\ sh'.at = "back" => sh'.block = "NON"
      BY <2>1, <2>3, DowaitSets
    <3> QED
      BY <2>1, <3>1
  <2> QED
    BY <2>2, <2>3 DEF Forked
<1>4. ShellShape'
  BY <1>3 DEF IInv, ShellShape, Forked, signals, table
<1>5. Forking'
  BY <1>1, <1>3 DEF IInv, Forking, At
<1>6. Waiting'
  BY <1>1, <1>3 DEF IInv, Waiting, Forking, At, AtWait
<1>7. StatusIsKnown'
  BY <1>1, <1>3, EntryType DEF IInv, Waiting, StatusIsKnown, Statuses, At, AtWait, Over, Forking
<1>8. Alert'
  BY <1>1, <1>3 DEF IInv, Alert, Reportable, At, Forked, signals, table
<1> QED
  BY <1>2, <1>4, <1>5, <1>6, <1>7, <1>8 DEF IInv

\* The shell reads the next command.
LEMMA ReadLineKeeps ==
  ASSUME IInv, ReadLine
  PROVE  IInv'
<1>1. UNCHANGED <<jobtab, chain, proc, stops, lost>>
  BY DEF ReadLine, signals, table
<1>2. TableShape' /\ KernelShape' /\ Chained' /\ Apart' /\ Statuses' /\ NoLostChild'
  BY <1>1, TableKeeps DEF IInv
<1>3. /\ sh' \in ShellState
      /\ At("read") /\ sh'.at = "command"
  BY DowaitSets, GoToSets DEF IInv, ShellShape, ShellState, AtWait, At, None, Forking, Mode,
     ReadLine, signals, table
<1>4. ShellShape'
  BY <1>3 DEF IInv, ShellShape, ReadLine, signals, table
<1>5. Forking'
  BY <1>1, <1>3 DEF IInv, Forking, At
<1>6. Waiting'
  BY <1>1, <1>3 DEF IInv, Waiting, Forking, At, AtWait
<1>7. StatusIsKnown'
  BY <1>1, <1>3, EntryType DEF IInv, Waiting, StatusIsKnown, Statuses, At, AtWait, Over, Forking
<1>8. Alert'
  BY <1>1, <1>3 DEF IInv, Alert, Reportable, At, ReadLine, signals, table
<1> QED
  BY <1>2, <1>4, <1>5, <1>6, <1>7, <1>8 DEF IInv

\* The shell leaves.
LEMMA LeaveKeeps ==
  ASSUME IInv, Leave
  PROVE  IInv'
<1>1. UNCHANGED <<jobtab, chain, proc, stops, lost>>
  BY DEF Leave, signals, table
<1>2. TableShape' /\ KernelShape' /\ Chained' /\ Apart' /\ Statuses' /\ NoLostChild'
  BY <1>1, TableKeeps DEF IInv
<1>3. /\ sh' \in ShellState
      /\ (At("read") \/ At("command")) /\ sh'.at \in {"prompt", "command", "gone"}
  BY DowaitSets, GoToSets DEF IInv, ShellShape, ShellState, AtWait, At, None, Forking, Mode,
     Leave, signals, table
<1>4. ShellShape'
  BY <1>3 DEF IInv, ShellShape, Leave, signals, table
<1>5. Forking'
  BY <1>1, <1>3 DEF IInv, Forking, At
<1>6. Waiting'
  BY <1>1, <1>3 DEF IInv, Waiting, Forking, At, AtWait
<1>7. StatusIsKnown'
  BY <1>1, <1>3, EntryType DEF IInv, Waiting, StatusIsKnown, Statuses, At, AtWait, Over, Forking
<1>8. Alert'
  BY <1>1, <1>3 DEF IInv, Alert, Reportable, At, Leave, signals, table
<1> QED
  BY <1>2, <1>4, <1>5, <1>6, <1>7, <1>8 DEF IInv

\* A command is over.
LEMMA EndLineKeeps ==
  ASSUME IInv, EndLine
  PROVE  IInv'
<1>1. UNCHANGED <<jobtab, chain, proc, stops, lost>>
  BY DEF EndLine, signals, table
<1>2. TableShape' /\ KernelShape' /\ Chained' /\ Apart' /\ Statuses' /\ NoLostChild'
  BY <1>1, TableKeeps DEF IInv
<1>3. /\ sh' \in ShellState
      /\ At("command") /\ sh'.at = "prompt"
  BY DowaitSets, GoToSets DEF IInv, ShellShape, ShellState, AtWait, At, None, Forking, Mode,
     EndLine, signals, table
<1>4. ShellShape'
  BY <1>3 DEF IInv, ShellShape, EndLine, signals, table
<1>5. Forking'
  BY <1>1, <1>3 DEF IInv, Forking, At
<1>6. Waiting'
  BY <1>1, <1>3 DEF IInv, Waiting, Forking, At, AtWait
<1>7. StatusIsKnown'
  BY <1>1, <1>3, EntryType DEF IInv, Waiting, StatusIsKnown, Statuses, At, AtWait, Over, Forking
<1>8. Alert'
  BY <1>1, <1>3 DEF IInv, Alert, Reportable, At, EndLine, signals, table
<1> QED
  BY <1>2, <1>4, <1>5, <1>6, <1>7, <1>8 DEF IInv

\* The built-in jobs.
LEMMA jobscmdKeeps ==
  ASSUME IInv, jobscmd
  PROVE  IInv'
<1>1. UNCHANGED <<jobtab, chain, proc, stops, lost>>
  BY DEF jobscmd, signals, table
<1>2. TableShape' /\ KernelShape' /\ Chained' /\ Apart' /\ Statuses' /\ NoLostChild'
  BY <1>1, TableKeeps DEF IInv
<1>3. /\ sh' \in ShellState
      /\ At("command") /\ sh'.at \in {"back", "clear"} /\ sh'.cmd = "jobs"
  BY DowaitSets, GoToSets DEF IInv, ShellShape, ShellState, AtWait, At, None, Forking, Mode,
     jobscmd, signals, table
<1>4. ShellShape'
  BY <1>3 DEF IInv, ShellShape, jobscmd, signals, table
<1>5. Forking'
  BY <1>1, <1>3 DEF IInv, Forking, At
<1>6. Waiting'
  BY <1>1, <1>3 DEF IInv, Waiting, Forking, At, AtWait
<1>7. StatusIsKnown'
  BY <1>1, <1>3, EntryType DEF IInv, Waiting, StatusIsKnown, Statuses, At, AtWait, Over, Forking
<1>8. Alert'
  BY <1>1, <1>3 DEF IInv, Alert, Reportable, At, jobscmd, signals, table
<1> QED
  BY <1>2, <1>4, <1>5, <1>6, <1>7, <1>8 DEF IInv

\* A child puts itself in its group and takes the terminal.
LEMMA forkchildKeeps ==
  ASSUME IInv, NEW p \in Pid, forkchild(p)
  PROVE  IInv'
<1>1. UNCHANGED <<jobtab, chain, sh, lost>>
  BY DEF forkchild, signals, table
<1>2. \A q \in Pid : Child(q)' <=> Child(q)
  BY DEF IInv, KernelShape, Proc, Child, Over, forkchild, signals, table
<1>3. /\ TableShape' /\ Chained' /\ Apart' /\ Statuses' /\ NoLostChild'
      /\ Forking' /\ Waiting' /\ StatusIsKnown'
  BY <1>1, <1>2, ProcessesKeep DEF IInv
<1>4. ShellShape'
  BY <1>1 DEF IInv, ShellShape, KernelShape, Proc, forkchild, signals, table
<1>5. KernelShape'
  BY <1>1 DEF IInv, KernelShape, Proc, Over, forkchild, signals, table
<1>6. Alert'
  BY <1>1 DEF IInv, KernelShape, Proc, Alert, Reportable, At, forkchild, signals, table
<1> QED
  BY <1>3, <1>4, <1>5, <1>6 DEF IInv

\* A process is stopped.
LEMMA StopKeeps ==
  ASSUME IInv, NEW p \in Pid, Stop(p)
  PROVE  IInv'
<1>1. UNCHANGED <<jobtab, chain, sh, lost>>
  BY DEF Stop, signals, table, SignalsShell
<1>2. \A q \in Pid : Child(q)' <=> Child(q)
  BY DEF IInv, KernelShape, Proc, Child, Over, Stop, signals, table, SignalsShell
<1>3. /\ TableShape' /\ Chained' /\ Apart' /\ Statuses' /\ NoLostChild'
      /\ Forking' /\ Waiting' /\ StatusIsKnown'
  BY <1>1, <1>2, ProcessesKeep DEF IInv
<1>4. ShellShape'
  BY <1>1 DEF IInv, ShellShape, KernelShape, Proc, Stop, signals, table, SignalsShell
<1>5. KernelShape'
  <2>a. proc \in [Pid -> Proc] /\ proc[p] \in Proc
    BY DEF IInv, KernelShape
  <2> DEFINE r == [proc[p] EXCEPT !.st = "stop", !.told = FALSE]
  <2>b. r \in Proc
    BY <2>a DEF Proc, Over
  <2>c. proc' = [proc EXCEPT ![p] = r]
    BY DEF Stop, signals, table, SignalsShell
  <2> HIDE DEF r
  <2>d. stops' \in Nat /\ lost' \subseteq Pid
    BY <1>1 DEF IInv, KernelShape, Stop, signals, table, SignalsShell
  <2>1. proc' \in [Pid -> Proc] /\ stops' \in Nat /\ lost' \subseteq Pid
    BY <2>a, <2>b, <2>c, <2>d
  <2>2. ASSUME NEW q \in Pid, proc'[q].st = "zombie"
        PROVE  proc'[q].how \in Over
    BY <2>2 DEF IInv, KernelShape, Proc, Stop, signals, table, SignalsShell
  <2> QED
    BY <2>1, <2>2 DEF KernelShape
<1>6. Alert'
  BY <1>1 DEF IInv, KernelShape, Proc, Alert, Reportable, At, Stop, signals, table, SignalsShell
<1> QED
  BY <1>3, <1>4, <1>5, <1>6 DEF IInv

\* A stopped process goes on.
LEMMA ResumeKeeps ==
  ASSUME IInv, NEW p \in Pid, Resume(p)
  PROVE  IInv'
<1>1. UNCHANGED <<jobtab, chain, sh, lost>>
  BY DEF Resume, signals, table, SignalsShell
<1>2. \A q \in Pid : Child(q)' <=> Child(q)
  BY DEF IInv, KernelShape, Proc, Child, Over, Resume, signals, table, SignalsShell
<1>3. /\ TableShape' /\ Chained' /\ Apart' /\ Statuses' /\ NoLostChild'
      /\ Forking' /\ Waiting' /\ StatusIsKnown'
  BY <1>1, <1>2, ProcessesKeep DEF IInv
<1>4. ShellShape'
  BY <1>1 DEF IInv, ShellShape, KernelShape, Proc, Resume, signals, table, SignalsShell
<1>5. KernelShape'
  <2>a. proc \in [Pid -> Proc] /\ proc[p] \in Proc
    BY DEF IInv, KernelShape
  <2> DEFINE r == [proc[p] EXCEPT !.st = "run", !.told = TRUE]
  <2>b. r \in Proc
    BY <2>a DEF Proc, Over
  <2>c. proc' = [proc EXCEPT ![p] = r]
    BY DEF Resume, signals, table, SignalsShell
  <2> HIDE DEF r
  <2>d. stops' \in Nat /\ lost' \subseteq Pid
    BY <1>1 DEF IInv, KernelShape, Resume, signals, table, SignalsShell
  <2>1. proc' \in [Pid -> Proc] /\ stops' \in Nat /\ lost' \subseteq Pid
    BY <2>a, <2>b, <2>c, <2>d
  <2>2. ASSUME NEW q \in Pid, proc'[q].st = "zombie"
        PROVE  proc'[q].how \in Over
    BY <2>2 DEF IInv, KernelShape, Proc, Resume, signals, table, SignalsShell
  <2> QED
    BY <2>1, <2>2 DEF KernelShape
<1>6. Alert'
  BY <1>1 DEF IInv, KernelShape, Proc, Alert, Reportable, At, Resume, signals, table,
     SignalsShell
<1> QED
  BY <1>3, <1>4, <1>5, <1>6 DEF IInv

\* A process ends; its parent is told.
LEMMA DieKeeps ==
  ASSUME IInv, NEW p \in Pid, NEW how \in Over, Die(p, how)
  PROVE  IInv'
<1>1. UNCHANGED <<jobtab, chain, sh, lost>>
  BY DEF Die, signals, table, SignalsShell
<1>2. \A q \in Pid : Child(q)' <=> Child(q)
  BY DEF IInv, KernelShape, Proc, Child, Over, Die, signals, table, SignalsShell
<1>3. /\ TableShape' /\ Chained' /\ Apart' /\ Statuses' /\ NoLostChild'
      /\ Forking' /\ Waiting' /\ StatusIsKnown'
  BY <1>1, <1>2, ProcessesKeep DEF IInv
<1>4. ShellShape'
  BY <1>1 DEF IInv, ShellShape, KernelShape, Proc, Die, signals, table, SignalsShell
<1>5. KernelShape'
  <2>a. proc \in [Pid -> Proc] /\ proc[p] \in Proc
    BY DEF IInv, KernelShape
  <2> DEFINE r == [proc[p] EXCEPT !.st = "zombie", !.how = how]
  <2>b. r \in Proc
    BY <2>a DEF Proc, Over
  <2>c. proc' = [proc EXCEPT ![p] = r]
    BY DEF Die, signals, table, SignalsShell
  <2> HIDE DEF r
  <2>d. stops' \in Nat /\ lost' \subseteq Pid
    BY <1>1 DEF IInv, KernelShape, Die, signals, table, SignalsShell
  <2>1. proc' \in [Pid -> Proc] /\ stops' \in Nat /\ lost' \subseteq Pid
    BY <2>a, <2>b, <2>c, <2>d
  <2>2. ASSUME NEW q \in Pid, proc'[q].st = "zombie"
        PROVE  proc'[q].how \in Over
    BY <2>2 DEF IInv, KernelShape, Proc, Die, signals, table, SignalsShell
  <2> QED
    BY <2>1, <2>2 DEF KernelShape
<1>6. Alert'
  BY <1>1 DEF IInv, KernelShape, Proc, Alert, Reportable, At, Die, signals, table, SignalsShell
<1> QED
  BY <1>3, <1>4, <1>5, <1>6 DEF IInv

\* The handler notes the signal.
LEMMA onsigKeeps ==
  ASSUME IInv, onsig
  PROVE  IInv'
<1>1. UNCHANGED <<jobtab, chain, sh, lost>>
  BY DEF onsig, signals, table
<1>2. \A q \in Pid : Child(q)' <=> Child(q)
  BY DEF IInv, KernelShape, Proc, Child, Over, onsig, signals, table
<1>3. /\ TableShape' /\ Chained' /\ Apart' /\ Statuses' /\ NoLostChild'
      /\ Forking' /\ Waiting' /\ StatusIsKnown'
  BY <1>1, <1>2, ProcessesKeep DEF IInv
<1>4. ShellShape'
  BY <1>1 DEF IInv, ShellShape, KernelShape, Proc, onsig, signals, table
<1>5. KernelShape'
  BY <1>1 DEF IInv, KernelShape, Proc, Over, onsig, signals, table
<1>6. Alert'
  BY <1>1 DEF IInv, KernelShape, Proc, Alert, Reportable, At, onsig, signals, table
<1> QED
  BY <1>3, <1>4, <1>5, <1>6 DEF IInv

\* Job control is switched on or off.
LEMMA setjobctlKeeps ==
  ASSUME IInv, setjobctl
  PROVE  IInv'
<1>1. UNCHANGED <<jobtab, chain, sh, lost>>
  BY DEF setjobctl, signals, table
<1>2. \A q \in Pid : Child(q)' <=> Child(q)
  BY DEF IInv, KernelShape, Proc, Child, Over, setjobctl, signals, table
<1>3. /\ TableShape' /\ Chained' /\ Apart' /\ Statuses' /\ NoLostChild'
      /\ Forking' /\ Waiting' /\ StatusIsKnown'
  BY <1>1, <1>2, ProcessesKeep DEF IInv
<1>4. ShellShape'
  BY <1>1 DEF IInv, ShellShape, KernelShape, Proc, setjobctl, signals, table
<1>5. KernelShape'
  BY <1>1 DEF IInv, KernelShape, Proc, Over, setjobctl, signals, table
<1>6. Alert'
  BY <1>1 DEF IInv, KernelShape, Proc, Alert, Reportable, At, setjobctl, signals, table
<1> QED
  BY <1>3, <1>4, <1>5, <1>6 DEF IInv

-----------------------------------------------------------------------------
(* Steps that change the table.                                            *)

\* A free slot is a slot.
LEMMA FreeSlotType == FreeSlot \in Job
<1>1. <<>> \in Seq(ProcessEntry)
  OBVIOUS
<1> QED
  BY <1>1 DEF FreeSlot, Job

\* To free jobs that are done, and mark others as shown or waited for, keeps the
\* parts about the table.
LEMMA FreedKeeps ==
  ASSUME TableShape, KernelShape, Chained, Apart, Statuses, NoLostChild, Forking,
         NEW F, \A x \in F : x \in Slot /\ jobtab[x].state = "done",
         TableShape', Once(chain)', \A x : Lists(chain, x)' <=> Lists(chain, x) /\ x \notin F,
         \A x \in Slot : x \in F => jobtab'[x] = FreeSlot,
         \A x \in Slot : x \notin F => /\ jobtab'[x].used = jobtab[x].used
                                       /\ jobtab'[x].state = jobtab[x].state
                                       /\ jobtab'[x].ps = jobtab[x].ps,
         UNCHANGED <<proc, stops, lost>>, ~ At("fork"), sh'.at # "fork"
  PROVE  /\ KernelShape' /\ Chained' /\ Apart' /\ Statuses' /\ NoLostChild' /\ Forking'
         /\ \A x \in Slot : jobtab'[x].used => jobtab[x].used /\ x \notin F
<1>1. \A x \in F : /\ x \in Slot /\ jobtab'[x].used = FALSE /\ jobtab'[x].ps = <<>>
                   /\ jobtab'[x].state = "running" /\ Len(jobtab'[x].ps) = 0
  BY DEF FreeSlot
<1>2. KernelShape'
  BY DEF KernelShape
<1>3. Chained'
  BY <1>1 DEF Chained
<1>4. ASSUME NEW x \in Slot, NEW i \in 1 .. Len(jobtab'[x].ps)
      PROVE  x \notin F /\ jobtab'[x].ps = jobtab[x].ps /\ i \in 1 .. Len(jobtab[x].ps)
  BY <1>1
<1>5. Apart'
  <2>1. \A x \in Slot : ~ jobtab'[x].used => jobtab'[x].ps = <<>>
    BY <1>1 DEF Apart
  <2>2. ASSUME NEW j \in Slot, NEW k \in Slot, NEW i \in 1 .. Len(jobtab'[j].ps),
               NEW m \in 1 .. Len(jobtab'[k].ps), jobtab'[j].ps[i].pid = jobtab'[k].ps[m].pid
        PROVE  j = k /\ i = m
    <3>1. jobtab'[j].ps = jobtab[j].ps /\ i \in 1 .. Len(jobtab[j].ps)
      BY <1>4
    <3>2. jobtab'[k].ps = jobtab[k].ps /\ m \in 1 .. Len(jobtab[k].ps)
      BY <1>4
    <3>3. jobtab[j].ps[i].pid = jobtab[k].ps[m].pid
      BY <2>2, <3>1, <3>2
    <3> QED
      BY <3>1, <3>2, <3>3 DEF Apart
  <2> QED
    BY <2>1, <2>2 DEF Apart
<1>6. Statuses'
  <2>1. ASSUME NEW x \in Slot, NEW i \in 1 .. Len(jobtab'[x].ps)
        PROVE  /\ jobtab'[x].ps[i] = jobtab[x].ps[i] /\ jobtab'[x].state = jobtab[x].state
               /\ i \in 1 .. Len(jobtab[x].ps)
    BY <1>4
  <2>2. \A p : Child(p)' <=> Child(p)
    BY DEF Child
  <2> QED
    BY <2>1, <2>2 DEF Statuses
<1>7. NoLostChild'
  <2>1. ASSUME NEW p \in Pid, Child(p)', p \notin lost'
        PROVE  \E j \in Slot : /\ jobtab'[j].used /\ jobtab'[j].state # "done"
                               /\ \E i \in 1 .. Len(jobtab'[j].ps) : jobtab'[j].ps[i].pid = p
    <3>1. Child(p) /\ p \notin lost
      BY <2>1 DEF Child
    <3>2. PICK j \in Slot : /\ jobtab[j].used /\ jobtab[j].state # "done"
                            /\ \E i \in 1 .. Len(jobtab[j].ps) : jobtab[j].ps[i].pid = p
      BY <3>1 DEF NoLostChild
    <3>3. j \notin F
      BY <3>2
    <3> QED
      BY <3>2, <3>3
  <2> QED
    BY <2>1 DEF NoLostChild
<1>8. Forking'
  BY <1>1 DEF Forking, At
<1> QED
  BY <1>1, <1>2, <1>3, <1>5, <1>6, <1>7, <1>8

\* waitforjob: a job that is done is freed.
LEMMA FgBackKeeps ==
  ASSUME IInv, FgBack
  PROVE  IInv'
<1> DEFINE j == sh.job
<1>1. /\ At("back") /\ sh.cmd = "fg" /\ j \in Slot /\ jobtab[j].used
      /\ UNCHANGED <<jobctl, gotsigchld, job_warning, proc, stops, lost>>
      /\ tty' = TerminalAfter(j)
  BY DEF IInv, Waiting, AtWait, At, FgBack, signals
<1>2. sh' \in ShellState /\ sh'.at \in {"prompt", "command"}
  BY GoToSets DEF FgBack
<1>3. /\ TableShape' /\ KernelShape' /\ Chained' /\ Apart' /\ Statuses' /\ NoLostChild'
      /\ Forking'
  <2>1. CASE jobtab[j].state = "done"
    <3>1. jobtab' = [jobtab EXCEPT ![j] = FreeSlot] /\ chain' = set_curjob(chain, jobtab, j, "DELETE")
      BY <2>1 DEF FgBack, freejob
    <3>2. /\ chain' \in Seq(Slot) /\ Once(chain')
          /\ \A x : Lists(chain', x) <=> IF x = j THEN "DELETE" # "DELETE" ELSE Lists(chain, x)
      BY <1>1, <3>1, SetCurjobLists DEF IInv, TableShape, Chained
    <3>3. TableShape'
      BY <1>1, <3>1, <3>2, FreeSlotType DEF IInv, TableShape
    <3>4. /\ \A x \in Slot : x \in {j} => jobtab'[x] = FreeSlot
          /\ \A x \in Slot : x \notin {j} => jobtab'[x] = jobtab[x]
      BY <1>1, <3>1 DEF IInv, TableShape
    <3>5. \A x : Lists(chain, x)' <=> Lists(chain, x) /\ x \notin {j}
      BY <3>2 DEF Lists
    <3>6. Once(chain)'
      BY <3>2 DEF Once
    <3>7. PICK F : F = {j}
      OBVIOUS
    <3> HIDE DEF j
    <3> QED
      BY <1>1, <1>2, <2>1, <3>3, <3>4, <3>5, <3>6, <3>7, FreedKeeps DEF IInv, At
  <2>2. CASE jobtab[j].state # "done"
    <3>1. UNCHANGED <<jobtab, chain>>
      BY <2>2 DEF FgBack, table
    <3>2. TableShape' /\ KernelShape' /\ Chained' /\ Apart' /\ Statuses' /\ NoLostChild'
      BY <1>1, <3>1, TableKeeps DEF IInv
    <3> QED
      BY <1>1, <1>2, <3>1, <3>2 DEF IInv, Forking, At
  <2> QED
    BY <2>1, <2>2
<1>4. ShellShape'
  BY <1>1, <1>2 DEF IInv, ShellShape, TerminalAfter
<1>5. Waiting' /\ StatusIsKnown' /\ Alert'
  BY <1>2 DEF Waiting, StatusIsKnown, Alert, At, AtWait
<1> QED
  BY <1>3, <1>4, <1>5 DEF IInv

\* showjobs: every job shown as done is freed.
LEMMA ShowBackKeeps ==
  ASSUME IInv, ShowBack
  PROVE  IInv'
<1> DEFINE shown == {j \in Slot : jobtab[j].used /\ (sh.cmd = "jobs" \/ jobtab[j].changed)}
           freed == {j \in shown : jobtab[j].state = "done"}
<1>1. /\ At("back") /\ UNCHANGED <<jobctl, tty, gotsigchld, job_warning, proc, stops, lost>>
      /\ jobtab' = [j \in Slot |-> IF j \in freed THEN FreeSlot
                                   ELSE IF j \in shown THEN [jobtab[j] EXCEPT !.changed = FALSE]
                                   ELSE jobtab[j]]
      /\ chain' = Unlisted(chain, freed)
  BY DEF ShowBack, signals
<1>2. sh' \in ShellState /\ sh'.at \in {"command", "read"}
  BY GoToSets DEF ShowBack
<1>3. PICK F : F = freed
  OBVIOUS
<1>4. \A x \in F : x \in Slot /\ jobtab[x].state = "done"
  BY <1>3
<1>5. /\ chain' \in Seq(Slot) /\ Once(chain')
      /\ \A x : Lists(chain', x) <=> Lists(chain, x) /\ x \notin F
  <2>1. chain' = Unlisted(chain, F)
    BY <1>1, <1>3
  <2> HIDE DEF freed
  <2> QED
    BY <2>1, UnlistedLists DEF IInv, TableShape, Chained
<1>6. /\ \A x \in Slot : x \in F => jobtab'[x] = FreeSlot
      /\ \A x \in Slot : x \notin F => /\ jobtab'[x] \in Job
                                       /\ jobtab'[x].used = jobtab[x].used
                                       /\ jobtab'[x].state = jobtab[x].state
                                       /\ jobtab'[x].ps = jobtab[x].ps
  <2>1. ASSUME NEW x \in Slot, x \notin F
        PROVE  jobtab'[x] \in {jobtab[x], [jobtab[x] EXCEPT !.changed = FALSE]}
    BY <1>1, <1>3, <2>1
  <2>2. \A x \in Slot : jobtab[x] \in Job
    BY DEF IInv, TableShape
  <2>3. ASSUME NEW x \in Slot
        PROVE  LET r == [jobtab[x] EXCEPT !.changed = FALSE]
               IN  /\ r \in Job /\ r.used = jobtab[x].used /\ r.state = jobtab[x].state
                   /\ r.ps = jobtab[x].ps
    BY <2>2 DEF Job
  <2>4. \A x \in Slot : x \in F => jobtab'[x] = FreeSlot
    BY <1>1, <1>3
  <2> HIDE DEF freed, shown
  <2> QED
    BY <2>1, <2>2, <2>3, <2>4
<1>7. TableShape'
  <2>1. jobtab' = [x \in Slot |-> jobtab'[x]]
    BY <1>1
  <2> QED
    BY <1>5, <1>6, <2>1, FreeSlotType DEF TableShape
<1> HIDE DEF freed, shown
<1>8. (\A x : Lists(chain, x)' <=> Lists(chain, x) /\ x \notin F) /\ Once(chain)'
  BY <1>5 DEF Lists, Once
<1>9. /\ KernelShape' /\ Chained' /\ Apart' /\ Statuses' /\ NoLostChild' /\ Forking'
  BY <1>1, <1>2, <1>4, <1>6, <1>7, <1>8, FreedKeeps DEF IInv, At
<1>10. ShellShape'
  BY <1>1, <1>2 DEF IInv, ShellShape
<1>11. Waiting' /\ StatusIsKnown' /\ Alert'
  BY <1>2 DEF Waiting, StatusIsKnown, Alert, At, AtWait
<1> QED
  BY <1>7, <1>9, <1>10, <1>11 DEF IInv

\* Marking jobs as waited for changes nothing else.
LEMMA MarkedKeeps ==
  ASSUME IInv, NEW F, jobtab' = [j \in Slot |-> IF j \in F THEN [jobtab[j] EXCEPT !.waited = TRUE]
                                                ELSE jobtab[j]],
         UNCHANGED <<chain, proc, stops, lost>>, ~ At("fork"), sh'.at # "fork"
  PROVE  /\ TableShape' /\ KernelShape' /\ Chained' /\ Apart' /\ Statuses' /\ NoLostChild'
         /\ Forking'
         /\ \A x \in Slot : /\ jobtab'[x].used = jobtab[x].used /\ jobtab'[x].state = jobtab[x].state
                            /\ jobtab'[x].ps = jobtab[x].ps
<1>1. \A x \in Slot : jobtab[x] \in Job
  BY DEF IInv, TableShape
<1>2. ASSUME NEW x \in Slot
      PROVE  /\ jobtab'[x] \in Job /\ jobtab'[x].used = jobtab[x].used
             /\ jobtab'[x].state = jobtab[x].state /\ jobtab'[x].ps = jobtab[x].ps
  <2>1. jobtab'[x] \in {jobtab[x], [jobtab[x] EXCEPT !.waited = TRUE]}
    OBVIOUS
  <2> QED
    BY <1>1, <2>1 DEF Job
<1>3. jobtab' = [x \in Slot |-> jobtab'[x]]
  OBVIOUS
<1>4. TableShape'
  BY <1>2, <1>3 DEF IInv, TableShape
<1>5. PICK G : G = {}
  OBVIOUS
<1>6. (\A x : Lists(chain, x)' <=> Lists(chain, x) /\ x \notin G) /\ Once(chain)'
  BY <1>5 DEF Lists, Once, IInv, Chained
<1> QED
  BY <1>2, <1>4, <1>5, <1>6, FreedKeeps DEF IInv

\* wait for one job.
LEMMA WaitBackKeeps ==
  ASSUME IInv, WaitBack
  PROVE  IInv'
<1>1. /\ At("back") /\ sh.job \in Slot
      /\ UNCHANGED <<chain, jobctl, tty, gotsigchld, job_warning, proc, stops, lost>>
  BY DEF IInv, Waiting, AtWait, At, WaitBack
<1>2. sh' \in ShellState /\ sh'.at = "command"
  BY GoToSets DEF WaitBack
<1>3. PICK F : F = IF sh.rpid THEN {sh.job} ELSE {}
  OBVIOUS
<1>4. jobtab' = [j \in Slot |-> IF j \in F THEN [jobtab[j] EXCEPT !.waited = TRUE] ELSE jobtab[j]]
  BY <1>1, <1>3 DEF WaitBack, IInv, TableShape
<1>5. /\ TableShape' /\ KernelShape' /\ Chained' /\ Apart' /\ Statuses' /\ NoLostChild'
      /\ Forking'
  BY <1>1, <1>2, <1>4, MarkedKeeps DEF At
<1>6. ShellShape'
  BY <1>1, <1>2 DEF IInv, ShellShape
<1>7. Waiting' /\ StatusIsKnown' /\ Alert'
  BY <1>2 DEF Waiting, StatusIsKnown, Alert, At, AtWait
<1> QED
  BY <1>5, <1>6, <1>7 DEF IInv

\* wait for all jobs, one round.
LEMMA WaitAllStepKeeps ==
  ASSUME IInv, WaitAllStep, ~ At("fork")
  PROVE  IInv'
<1>1. /\ UNCHANGED <<chain, jobctl, tty, gotsigchld, job_warning, proc, stops, lost>>
      /\ \E F : jobtab' = [j \in Slot |-> IF j \in F THEN [jobtab[j] EXCEPT !.waited = TRUE]
                                          ELSE jobtab[j]]
      /\ GoTo("command") \/ dowait(jobtab, "ALL", None, "waitall")
  BY DEF WaitAllStep
<1>2. PICK F : jobtab' = [j \in Slot |-> IF j \in F THEN [jobtab[j] EXCEPT !.waited = TRUE]
                                         ELSE jobtab[j]]
  BY <1>1
<1>3. /\ sh' \in ShellState
      /\ sh'.at = "command" \/ (sh'.at \in {"back", "clear"} /\ sh'.cmd = "waitall")
  BY <1>1, GoToSets, DowaitSets
<1>4. /\ TableShape' /\ KernelShape' /\ Chained' /\ Apart' /\ Statuses' /\ NoLostChild'
      /\ Forking'
  <2>1. sh'.at # "fork"
    BY <1>3
  <2> QED
    BY <1>1, <1>2, <2>1, MarkedKeeps
<1>5. ShellShape'
  BY <1>1, <1>3 DEF IInv, ShellShape
<1>6. Waiting' /\ StatusIsKnown' /\ Alert'
  BY <1>3 DEF Waiting, StatusIsKnown, Alert, At, AtWait
<1> QED
  BY <1>4, <1>5, <1>6 DEF IInv

\* wait without arguments, back from dowait.
LEMMA WaitAllBackKeeps ==
  ASSUME IInv, WaitAllBack
  PROVE  IInv'
<1>1. CASE WaitAllStep
  BY <1>1, WaitAllStepKeeps DEF WaitAllBack, At
<1>2. CASE /\ GoTo("command")
           /\ UNCHANGED <<table, jobctl, tty, gotsigchld, job_warning, proc, stops, lost>>
  <2>1. At("back") /\ UNCHANGED <<jobtab, chain, proc, stops, lost>>
    BY <1>2 DEF WaitAllBack, table
  <2>2. sh' \in ShellState /\ sh'.at = "command"
    BY <1>2, GoToSets
  <2>3. TableShape' /\ KernelShape' /\ Chained' /\ Apart' /\ Statuses' /\ NoLostChild'
    BY <2>1, TableKeeps DEF IInv
  <2>4. ShellShape' /\ Forking'
    BY <1>2, <2>1, <2>2 DEF IInv, ShellShape, Forking, At
  <2>5. Waiting' /\ StatusIsKnown' /\ Alert'
    BY <2>2 DEF Waiting, StatusIsKnown, Alert, At, AtWait
  <2> QED
    BY <2>3, <2>4, <2>5 DEF IInv
<1> QED
  BY <1>1, <1>2 DEF WaitAllBack

\* The built-in wait.
LEMMA waitcmdKeeps ==
  ASSUME IInv, waitcmd
  PROVE  IInv'
<1>1. CASE WaitAllStep
  BY <1>1, WaitAllStepKeeps DEF waitcmd, At
<1>2. ASSUME NEW j \in Slot, getjob(j, FALSE), dowait(jobtab, "WAITCMD", j, "wait"),
             UNCHANGED <<table, jobctl, tty, signals, job_warning, proc, stops, lost>>
      PROVE  IInv'
  <2>1. /\ At("command") /\ jobtab[j].used
        /\ UNCHANGED <<jobtab, chain, jobctl, tty, gotsigchld, job_warning, proc, stops, lost>>
    BY <1>2 DEF waitcmd, table, getjob, signals
  <2>2. /\ sh' \in ShellState /\ sh'.at \in {"back", "clear"}
        /\ sh'.job = j /\ sh'.cmd = "wait" /\ sh'.rpid = TRUE
        /\ sh'.block = IF j # None /\ jobtab[j].state # "running" THEN "NON" ELSE "WAITCMD"
        /\ sh'.at = "back" => sh'.block = "NON"
    BY <1>2, DowaitSets
  <2>3. TableShape' /\ KernelShape' /\ Chained' /\ Apart' /\ Statuses' /\ NoLostChild'
    BY <2>1, TableKeeps DEF IInv
  <2>4. ShellShape' /\ Forking'
    BY <2>1, <2>2 DEF IInv, ShellShape, Forking, At
  <2>5. Waiting' /\ Alert'
    BY <2>1, <2>2 DEF Waiting, Alert, At, AtWait
  <2>6. StatusIsKnown'
    BY <2>1, <2>2 DEF StatusIsKnown, At, Statuses, IInv
  <2> QED
    BY <2>3, <2>4, <2>5, <2>6 DEF IInv
<1> QED
  BY <1>1, <1>2 DEF waitcmd

\* makejob takes a slot whose processes, if it names any, are over.
LEMMA makejobKeeps ==
  ASSUME IInv, NEW n \in 1 .. 2, NEW mode \in Mode, makejob(n, mode)
  PROVE  IInv'
<1> DEFINE new == [FreeSlot EXCEPT !.used = TRUE, !.jobctl = jobctl]
<1>1. PICK j \in Slot :
        /\ Reusable(j) /\ jobtab' = [jobtab EXCEPT ![j] = new]
        /\ chain' = Pushed(j)
        /\ sh' = [Idle EXCEPT !.at = "fork", !.job = j, !.mode = mode, !.left = n]
  BY DEF makejob
<1>2. At("command") /\ UNCHANGED <<jobctl, tty, gotsigchld, job_warning, proc, stops, lost>>
  BY DEF makejob, signals
<1>3. /\ sh' \in ShellState /\ sh'.at = "fork" /\ sh'.job = j /\ sh'.left = n /\ n > 0
  <2>1. sh' = [at |-> "fork", job |-> j, block |-> "NON", rpid |-> TRUE, cmd |-> "none",
               mode |-> mode, left |-> n]
    BY <1>1 DEF Idle
  <2> QED
    BY <2>1 DEF ShellState
<1>4. new \in Job /\ new.used = TRUE /\ new.state = "running" /\ new.ps = <<>>
  BY FreeSlotType DEF FreeSlot, Job, IInv, ShellShape
<1>5. /\ chain' \in Seq(Slot) /\ Once(chain')
      /\ \A x : Lists(chain', x) <=> Lists(chain, x) \/ x = j
  <2>1. PICK rest : rest = RemoveFirst(chain, j)
    OBVIOUS
  <2>2. /\ rest \in Seq(Slot) /\ Once(rest) /\ ~ Lists(rest, j)
        /\ \A x : Lists(rest, x) <=> Lists(chain, x) /\ x # j
    BY <2>1, RemoveFirstLists DEF IInv, TableShape, Chained
  <2>3. chain' = <<j>> \o rest
    BY <1>1, <2>1 DEF Pushed
  <2>4. /\ <<j>> \o rest \in Seq(Slot) /\ Once(<<j>> \o rest)
        /\ \A x : Lists(<<j>> \o rest, x) <=> Lists(rest, x) \/ x = j
    BY <2>2, PushLists
  <2> QED
    BY <2>2, <2>3, <2>4
<1> HIDE DEF new
<1>6. jobtab'[j] = new /\ \A x \in Slot : x # j => jobtab'[x] = jobtab[x]
  BY <1>1 DEF IInv, TableShape
<1>7. TableShape' /\ KernelShape' /\ ShellShape'
  BY <1>1, <1>2, <1>3, <1>4, <1>5 DEF IInv, TableShape, KernelShape, ShellShape
<1>8. Chained'
  <2>1. \A x \in Slot : jobtab'[x].used <=> Lists(chain', x)
    BY <1>4, <1>5, <1>6 DEF IInv, Chained
  <2> QED
    BY <1>5, <2>1 DEF Chained, Lists, Once
<1>9. Apart'
  <2>1. \A x \in Slot : ~ jobtab'[x].used => jobtab'[x].ps = <<>>
    BY <1>4, <1>6 DEF IInv, Apart
  <2>2. ASSUME NEW x \in Slot, NEW i \in 1 .. Len(jobtab'[x].ps)
        PROVE  jobtab'[x].ps = jobtab[x].ps /\ i \in 1 .. Len(jobtab[x].ps)
    BY <1>4, <1>6
  <2>3. ASSUME NEW x \in Slot, NEW k \in Slot, NEW i \in 1 .. Len(jobtab'[x].ps),
               NEW m \in 1 .. Len(jobtab'[k].ps), jobtab'[x].ps[i].pid = jobtab'[k].ps[m].pid
        PROVE  x = k /\ i = m
    <3>1. /\ i \in 1 .. Len(jobtab[x].ps) /\ m \in 1 .. Len(jobtab[k].ps)
          /\ jobtab[x].ps[i].pid = jobtab[k].ps[m].pid
      BY <2>2, <2>3
    <3> QED
      BY <3>1 DEF IInv, Apart
  <2> QED
    BY <2>1, <2>3 DEF Apart
<1>10. ASSUME NEW i \in 1 .. Len(jobtab[j].ps)
       PROVE  jobtab[j].state = "done"
  BY <1>1 DEF IInv, Apart, Reusable
<1>11. Statuses' /\ NoLostChild'
  <2>1. Statuses'
    BY <1>2, <1>4, <1>6 DEF IInv, Statuses, Child
  <2>2. NoLostChild'
    BY <1>2, <1>6, <1>10 DEF IInv, NoLostChild, Child
  <2> QED
    BY <2>1, <2>2
<1>12. Forking'
  BY <1>2, <1>3, <1>4, <1>6 DEF IInv, Forking, At
<1>13. Waiting' /\ StatusIsKnown' /\ Alert'
  BY <1>3 DEF Waiting, StatusIsKnown, Alert, At, AtWait
<1> QED
  BY <1>7, <1>8, <1>9, <1>11, <1>12, <1>13 DEF IInv

\* A failing fork frees the job and gives its processes up.
LEMMA ForkFailsKeeps ==
  ASSUME IInv, ForkFails
  PROVE  IInv'
<1> DEFINE j == sh.job
           gone == {jobtab[j].ps[i].pid : i \in 1 .. Len(jobtab[j].ps)}
<1>1. /\ At("fork") /\ j \in Slot /\ lost' = lost \cup gone
      /\ jobtab' = [jobtab EXCEPT ![j] = FreeSlot] /\ chain' = set_curjob(chain, jobtab, j, "DELETE")
      /\ UNCHANGED <<jobctl, tty, gotsigchld, job_warning, proc, stops>>
  BY DEF ForkFails, freejob, signals, IInv, Forking
<1>2. sh' \in ShellState /\ sh'.at = "prompt"
  BY GoToSets DEF ForkFails
<1>3. /\ chain' \in Seq(Slot) /\ Once(chain')
      /\ \A x : Lists(chain', x) <=> IF x = j THEN "DELETE" # "DELETE" ELSE Lists(chain, x)
  BY <1>1, SetCurjobLists DEF IInv, TableShape, Chained
<1>4. jobtab'[j] = FreeSlot /\ \A x \in Slot : x # j => jobtab'[x] = jobtab[x]
  BY <1>1 DEF IInv, TableShape
<1>5. FreeSlot.used = FALSE /\ FreeSlot.ps = <<>> /\ FreeSlot.state = "running"
  BY DEF FreeSlot
<1>6. gone \subseteq Pid
  BY <1>1, EntryType DEF IInv
<1>7. TableShape' /\ KernelShape' /\ ShellShape'
  BY <1>1, <1>2, <1>3, <1>6, FreeSlotType DEF IInv, TableShape, KernelShape, ShellShape
<1>8. Chained'
  <2>1. \A x \in Slot : jobtab'[x].used <=> Lists(chain', x)
    BY <1>3, <1>4, <1>5 DEF IInv, Chained
  <2> QED
    BY <1>3, <2>1 DEF Chained, Lists, Once
<1>9. Apart'
  <2>1. \A x \in Slot : ~ jobtab'[x].used => jobtab'[x].ps = <<>>
    BY <1>4, <1>5 DEF IInv, Apart
  <2>2. ASSUME NEW x \in Slot, NEW i \in 1 .. Len(jobtab'[x].ps)
        PROVE  jobtab'[x].ps = jobtab[x].ps /\ i \in 1 .. Len(jobtab[x].ps)
    BY <1>4, <1>5
  <2>3. ASSUME NEW x \in Slot, NEW k \in Slot, NEW i \in 1 .. Len(jobtab'[x].ps),
               NEW m \in 1 .. Len(jobtab'[k].ps), jobtab'[x].ps[i].pid = jobtab'[k].ps[m].pid
        PROVE  x = k /\ i = m
    <3>1. /\ i \in 1 .. Len(jobtab[x].ps) /\ m \in 1 .. Len(jobtab[k].ps)
          /\ jobtab[x].ps[i].pid = jobtab[k].ps[m].pid
      BY <2>2, <2>3
    <3> QED
      BY <3>1 DEF IInv, Apart
  <2> QED
    BY <2>1, <2>3 DEF Apart
<1>10. Statuses'
  BY <1>1, <1>4, <1>5 DEF IInv, Statuses, Child
<1>11. NoLostChild'
  <2>1. ASSUME NEW p \in Pid, Child(p)', p \notin lost'
        PROVE  \E k \in Slot : /\ jobtab'[k].used /\ jobtab'[k].state # "done"
                               /\ \E i \in 1 .. Len(jobtab'[k].ps) : jobtab'[k].ps[i].pid = p
    <3>1. Child(p) /\ p \notin lost /\ p \notin gone
      BY <1>1, <2>1 DEF Child
    <3>2. PICK k \in Slot : /\ jobtab[k].used /\ jobtab[k].state # "done"
                            /\ \E i \in 1 .. Len(jobtab[k].ps) : jobtab[k].ps[i].pid = p
      BY <3>1 DEF IInv, NoLostChild
    <3>3. k # j
      BY <3>1, <3>2
    <3> QED
      BY <1>4, <3>2, <3>3
  <2> QED
    BY <2>1 DEF NoLostChild
<1>12. Forking'
  BY <1>1, <1>2, <1>4, <1>5 DEF IInv, Forking, At
<1>13. Waiting' /\ StatusIsKnown' /\ Alert'
  BY <1>2 DEF Waiting, StatusIsKnown, Alert, At, AtWait
<1> QED
  BY <1>7, <1>8, <1>9, <1>10, <1>11, <1>12, <1>13 DEF IInv

\* A process that was just forked.
LEMMA NewProcess ==
  ASSUME NEW g \in Pid \cup {Shell}, NEW f \in BOOLEAN
  PROVE  LET r == [NoProcess EXCEPT !.st = "new", !.grp = g, !.fg = f]
         IN  r \in Proc /\ r.st = "new"
<1>1. NoProcess \in Proc
  BY DEF NoProcess, Proc
<1> QED
  BY <1>1 DEF Proc

\* A fork gives the job a running process, one that no job names.
LEMMA forkparentKeeps ==
  ASSUME IInv, NEW p \in Pid, forkparent(p)
  PROVE  IInv'
<1> DEFINE j == sh.job
           q == [pid |-> p, status |-> "none"]
           n == Len(jobtab[j].ps)
<1>1. /\ At("fork") /\ sh.left > 0 /\ ~ Child(p) /\ p \notin Named \cup lost
      /\ j \in Slot /\ jobtab[j].used /\ jobtab[j].state = "running"
      /\ jobtab' = [jobtab EXCEPT ![j].ps = Append(@, q)]
      /\ chain' = IF sh.mode = "BG" THEN set_curjob(chain, jobtab, j, "RUNNING") ELSE chain
      /\ UNCHANGED <<jobctl, tty, gotsigchld, job_warning, stops, lost>>
  BY DEF forkparent, signals, IInv, Forking
<1>2. /\ sh' \in ShellState /\ sh'.at = "fork" /\ sh'.job = j
  BY <1>1 DEF forkparent, IInv, ShellShape, ShellState, At
<1>3. /\ chain' \in Seq(Slot) /\ Once(chain') /\ \A x : Lists(chain', x) <=> Lists(chain, x)
  <2>1. chain \in Seq(Slot) /\ Once(chain) /\ Lists(chain, j)
    BY <1>1 DEF IInv, TableShape, Chained
  <2>2. PICK d : d = set_curjob(chain, jobtab, j, "RUNNING")
    OBVIOUS
  <2>3. /\ d \in Seq(Slot) /\ Once(d)
        /\ \A x : Lists(d, x) <=> IF x = j THEN "RUNNING" # "DELETE" ELSE Lists(chain, x)
    BY <1>1, <2>1, <2>2, SetCurjobLists
  <2>4. chain' \in {chain, d}
    BY <1>1, <2>2
  <2> QED
    BY <2>1, <2>3, <2>4
<1>4. q \in ProcessEntry /\ q.pid = p /\ q.status = "none"
  BY DEF ProcessEntry, Status
<1>5. /\ jobtab[j].ps \in Seq(ProcessEntry) /\ n \in Nat /\ jobtab \in [Slot -> Job]
      /\ \A x \in Slot : jobtab[x] \in Job /\ Len(jobtab[x].ps) \in Nat
  BY <1>1, EntryType DEF IInv, TableShape
<1> DEFINE t == Append(jobtab[j].ps, q)
<1> HIDE DEF q, n
<1>6. /\ t \in Seq(ProcessEntry) /\ t # <<>> /\ Len(t) = n + 1
      /\ \A i \in 1 .. n : t[i] = jobtab[j].ps[i]
      /\ t[n + 1] = q
  BY <1>4, <1>5, AppendProperties DEF n
<1>7. /\ jobtab'[j] = [jobtab[j] EXCEPT !.ps = t]
      /\ \A x \in Slot : x # j => jobtab'[x] = jobtab[x]
  BY <1>1, <1>5
<1> HIDE DEF t
<1>8. /\ jobtab'[j] \in Job /\ jobtab'[j].used = jobtab[j].used
      /\ jobtab'[j].state = jobtab[j].state /\ jobtab'[j].ps = t
  <2>1. jobtab[j] \in Job
    BY <1>1, <1>5
  <2> QED
    BY <1>6, <1>7, <2>1 DEF Job
<1>9. TableShape' /\ ShellShape'
  BY <1>1, <1>2, <1>3, <1>5, <1>7, <1>8 DEF IInv, TableShape, ShellShape
<1>10. /\ KernelShape' /\ proc'[p].st = "new"
       /\ \A x : x # p => (Child(x)' <=> Child(x)) /\ (Reportable(x)' <=> Reportable(x))
  <2>1. PICK r : proc' = [proc EXCEPT ![p] = r] /\ r \in Proc /\ r.st = "new"
    <3>1. (IF jobtab[j].ps = <<>> THEN p ELSE Leader(j)) \in Pid
      <4>1. jobtab[j].ps # <<>> => 1 \in 1 .. n
        BY <1>5, EmptySeq DEF n
      <4> QED
        BY <1>1, <4>1, EntryType DEF Leader, IInv
    <3>2. jobtab[j].jobctl \in BOOLEAN
      BY <1>1, <1>5 DEF Job
    <3> DEFINE leader == IF jobtab[j].ps = <<>> THEN p ELSE Leader(j)
               group == IF jobtab[j].jobctl THEN leader ELSE Shell
               front == jobtab[j].jobctl /\ sh.mode = "FG"
               r == [NoProcess EXCEPT !.st = "new", !.grp = group, !.fg = front]
    <3>3. proc' = [proc EXCEPT ![p] = r]
      BY DEF forkparent
    <3>4. front \in BOOLEAN /\ group \in Pid \cup {Shell}
      BY <3>1, <3>2
    <3> HIDE DEF leader, front, group
    <3>6. r \in Proc /\ r.st = "new"
      BY <3>4, NewProcess
    <3> QED
      BY <3>3, <3>6
  <2>2. KernelShape' /\ proc'[p].st = "new"
    BY <1>1, <2>1 DEF IInv, KernelShape
  <2>3. ASSUME NEW x, x # p
        PROVE  (Child(x)' <=> Child(x)) /\ (Reportable(x)' <=> Reportable(x))
    BY <1>1, <2>1, <2>3 DEF Child, Reportable, IInv, KernelShape
  <2> QED
    BY <2>2, <2>3
<1>11. Chained'
  <2>1. \A x \in Slot : jobtab'[x].used <=> Lists(chain', x)
    BY <1>3, <1>7, <1>8 DEF IInv, Chained
  <2> QED
    BY <1>3, <2>1 DEF Chained, Lists, Once
\* Where the entries of the table come from.
<1>12. ASSUME NEW x \in Slot, NEW i \in 1 .. Len(jobtab'[x].ps)
       PROVE  \/ x = j /\ i = n + 1 /\ jobtab'[x].ps[i] = q
              \/ i \in 1 .. Len(jobtab[x].ps) /\ jobtab'[x].ps[i] = jobtab[x].ps[i]
  <2>1. CASE x = j
    <3>1. i \in 1 .. n + 1 /\ jobtab'[x].ps[i] = t[i]
      BY <1>6, <1>8, <2>1
    <3>2. i \in 1 .. n \/ i = n + 1
      BY <1>5, <3>1
    <3> QED
      BY <1>6, <2>1, <3>1, <3>2 DEF n
  <2>2. CASE x # j
    BY <1>7, <2>2
  <2> QED
    BY <2>1, <2>2
<1>13. \A x \in Slot : \A i \in 1 .. Len(jobtab[x].ps) :
         jobtab[x].ps[i].pid \in Pid /\ jobtab[x].ps[i].pid # p
  BY <1>1, EntryType DEF Named, IInv
<1>14. Apart'
  <2>1. \A x \in Slot : ~ jobtab'[x].used => jobtab'[x].ps = <<>>
    BY <1>1, <1>7, <1>8 DEF IInv, Apart
  <2>2. ASSUME NEW x \in Slot, NEW k \in Slot, NEW i \in 1 .. Len(jobtab'[x].ps),
               NEW m \in 1 .. Len(jobtab'[k].ps), jobtab'[x].ps[i].pid = jobtab'[k].ps[m].pid
        PROVE  x = k /\ i = m
    <3>1. CASE jobtab'[x].ps[i] = q \/ jobtab'[k].ps[m] = q
      BY <1>4, <1>12, <1>13, <2>2, <3>1
    <3>2. CASE jobtab'[x].ps[i] # q /\ jobtab'[k].ps[m] # q
      <4>1. /\ i \in 1 .. Len(jobtab[x].ps) /\ m \in 1 .. Len(jobtab[k].ps)
            /\ jobtab[x].ps[i].pid = jobtab[k].ps[m].pid
        BY <1>12, <2>2, <3>2
      <4> QED
        BY <4>1 DEF IInv, Apart
    <3> QED
      BY <3>1, <3>2
  <2> QED
    BY <2>1, <2>2 DEF Apart
<1>15. Statuses'
  <2>1. ASSUME NEW x \in Slot, NEW i \in 1 .. Len(jobtab'[x].ps), NEW e,
               e = jobtab'[x].ps[i]
        PROVE  /\ e.status \in Over <=> ~ Child(e.pid)'
               /\ jobtab'[x].state = "done" => e.status \in Over
               /\ jobtab'[x].state # "running" => e.status # "none"
    <3>1. CASE x = j /\ jobtab'[x].ps[i] = q
      <4>1. Child(p)' /\ "none" \notin Over
        BY <1>10 DEF Child, Over
      <4>2. /\ e.pid = p /\ e.status = "none"
            /\ jobtab'[x].state = "running"
        BY <1>1, <1>4, <1>8, <2>1, <3>1
      <4> QED
        BY <4>1, <4>2
    <3>2. CASE i \in 1 .. Len(jobtab[x].ps) /\ jobtab'[x].ps[i] = jobtab[x].ps[i]
      <4>1. jobtab'[x].state = jobtab[x].state
        BY <1>7, <1>8
      <4>2. /\ e.status \in Over <=> ~ Child(e.pid)
            /\ jobtab[x].state = "done" => e.status \in Over
            /\ jobtab[x].state # "running" => e.status # "none"
        BY <2>1, <3>2 DEF IInv, Statuses
      <4>3. Child(e.pid)' <=> Child(e.pid)
        BY <1>10, <1>13, <2>1, <3>2
      <4> QED
        BY <4>1, <4>2, <4>3
    <3> QED
      BY <1>12, <3>1, <3>2
  <2> QED
    BY <2>1 DEF Statuses
<1>16. NoLostChild'
  <2>1. ASSUME NEW x \in Pid, Child(x)', x \notin lost'
        PROVE  \E k \in Slot : /\ jobtab'[k].used /\ jobtab'[k].state # "done"
                               /\ \E i \in 1 .. Len(jobtab'[k].ps) : jobtab'[k].ps[i].pid = x
    <3>1. CASE x = p
      <4>1. n + 1 \in 1 .. Len(jobtab'[j].ps) /\ jobtab'[j].ps[n + 1].pid = x
        BY <1>4, <1>5, <1>6, <1>8, <3>1 DEF n
      <4> QED
        BY <1>1, <1>8, <4>1
    <3>2. CASE x # p
      <4>1. PICK k \in Slot : /\ jobtab[k].used /\ jobtab[k].state # "done"
                              /\ \E i \in 1 .. Len(jobtab[k].ps) : jobtab[k].ps[i].pid = x
        BY <1>1, <1>10, <2>1, <3>2 DEF IInv, NoLostChild
      <4>2. PICK i \in 1 .. Len(jobtab[k].ps) : jobtab[k].ps[i].pid = x
        BY <4>1
      <4>3. i \in 1 .. Len(jobtab'[k].ps) /\ jobtab'[k].ps[i].pid = x
        <5>1. CASE k = j
          BY <1>5, <1>6, <1>8, <4>2, <5>1 DEF n
        <5>2. CASE k # j
          BY <1>7, <4>2, <5>2
        <5> QED
          BY <5>1, <5>2
      <4> QED
        BY <1>7, <1>8, <4>1, <4>3
    <3> QED
      BY <3>1, <3>2
  <2> QED
    BY <2>1 DEF NoLostChild
<1>17. Forking'
  <2>1. jobtab'[j].ps # <<>>
    BY <1>6, <1>8
  <2> QED
    BY <1>1, <1>2, <1>7, <1>8, <2>1 DEF IInv, Forking, At
<1>18. Waiting' /\ StatusIsKnown' /\ Alert'
  BY <1>2 DEF Waiting, StatusIsKnown, Alert, At, AtWait
<1> QED
  BY <1>9, <1>10, <1>11, <1>14, <1>15, <1>16, <1>17, <1>18 DEF IInv

\* To continue a group changes no child into anything else.
LEMMA ContinueKeeps ==
  ASSUME KernelShape, NEW g, Continue(g), UNCHANGED <<stops, lost>>
  PROVE  KernelShape' /\ \A p \in Pid : Child(p)' <=> Child(p)
<1>1. ASSUME NEW p \in Pid
      PROVE  /\ proc'[p] \in Proc /\ (proc'[p].st = "zombie" => proc'[p].how \in Over)
             /\ proc'[p].st = "free" <=> proc[p].st = "free"
  <2>1. proc[p] \in Proc /\ (proc[p].st = "zombie" => proc[p].how \in Over)
    BY DEF KernelShape
  <2>2. CASE proc[p].grp = g /\ proc[p].st = "stop"
    <3>1. proc'[p] = [proc[p] EXCEPT !.st = "run", !.told = TRUE]
      BY <2>2 DEF Continue
    <3> QED
      BY <2>1, <2>2, <3>1 DEF Proc
  <2>3. CASE ~ (proc[p].grp = g /\ proc[p].st = "stop")
    <3>1. proc'[p] = proc[p]
      BY <2>3 DEF Continue
    <3> QED
      BY <2>1, <3>1
  <2> QED
    BY <2>2, <2>3
<1>2. proc' = [p \in Pid |-> proc'[p]]
  BY DEF Continue
<1>3. KernelShape'
  BY <1>1, <1>2 DEF KernelShape
<1> QED
  BY <1>1, <1>3 DEF Child

\* As long as the entries name the same processes they are apart.
LEMMA ApartKeeps ==
  ASSUME Apart,
         \A x \in Slot : /\ jobtab'[x].used = jobtab[x].used
                         /\ Len(jobtab'[x].ps) = Len(jobtab[x].ps)
                         /\ \A i \in 1 .. Len(jobtab[x].ps) :
                              jobtab'[x].ps[i].pid = jobtab[x].ps[i].pid
                         /\ jobtab'[x].ps = <<>> <=> jobtab[x].ps = <<>>
  PROVE  Apart'
<1>1. \A x \in Slot : ~ jobtab'[x].used => jobtab'[x].ps = <<>>
  BY DEF Apart
<1>2. ASSUME NEW x \in Slot, NEW k \in Slot, NEW i \in 1 .. Len(jobtab'[x].ps),
             NEW m \in 1 .. Len(jobtab'[k].ps), jobtab'[x].ps[i].pid = jobtab'[k].ps[m].pid
      PROVE  x = k /\ i = m
  <2>1. /\ i \in 1 .. Len(jobtab[x].ps) /\ m \in 1 .. Len(jobtab[k].ps)
        /\ jobtab[x].ps[i].pid = jobtab[k].ps[m].pid
    BY <1>2
  <2> QED
    BY <2>1 DEF Apart
<1> QED
  BY <1>1, <1>2 DEF Apart

\* A function over 1 .. n is a sequence.
LEMMA FunctionIsSeq ==
  ASSUME NEW S, NEW n \in Nat, NEW f, f = [i \in 1 .. n |-> f[i]], \A i \in 1 .. n : f[i] \in S
  PROVE  f \in Seq(S) /\ Len(f) = n
<1>1. f \in [1 .. n -> S]
  OBVIOUS
<1> QED
  BY <1>1

\* A job that fg or bg continues runs: what its processes had reported when they
\* stopped is forgotten, what they reported when they ended is not.
LEMMA ResumedKeeps ==
  ASSUME TableShape, Apart, Statuses, NoLostChild, Forking, NEW j \in Slot,
         jobtab[j].used, jobtab[j].state # "done",
         jobtab' = Resumed(j) \/ jobtab' = [jobtab EXCEPT ![j].state = "running"],
         \A p \in Pid : Child(p)' <=> Child(p), UNCHANGED lost,
         ~ At("fork"), sh'.at # "fork"
  PROVE  /\ jobtab' \in [Slot -> Job] /\ Apart' /\ Statuses' /\ NoLostChild' /\ Forking'
         /\ jobtab'[j].state = "running"
         /\ \A x \in Slot : jobtab'[x].used = jobtab[x].used
<1>1. /\ jobtab \in [Slot -> Job] /\ jobtab[j] \in Job /\ jobtab[j].ps \in Seq(ProcessEntry)
      /\ \A x \in Slot : \A i \in 1 .. Len(jobtab[x].ps) :
           /\ jobtab[x].ps[i] \in ProcessEntry /\ jobtab[x].ps[i].pid \in Pid
           /\ jobtab[x].ps[i].status \in Status
      /\ \A x \in Slot : Len(jobtab[x].ps) \in Nat
  BY EntryType DEF TableShape
<1> DEFINE again(e) == IF e.status = "stopped" THEN [e EXCEPT !.status = "none"] ELSE e
           t == [i \in 1 .. Len(jobtab[j].ps) |-> again(jobtab[j].ps[i])]
<1>2. ASSUME NEW e \in ProcessEntry
      PROVE  /\ again(e) \in ProcessEntry /\ again(e).pid = e.pid
             /\ again(e).status \in Over <=> e.status \in Over
  BY DEF ProcessEntry, Status, Over
<1> HIDE DEF again
<1>3. PICK ps : /\ jobtab' = [jobtab EXCEPT ![j] = [jobtab[j] EXCEPT !.state = "running", !.ps = ps]]
                /\ ps = jobtab[j].ps \/ ps = t
  <2>1. CASE jobtab' = Resumed(j)
    <3>1. Resumed(j) = [jobtab EXCEPT ![j] = [jobtab[j] EXCEPT !.state = "running", !.ps = t]]
      BY <1>1 DEF Resumed, again
    <3> QED
      BY <2>1, <3>1
  <2>2. CASE jobtab' = [jobtab EXCEPT ![j].state = "running"]
    <3>1. [jobtab[j] EXCEPT !.state = "running"]
            = [jobtab[j] EXCEPT !.state = "running", !.ps = jobtab[j].ps]
      BY <1>1 DEF Job
    <3> QED
      BY <2>2, <3>1
  <2> QED
    BY <2>1, <2>2
<1>4. /\ ps \in Seq(ProcessEntry) /\ Len(ps) = Len(jobtab[j].ps)
      /\ \A i \in 1 .. Len(jobtab[j].ps) :
           /\ ps[i].pid = jobtab[j].ps[i].pid
           /\ ps[i].status \in Over <=> jobtab[j].ps[i].status \in Over
  <2>1. /\ t \in Seq(ProcessEntry) /\ Len(t) = Len(jobtab[j].ps)
        /\ \A i \in 1 .. Len(jobtab[j].ps) : t[i] = again(jobtab[j].ps[i])
    BY <1>1, <1>2
  <2> HIDE DEF t
  <2>2. CASE ps = t
    BY <1>1, <1>2, <2>1, <2>2
  <2>3. CASE ps = jobtab[j].ps
    BY <1>1, <2>3
  <2> QED
    BY <1>3, <2>2, <2>3
<1> HIDE DEF t
<1>5. /\ jobtab'[j] \in Job /\ jobtab'[j].used = jobtab[j].used /\ jobtab'[j].state = "running"
      /\ jobtab'[j].ps = ps
      /\ \A x \in Slot : x # j => jobtab'[x] = jobtab[x]
      /\ jobtab' \in [Slot -> Job]
  <2>1. LET r == [jobtab[j] EXCEPT !.state = "running", !.ps = ps]
        IN  r \in Job /\ r.used = jobtab[j].used /\ r.state = "running" /\ r.ps = ps
    BY <1>1, <1>4 DEF Job
  <2> QED
    BY <1>1, <1>3, <2>1
<1>6. ASSUME NEW x \in Slot
      PROVE  /\ jobtab'[x].used = jobtab[x].used
             /\ Len(jobtab'[x].ps) = Len(jobtab[x].ps)
             /\ jobtab'[x].state # "done" <=> jobtab[x].state # "done"
             /\ jobtab'[x].state \in {"running", jobtab[x].state}
             /\ x # j => jobtab'[x] = jobtab[x]
             /\ \A i \in 1 .. Len(jobtab[x].ps) :
                  /\ jobtab'[x].ps[i].pid = jobtab[x].ps[i].pid
                  /\ jobtab'[x].ps[i].status \in Over <=> jobtab[x].ps[i].status \in Over
  BY <1>4, <1>5
<1>7. ASSUME NEW x \in Slot
      PROVE  jobtab'[x].ps = <<>> <=> jobtab[x].ps = <<>>
  <2>1. jobtab'[x].ps \in Seq(ProcessEntry) /\ jobtab[x].ps \in Seq(ProcessEntry)
    BY <1>1, <1>4, <1>5 DEF Job
  <2> QED
    BY <1>6, <2>1, EmptySeq
<1>8. Apart'
  BY <1>6, <1>7, ApartKeeps
<1>9. Statuses'
  <2>1. ASSUME NEW x \in Slot, NEW i \in 1 .. Len(jobtab'[x].ps), NEW e, e = jobtab'[x].ps[i]
        PROVE  /\ e.status \in Over <=> ~ Child(e.pid)'
               /\ jobtab'[x].state = "done" => e.status \in Over
               /\ jobtab'[x].state # "running" => e.status # "none"
    <3>1. PICK f : f = jobtab[x].ps[i]
      OBVIOUS
    <3>2. /\ i \in 1 .. Len(jobtab[x].ps) /\ e.pid = f.pid /\ f.pid \in Pid
          /\ e.status \in Over <=> f.status \in Over
      BY <1>1, <1>6, <2>1, <3>1
    <3>3. /\ f.status \in Over <=> ~ Child(f.pid)
          /\ jobtab[x].state = "done" => f.status \in Over
          /\ jobtab[x].state # "running" => f.status # "none"
      BY <3>1, <3>2 DEF Statuses
    <3>4. Child(e.pid)' <=> Child(f.pid)
      BY <3>2
    <3>5. jobtab'[x].state # "running" => e = f /\ jobtab'[x].state = jobtab[x].state
      BY <1>5, <2>1, <3>1
    <3>6. jobtab'[x].state = "done" => jobtab[x].state = "done"
      BY <1>6
    <3> QED
      BY <3>2, <3>3, <3>4, <3>5, <3>6
  <2> QED
    BY <2>1 DEF Statuses
<1>10. NoLostChild'
  <2>1. ASSUME NEW p \in Pid, Child(p)', p \notin lost'
        PROVE  \E k \in Slot : /\ jobtab'[k].used /\ jobtab'[k].state # "done"
                               /\ \E i \in 1 .. Len(jobtab'[k].ps) : jobtab'[k].ps[i].pid = p
    <3>1. PICK k \in Slot : /\ jobtab[k].used /\ jobtab[k].state # "done"
                            /\ \E i \in 1 .. Len(jobtab[k].ps) : jobtab[k].ps[i].pid = p
      BY <2>1 DEF NoLostChild
    <3>2. PICK i \in 1 .. Len(jobtab[k].ps) : jobtab[k].ps[i].pid = p
      BY <3>1
    <3>3. /\ i \in 1 .. Len(jobtab'[k].ps) /\ jobtab'[k].ps[i].pid = p
          /\ jobtab'[k].used /\ jobtab'[k].state # "done"
      BY <1>6, <3>1, <3>2
    <3> QED
      BY <3>3
  <2> QED
    BY <2>1 DEF NoLostChild
<1>11. Forking'
  BY <1>6, <1>7 DEF Forking, At
<1> QED
  BY <1>5, <1>6, <1>8, <1>9, <1>10, <1>11

\* A job of the table, when no fork is under way, has a leader.
LEMMA LeaderType ==
  ASSUME IInv, NEW j \in Slot, jobtab[j].used, ~ At("fork")
  PROVE  Leader(j) \in Pid
<1>1. jobtab[j].ps # <<>> /\ jobtab[j].ps \in Seq(ProcessEntry)
  BY EntryType DEF IInv, Forking
<1>2. 1 \in 1 .. Len(jobtab[j].ps)
  BY <1>1, EmptySeq
<1> QED
  BY <1>2, EntryType DEF IInv, Leader

\* The built-in fg.
LEMMA fgcmdKeeps ==
  ASSUME IInv, NEW j \in Slot, fgcmd(j)
  PROVE  IInv'
<1>1. /\ At("command") /\ jobtab[j].used /\ j # None
      /\ UNCHANGED <<chain, jobctl, gotsigchld, job_warning, stops, lost>>
  <2>1. /\ At("command") /\ jobtab[j].used
        /\ UNCHANGED <<chain, jobctl, gotsigchld, job_warning, stops, lost>>
    BY DEF fgcmd, getjob, signals
  <2>2. j # None
    BY DEF None, Slot
  <2> QED
    BY <2>1, <2>2
<1>2. CASE jobtab[j].state = "done"
  <2>1. dowait(jobtab, "BLOCK", j, "fg") /\ UNCHANGED <<jobtab, tty, proc>>
    BY <1>2 DEF fgcmd
  <2>2. /\ sh' \in ShellState /\ sh'.at \in {"back", "clear"}
        /\ sh'.job = j /\ sh'.cmd = "fg" /\ sh'.rpid = TRUE
        /\ sh'.block = IF j # None /\ jobtab[j].state # "running" THEN "NON" ELSE "BLOCK"
        /\ sh'.at = "back" => sh'.block = "NON"
    BY <2>1, DowaitSets
  <2>3. TableShape' /\ KernelShape' /\ Chained' /\ Apart' /\ Statuses' /\ NoLostChild'
    BY <1>1, <2>1, TableKeeps DEF IInv
  <2>4. ShellShape' /\ Forking'
    BY <1>1, <2>1, <2>2 DEF IInv, ShellShape, Forking, At
  <2>5. Waiting' /\ Alert'
    BY <1>1, <2>1, <2>2 DEF Waiting, Alert, At, AtWait
  <2>6. StatusIsKnown'
    BY <1>2, <2>1, <2>2 DEF StatusIsKnown, At, Statuses, IInv
  <2> QED
    BY <2>3, <2>4, <2>5, <2>6 DEF IInv
<1>3. CASE jobtab[j].state # "done" /\ ~ jobctl
  <2>1. /\ jobtab' = [jobtab EXCEPT ![j].state = "running"]
        /\ GoTo("prompt") /\ UNCHANGED <<tty, proc>>
    BY <1>3 DEF fgcmd
  <2>2. sh' \in ShellState /\ sh'.at = "prompt"
    BY <2>1, GoToSets
  <2>3. KernelShape' /\ \A p \in Pid : Child(p)' <=> Child(p)
    BY <1>1, <2>1 DEF IInv, KernelShape, Child
  <2>4. /\ jobtab' \in [Slot -> Job] /\ Apart' /\ Statuses' /\ NoLostChild' /\ Forking'
        /\ \A x \in Slot : jobtab'[x].used = jobtab[x].used
    BY <1>1, <1>3, <2>1, <2>2, <2>3, ResumedKeeps DEF IInv, At
  <2>5. TableShape' /\ Chained' /\ ShellShape'
    BY <1>1, <2>1, <2>2, <2>4 DEF IInv, TableShape, Chained, ShellShape
  <2>6. Waiting' /\ StatusIsKnown' /\ Alert'
    BY <2>2 DEF Waiting, StatusIsKnown, Alert, At, AtWait
  <2> QED
    BY <2>3, <2>4, <2>5, <2>6 DEF IInv
<1>4. CASE jobtab[j].state # "done" /\ jobctl
  <2>1. /\ jobtab' = Resumed(j) /\ tty' = Leader(j) /\ Continue(Leader(j))
        /\ dowait(jobtab', "BLOCK", j, "fg")
    BY <1>4 DEF fgcmd
  <2>2. /\ sh' \in ShellState /\ sh'.at \in {"back", "clear"}
        /\ sh'.job = j /\ sh'.cmd = "fg" /\ sh'.rpid = TRUE
        /\ sh'.block = IF j # None /\ jobtab'[j].state # "running" THEN "NON" ELSE "BLOCK"
        /\ sh'.at = "back" => sh'.block = "NON"
    <3>1. PICK tab : tab = jobtab'
      OBVIOUS
    <3>2. dowait(tab, "BLOCK", j, "fg")
      BY <2>1, <3>1
    <3> QED
      BY <3>1, <3>2, DowaitSets
  <2>3. KernelShape' /\ \A p \in Pid : Child(p)' <=> Child(p)
    BY <1>1, <2>1, ContinueKeeps DEF IInv
  <2>4. /\ jobtab' \in [Slot -> Job] /\ Apart' /\ Statuses' /\ NoLostChild' /\ Forking'
        /\ jobtab'[j].state = "running"
        /\ \A x \in Slot : jobtab'[x].used = jobtab[x].used
    <3>1. ~ At("fork") /\ sh'.at # "fork"
      BY <1>1, <2>2 DEF At
    <3> QED
      BY <1>1, <1>4, <2>1, <2>3, <3>1, ResumedKeeps DEF IInv
  <2>5. Leader(j) \in Pid
    BY <1>1, LeaderType DEF At
  <2>6. TableShape' /\ Chained' /\ ShellShape'
    BY <1>1, <2>1, <2>2, <2>4, <2>5 DEF IInv, TableShape, Chained, ShellShape
  <2>7. sh'.at = "clear" /\ sh'.block = "BLOCK"
    BY <2>2, <2>4
  <2>8. Waiting' /\ StatusIsKnown' /\ Alert'
    BY <1>1, <2>2, <2>4, <2>7 DEF Waiting, StatusIsKnown, Alert, At, AtWait
  <2> QED
    BY <2>3, <2>4, <2>6, <2>8 DEF IInv
<1> QED
  BY <1>2, <1>3, <1>4

\* The built-in bg.
LEMMA bgcmdKeeps ==
  ASSUME IInv, NEW j \in Slot, bgcmd(j)
  PROVE  IInv'
<1>1. /\ At("command") /\ jobtab[j].used /\ UNCHANGED sh /\ sh.at = "command"
      /\ chain' = set_curjob(chain, jobtab, j, "RUNNING")
      /\ UNCHANGED <<jobctl, tty, gotsigchld, job_warning, stops, lost>>
  BY DEF bgcmd, getjob, signals, At
<1>2. /\ chain' \in Seq(Slot) /\ Once(chain') /\ \A x : Lists(chain', x) <=> Lists(chain, x)
  <2>1. chain \in Seq(Slot) /\ Once(chain) /\ Lists(chain, j)
    BY <1>1 DEF IInv, TableShape, Chained
  <2>2. PICK d : d = set_curjob(chain, jobtab, j, "RUNNING")
    OBVIOUS
  <2>3. /\ d \in Seq(Slot) /\ Once(d)
        /\ \A x : Lists(d, x) <=> IF x = j THEN "RUNNING" # "DELETE" ELSE Lists(chain, x)
    BY <1>1, <2>1, <2>2, SetCurjobLists
  <2> QED
    BY <1>1, <2>1, <2>2, <2>3
<1>3. /\ KernelShape' /\ Apart' /\ Statuses' /\ NoLostChild' /\ Forking' /\ jobtab' \in [Slot -> Job]
      /\ \A x \in Slot : jobtab'[x].used = jobtab[x].used
  <2>1. CASE jobtab[j].state = "done"
    <3>1. UNCHANGED <<jobtab, proc>>
      BY <2>1 DEF bgcmd
    <3> QED
      BY <1>1, <3>1 DEF IInv, TableShape, KernelShape, Apart, Statuses, NoLostChild, Forking,
         At,
                        Child
  <2>2. CASE jobtab[j].state # "done"
    <3>1. jobtab' = Resumed(j) /\ Continue(Leader(j))
      BY <2>2 DEF bgcmd
    <3>2. KernelShape' /\ \A p \in Pid : Child(p)' <=> Child(p)
      BY <1>1, <3>1, ContinueKeeps DEF IInv
    <3>3. ~ At("fork") /\ sh'.at # "fork"
      BY <1>1 DEF At
    <3> QED
      BY <1>1, <2>2, <3>1, <3>2, <3>3, ResumedKeeps DEF IInv
  <2> QED
    BY <2>1, <2>2
<1>4. TableShape' /\ ShellShape'
  BY <1>1, <1>2, <1>3 DEF IInv, TableShape, ShellShape
<1>5. Chained'
  <2>1. \A x \in Slot : jobtab'[x].used <=> Lists(chain', x)
    BY <1>2, <1>3 DEF IInv, Chained
  <2> QED
    BY <1>2, <2>1 DEF Chained, Lists, Once
<1>6. Waiting' /\ StatusIsKnown' /\ Alert'
  BY <1>1 DEF Waiting, StatusIsKnown, Alert, At, AtWait
<1> QED
  BY <1>3, <1>4, <1>5, <1>6 DEF IInv

\* The statuses of the processes of a job make its state: it runs while one has
\* none, and is done when all are over.
LEMMA StateOfMeans ==
  ASSUME NEW ps
  PROVE  /\ StateOf(ps) \in {"running", "stopped", "done"}
         /\ StateOf(ps) = "running" <=> \E i \in 1 .. Len(ps) : ps[i].status = "none"
         /\ StateOf(ps) = "done" => \A i \in 1 .. Len(ps) : /\ ps[i].status # "none"
                                                            /\ ps[i].status # "stopped"
BY DEF StateOf

\* The job j takes the status of its n-th process.
Recorded(p, status, j, n, ps, state, changed) ==
  /\ jobtab[j].used /\ jobtab[j].state # "done" /\ jobtab[j].ps[n].pid = p
  /\ ps = [i \in 1 .. Len(jobtab[j].ps) |->
             IF i = n THEN [jobtab[j].ps[i] EXCEPT !.status = status] ELSE jobtab[j].ps[i]]
  /\ state = (IF StateOf(ps) = "running" THEN jobtab[j].state ELSE StateOf(ps))
  /\ changed \in BOOLEAN
  /\ jobtab' = [jobtab EXCEPT ![j] =
                  [jobtab[j] EXCEPT !.ps = ps, !.state = state, !.changed = changed]]
  /\ chain' = chain \/ chain' = set_curjob(chain, jobtab, j, "STOPPED")

\* What waitone makes of the table when wait3 reports a child.  The first job that
\* names it is the only one.
LEMMA RecordSets ==
  ASSUME TableShape, Chained, Apart, Statuses,
         NEW p \in Pid, NEW status \in Over \cup {"stopped"}, Child(p), Record(p, status)
  PROVE  \/ /\ jobtab' = jobtab /\ chain' = chain
            /\ \A x \in Slot : \A i \in 1 .. Len(jobtab[x].ps) : jobtab[x].ps[i].pid # p
         \/ \E j \in Slot : \E n \in 1 .. Len(jobtab[j].ps) : \E ps, state, changed :
              Recorded(p, status, j, n, ps, state, changed)
<1> DEFINE names(j) == /\ jobtab[j].state # "done"
                       /\ \E i \in 1 .. Len(jobtab[j].ps) : jobtab[j].ps[i].pid = p
           hit == {i \in 1 .. Len(chain) : names(chain[i])}
<1>1. /\ chain \in Seq(Slot) /\ Len(chain) \in Nat /\ \A i \in 1 .. Len(chain) : chain[i] \in Slot
      /\ jobtab \in [Slot -> Job] /\ \A x \in Slot : jobtab[x] \in Job
  BY ElementOfSeq DEF TableShape
<1>2. CASE hit = {}
  <2>1. jobtab' = jobtab /\ chain' = chain
    BY <1>2 DEF Record
  <2>2. ASSUME NEW x \in Slot, NEW i \in 1 .. Len(jobtab[x].ps), jobtab[x].ps[i].pid = p
        PROVE  FALSE
    <3>1. jobtab[x].state # "done"
      BY <2>2 DEF Statuses
    <3>2. jobtab[x].used
      <4>1. jobtab[x].ps # <<>>
        BY <2>2
      <4> QED
        BY <4>1 DEF Apart
    <3>3. PICK k \in 1 .. Len(chain) : chain[k] = x
      BY <3>2 DEF Chained, Lists
    <3>4. k \in hit
      BY <2>2, <3>1, <3>3
    <3> QED
      BY <1>2, <3>4
  <2> QED
    BY <2>1, <2>2
<1>3. CASE hit # {}
  <2> DEFINE first == CHOOSE i \in hit : \A k \in hit : i <= k
             j == chain[first]
             ps == [i \in 1 .. Len(jobtab[j].ps) |->
                      IF jobtab[j].ps[i].pid = p THEN [jobtab[j].ps[i] EXCEPT !.status = status]
                      ELSE jobtab[j].ps[i]]
             state == StateOf(ps)
  <2>1. first \in hit
    <3>1. hit \subseteq Nat
      OBVIOUS
    <3>2. \E x \in hit : \A y \in hit : x <= y
      <4> HIDE DEF hit
      <4> QED
        BY <1>3, <3>1, LeastNumber
    <3> HIDE DEF hit
    <3> QED
      BY <3>2
  <2>2. /\ jobtab' = [jobtab EXCEPT ![j].ps = ps,
                        ![j].state = IF state = "running" THEN @ ELSE state,
                        ![j].changed = @ \/ state # "running"]
        /\ chain' = IF state = "stopped" /\ jobtab[j].state # "stopped"
                    THEN set_curjob(chain, jobtab, j, "STOPPED") ELSE chain
    BY <1>3 DEF Record
  <2>3. /\ j \in Slot /\ jobtab[j].state # "done" /\ first \in 1 .. Len(chain)
        /\ \E i \in 1 .. Len(jobtab[j].ps) : jobtab[j].ps[i].pid = p
    <3> HIDE DEF first
    <3> QED
      BY <1>1, <2>1
  <2>4. jobtab[j].used
    <3> HIDE DEF first
    <3> QED
      BY <2>3 DEF Chained, Lists
  <2> HIDE DEF first, j
  <2>5. PICK n \in 1 .. Len(jobtab[j].ps) : jobtab[j].ps[n].pid = p
    BY <2>3
  <2>6. \A i \in 1 .. Len(jobtab[j].ps) : jobtab[j].ps[i].pid = p <=> i = n
    BY <2>3, <2>5 DEF Apart
  <2>7. ps = [i \in 1 .. Len(jobtab[j].ps) |->
                IF i = n THEN [jobtab[j].ps[i] EXCEPT !.status = status] ELSE jobtab[j].ps[i]]
    BY <2>6
  <2> DEFINE next == IF state = "running" THEN jobtab[j].state ELSE state
             changed == jobtab[j].changed \/ state # "running"
  <2>8. changed \in BOOLEAN
    BY <1>1, <2>3 DEF Job
  <2> HIDE DEF ps
  <2>9. jobtab' = [jobtab EXCEPT ![j] =
                     [jobtab[j] EXCEPT !.ps = ps, !.state = next, !.changed = changed]]
    BY <2>2
  <2>10. chain' = chain \/ chain' = set_curjob(chain, jobtab, j, "STOPPED")
    BY <2>2
  <2>11. next = (IF StateOf(ps) = "running" THEN jobtab[j].state ELSE StateOf(ps))
    OBVIOUS
  <2> HIDE DEF next, changed
  <2> QED
    <3>1. Recorded(p, status, j, n, ps, next, changed)
      BY <2>3, <2>4, <2>5, <2>7, <2>8, <2>9, <2>10, <2>11 DEF Recorded
    <3> QED
      BY <2>3, <2>5, <3>1
<1> QED
  BY <1>2, <1>3

\* What a reported child leaves of the kernel's side: it is gone, or told.
LEMMA ReportedKeeps ==
  ASSUME KernelShape, NEW p \in Pid, Reportable(p), UNCHANGED <<stops, lost>>,
         proc' = [proc EXCEPT ![p] = IF @.st = "zombie" THEN NoProcess ELSE [@ EXCEPT !.told = TRUE]],
         NEW status, status = IF proc[p].st = "zombie" THEN proc[p].how ELSE "stopped"
  PROVE  /\ KernelShape' /\ Child(p) /\ status \in Over \cup {"stopped"}
         /\ status \in Over <=> ~ Child(p)'
         /\ \A x \in Pid : x # p => (Child(x)' <=> Child(x))
<1>1. proc \in [Pid -> Proc] /\ proc[p] \in Proc
  BY DEF KernelShape
<1>2. CASE proc[p].st = "zombie"
  <2>1. proc' = [proc EXCEPT ![p] = NoProcess] /\ status = proc[p].how /\ status \in Over
    BY <1>2 DEF KernelShape
  <2>2. NoProcess \in Proc /\ NoProcess.st = "free"
    BY DEF NoProcess, Proc
  <2>3. KernelShape'
    BY <1>1, <2>1, <2>2 DEF KernelShape
  <2>4. Child(p) /\ ~ Child(p)' /\ \A x \in Pid : x # p => (Child(x)' <=> Child(x))
    BY <1>1, <1>2, <2>1, <2>2 DEF Child
  <2> QED
    BY <2>1, <2>3, <2>4
<1>3. CASE proc[p].st # "zombie"
  <2> DEFINE r == [proc[p] EXCEPT !.told = TRUE]
  <2>1. proc' = [proc EXCEPT ![p] = r] /\ status = "stopped" /\ proc[p].st = "stop"
    BY <1>3 DEF Reportable
  <2>2. r \in Proc /\ r.st = "stop"
    BY <1>1, <2>1 DEF Proc
  <2> HIDE DEF r
  <2>3. KernelShape'
    BY <1>1, <2>1, <2>2 DEF KernelShape
  <2>4. Child(p) /\ Child(p)' /\ \A x \in Pid : x # p => (Child(x)' <=> Child(x))
    BY <1>1, <2>1, <2>2 DEF Child
  <2> QED
    BY <2>1, <2>3, <2>4 DEF Over
<1> QED
  BY <1>2, <1>3

\* The job that took a status.
LEMMA RecordKeeps ==
  ASSUME TableShape, Chained, Apart, Statuses, NoLostChild, Forking, ~ At("fork"), sh'.at # "fork",
         NEW p \in Pid, NEW status \in Over \cup {"stopped"}, UNCHANGED lost,
         status \in Over <=> ~ Child(p)', \A x \in Pid : x # p => (Child(x)' <=> Child(x)),
         NEW j \in Slot, NEW n \in 1 .. Len(jobtab[j].ps), NEW ps, NEW state, NEW changed,
         Recorded(p, status, j, n, ps, state, changed)
  PROVE  /\ TableShape' /\ Chained' /\ Apart' /\ Statuses' /\ NoLostChild' /\ Forking'
         /\ \A x \in Slot : jobtab'[x].used = jobtab[x].used
         /\ \A x \in Slot : jobtab[x].state # "running" => jobtab'[x].state # "running"
<1>r. /\ jobtab[j].used /\ jobtab[j].state # "done" /\ jobtab[j].ps[n].pid = p
      /\ changed \in BOOLEAN
      /\ state = (IF StateOf(ps) = "running" THEN jobtab[j].state ELSE StateOf(ps))
      /\ chain' = chain \/ chain' = set_curjob(chain, jobtab, j, "STOPPED")
  BY DEF Recorded
<1>p. ps = [i \in 1 .. Len(jobtab[j].ps) |->
             IF i = n THEN [jobtab[j].ps[i] EXCEPT !.status = status] ELSE jobtab[j].ps[i]]
  BY DEF Recorded
<1>j. jobtab' = [jobtab EXCEPT ![j] =
                  [jobtab[j] EXCEPT !.ps = ps, !.state = state, !.changed = changed]]
  BY DEF Recorded
<1>1. /\ jobtab \in [Slot -> Job] /\ jobtab[j] \in Job
      /\ \A x \in Slot : /\ jobtab[x].ps \in Seq(ProcessEntry) /\ Len(jobtab[x].ps) \in Nat
                         /\ \A i \in 1 .. Len(jobtab[x].ps) :
                              /\ jobtab[x].ps[i] \in ProcessEntry
                              /\ jobtab[x].ps[i].pid \in Pid
                              /\ jobtab[x].ps[i].status \in Status
  BY EntryType DEF TableShape
<1>2. ASSUME NEW i \in 1 .. Len(jobtab[j].ps)
      PROVE  /\ ps[i] \in ProcessEntry /\ ps[i].pid = jobtab[j].ps[i].pid
             /\ i # n => ps[i] = jobtab[j].ps[i]
             /\ i = n => ps[i].status = status
  <2>1. CASE i = n
    <3>1. ps[i] = [jobtab[j].ps[i] EXCEPT !.status = status] /\ jobtab[j].ps[i] \in ProcessEntry
      BY <1>1, <1>p, <2>1
    <3> QED
      BY <2>1, <3>1 DEF ProcessEntry, Status, Over
  <2>2. CASE i # n
    BY <1>1, <1>p, <2>2
  <2> QED
    BY <2>1, <2>2
<1>3. ps \in Seq(ProcessEntry) /\ Len(ps) = Len(jobtab[j].ps)
  <2>1. PICK len \in Nat : len = Len(jobtab[j].ps)
    BY <1>1
  <2>2. ps = [i \in 1 .. len |-> ps[i]] /\ \A i \in 1 .. len : ps[i] \in ProcessEntry
    BY <1>2, <1>p, <2>1
  <2>3. ps \in Seq(ProcessEntry) /\ Len(ps) = len
    BY <2>2, FunctionIsSeq
  <2> QED
    BY <2>1, <2>3
<1>4. PICK t : t = ps
  OBVIOUS
<1>5. /\ t \in Seq(ProcessEntry) /\ Len(t) = Len(jobtab[j].ps)
      /\ \A i \in 1 .. Len(jobtab[j].ps) :
           /\ t[i] \in ProcessEntry /\ t[i].pid = jobtab[j].ps[i].pid
           /\ i # n => t[i] = jobtab[j].ps[i]
           /\ i = n => t[i].status = status
  BY <1>2, <1>3, <1>4
<1>6. /\ state \in {"running", "stopped", "done"}
      /\ state = "done" => \A i \in 1 .. Len(t) : t[i].status # "none" /\ t[i].status # "stopped"
      /\ state # "running" => \A i \in 1 .. Len(t) : t[i].status # "none"
      /\ jobtab[j].state # "running" => state # "running"
  <2>1. jobtab[j].state \in {"running", "stopped"}
    BY <1>1, <1>r DEF Job
  <2>2. /\ StateOf(t) \in {"running", "stopped", "done"}
        /\ StateOf(t) = "running" <=> \E i \in 1 .. Len(t) : t[i].status = "none"
        /\ StateOf(t) = "done" => \A i \in 1 .. Len(t) : /\ t[i].status # "none"
                                                         /\ t[i].status # "stopped"
    BY StateOfMeans
  <2>3. state = (IF StateOf(t) = "running" THEN jobtab[j].state ELSE StateOf(t))
    BY <1>4, <1>r
  <2>4. ASSUME jobtab[j].state # "running", NEW i \in 1 .. Len(t)
        PROVE  t[i].status # "none"
    <3>1. i \in 1 .. Len(jobtab[j].ps) /\ jobtab[j].ps[i].status # "none"
      BY <1>5, <2>4 DEF Statuses
    <3> QED
      BY <1>5, <3>1 DEF Over
  <2> QED
    BY <2>1, <2>2, <2>3, <2>4
<1>7. /\ jobtab'[j] \in Job /\ jobtab'[j].used = jobtab[j].used /\ jobtab'[j].state = state
      /\ jobtab'[j].ps = t
      /\ \A x \in Slot : x # j => jobtab'[x] = jobtab[x]
      /\ jobtab' \in [Slot -> Job]
  <2>1. LET r == [jobtab[j] EXCEPT !.ps = t, !.state = state, !.changed = changed]
        IN  r \in Job /\ r.used = jobtab[j].used /\ r.state = state /\ r.ps = t
    BY <1>1, <1>5, <1>6, <1>r DEF Job
  <2>2. jobtab' = [jobtab EXCEPT ![j] =
                     [jobtab[j] EXCEPT !.ps = t, !.state = state, !.changed = changed]]
    BY <1>4, <1>j
  <2>3. PICK r : r = [jobtab[j] EXCEPT !.ps = t, !.state = state, !.changed = changed]
    OBVIOUS
  <2>4. jobtab' = [jobtab EXCEPT ![j] = r]
    BY <2>2, <2>3
  <2>5. r \in Job /\ r.used = jobtab[j].used /\ r.state = state /\ r.ps = t
    BY <2>1, <2>3
  <2> QED
    BY <1>1, <2>4, <2>5
<1>8. ASSUME NEW x \in Slot
      PROVE  /\ jobtab'[x].used = jobtab[x].used
             /\ Len(jobtab'[x].ps) = Len(jobtab[x].ps)
             /\ \A i \in 1 .. Len(jobtab[x].ps) : jobtab'[x].ps[i].pid = jobtab[x].ps[i].pid
             /\ jobtab[x].state # "running" => jobtab'[x].state # "running"
             /\ jobtab'[x].ps = <<>> <=> jobtab[x].ps = <<>>
  <2>1. CASE x = j
    <3>1. jobtab[j].ps # <<>> /\ t # <<>>
      BY <1>1, <1>5, EmptySeq
    <3> QED
      BY <1>5, <1>6, <1>7, <2>1, <3>1
  <2>2. CASE x # j
    BY <1>7, <2>2
  <2> QED
    BY <2>1, <2>2
<1>9. /\ chain' \in Seq(Slot) /\ Once(chain') /\ \A x : Lists(chain', x) <=> Lists(chain, x)
  <2>1. chain \in Seq(Slot) /\ Once(chain) /\ Lists(chain, j)
    BY <1>r DEF TableShape, Chained
  <2>2. PICK d : d = set_curjob(chain, jobtab, j, "STOPPED")
    OBVIOUS
  <2>3. /\ d \in Seq(Slot) /\ Once(d)
        /\ \A x : Lists(d, x) <=> IF x = j THEN "STOPPED" # "DELETE" ELSE Lists(chain, x)
    BY <2>1, <2>2, SetCurjobLists
  <2>4. chain' \in {chain, d}
    BY <1>r, <2>2
  <2> QED
    BY <2>1, <2>3, <2>4
<1>10. TableShape' /\ Chained'
  <2>1. \A x \in Slot : jobtab'[x].used <=> Lists(chain', x)
    BY <1>8, <1>9 DEF Chained
  <2> QED
    BY <1>7, <1>9, <2>1 DEF TableShape, Chained, Lists, Once
<1>a. \A x, k \in Slot : \A i \in 1 .. Len(jobtab[x].ps), m \in 1 .. Len(jobtab[k].ps) :
        jobtab[x].ps[i].pid = jobtab[k].ps[m].pid => x = k /\ i = m
  BY DEF Apart
<1>11. Apart'
  BY <1>8, ApartKeeps
<1>12. Statuses'
  <2>1. ASSUME NEW x \in Slot, NEW i \in 1 .. Len(jobtab'[x].ps), NEW e, e = jobtab'[x].ps[i]
        PROVE  /\ e.status \in Over <=> ~ Child(e.pid)'
               /\ jobtab'[x].state = "done" => e.status \in Over
               /\ jobtab'[x].state # "running" => e.status # "none"
    <3>1. i \in 1 .. Len(jobtab[x].ps) /\ e.pid = jobtab[x].ps[i].pid /\ e.pid \in Pid
      BY <1>1, <1>8, <2>1
    <3>2. e.pid = p <=> x = j /\ i = n
      BY <1>a, <1>r, <3>1
    <3>3. ASSUME e = jobtab[x].ps[i], e.pid # p
          PROVE  e.status \in Over <=> ~ Child(e.pid)'
      <4>1. e.status \in Over <=> ~ Child(e.pid)
        BY <3>1, <3>3 DEF Statuses
      <4>2. Child(e.pid)' <=> Child(e.pid)
        BY <3>1, <3>3
      <4> QED
        BY <4>1, <4>2
    <3>4. CASE x # j
      <4>1. jobtab'[x] = jobtab[x] /\ e = jobtab[x].ps[i] /\ e.pid # p
        BY <1>7, <2>1, <3>2, <3>4
      <4>2. /\ jobtab[x].state = "done" => e.status \in Over
            /\ jobtab[x].state # "running" => e.status # "none"
        BY <3>1, <4>1 DEF Statuses
      <4> QED
        BY <3>3, <4>1, <4>2
    <3>5. CASE x = j
      <4>1. /\ e = t[i] /\ i \in 1 .. Len(t) /\ jobtab'[x].state = state /\ e.status \in Status
        BY <1>5, <1>7, <2>1, <3>1, <3>5 DEF ProcessEntry
      <4>2. /\ state = "done" => e.status \in Over
            /\ state # "running" => e.status # "none"
        BY <1>6, <4>1 DEF Status
      <4>3. CASE i = n
        <5>1. e.pid = p /\ e.status = status
          BY <1>5, <3>1, <3>2, <3>5, <4>1, <4>3
        <5>2. e.status \in Over <=> ~ Child(e.pid)'
          BY <5>1
        <5> QED
          BY <4>1, <4>2, <5>2
      <4>4. CASE i # n
        <5>1. e = jobtab[x].ps[i] /\ e.pid # p
          BY <1>5, <3>1, <3>2, <3>5, <4>1, <4>4
        <5> QED
          BY <3>3, <4>1, <4>2, <5>1
      <4> QED
        BY <4>3, <4>4
    <3> QED
      BY <3>4, <3>5
  <2> QED
    BY <2>1 DEF Statuses
<1>13. NoLostChild'
  <2>1. ASSUME NEW x \in Pid, Child(x)', x \notin lost'
        PROVE  \E k \in Slot : /\ jobtab'[k].used /\ jobtab'[k].state # "done"
                               /\ \E i \in 1 .. Len(jobtab'[k].ps) : jobtab'[k].ps[i].pid = x
    \* x is named by a job in the table as it was ...
    <3>1. \E k \in Slot : jobtab[k].used /\ \E i \in 1 .. Len(jobtab[k].ps) : jobtab[k].ps[i].pid = x
      <4>1. CASE x = p
        BY <1>r, <4>1
      <4>2. CASE x # p
        <5>1. Child(x) /\ x \notin lost
          BY <2>1, <4>2
        <5> QED
          BY <5>1 DEF NoLostChild
      <4> QED
        BY <4>1, <4>2
    <3>2. PICK k \in Slot : jobtab[k].used /\ \E i \in 1 .. Len(jobtab[k].ps) : jobtab[k].ps[i].pid = x
      BY <3>1
    <3>3. PICK i \in 1 .. Len(jobtab[k].ps) : jobtab[k].ps[i].pid = x
      BY <3>2
    \* ... and still is, with a status that is not final.
    <3>4. i \in 1 .. Len(jobtab'[k].ps) /\ jobtab'[k].ps[i].pid = x /\ jobtab'[k].used
      BY <1>8, <3>2, <3>3
    <3>5. PICK e : e = jobtab'[k].ps[i]
      OBVIOUS
    <3>6. /\ e.status \in Over <=> ~ Child(e.pid)'
          /\ jobtab'[k].state = "done" => e.status \in Over
      BY <1>12, <3>4, <3>5 DEF Statuses
    <3>7. e.pid = x
      BY <3>4, <3>5
    <3>8. jobtab'[k].state # "done"
      BY <2>1, <3>6, <3>7
    <3> QED
      BY <3>4, <3>8
  <2> QED
    BY <2>1 DEF NoLostChild
<1>14. Forking'
  BY <1>8 DEF Forking, At
<1> QED
  BY <1>8, <1>10, <1>11, <1>12, <1>13, <1>14

\* wait3 reports a child, and waitproc records it in its job.
LEMMA Wait3ChildKeeps ==
  ASSUME IInv, NEW p \in Pid, Wait3Child(p)
  PROVE  IInv'
<1>1. PICK status : /\ status = IF proc[p].st = "zombie" THEN proc[p].how ELSE "stopped"
                    /\ Record(p, status)
  BY DEF Wait3Child
<1>2. /\ sh.at = "wait3" /\ Reportable(p) /\ UNCHANGED <<jobctl, tty, gotsigchld, job_warning, stops, lost>>
      /\ proc' = [proc EXCEPT ![p] = IF @.st = "zombie" THEN NoProcess ELSE [@ EXCEPT !.told = TRUE]]
      /\ sh' = [sh EXCEPT !.at = "clear", !.block = BlockAgain(jobtab')]
  BY DEF Wait3Child, At, signals
<1>3. /\ KernelShape' /\ Child(p) /\ status \in Over \cup {"stopped"}
      /\ status \in Over <=> ~ Child(p)'
      /\ \A x \in Pid : x # p => (Child(x)' <=> Child(x))
  BY <1>1, <1>2, ReportedKeeps DEF IInv
<1>4. PICK again : again = BlockAgain(jobtab')
  OBVIOUS
<1>5. again = IF sh.block = "ALL" \/ (sh.job # None /\ jobtab'[sh.job].state # "running")
              THEN "NON" ELSE sh.block
  BY <1>4 DEF BlockAgain
<1>6. /\ sh' \in ShellState /\ sh'.at = "clear" /\ sh'.block = again
      /\ sh'.job = sh.job /\ sh'.cmd = sh.cmd /\ sh'.rpid = sh.rpid
  <2>1. sh \in ShellState /\ again \in {"NON", "BLOCK", "WAITCMD", "ALL"}
    BY <1>5 DEF IInv, ShellShape, ShellState
  <2>2. sh' = [sh EXCEPT !.at = "clear", !.block = again]
    BY <1>2, <1>4
  <2> QED
    BY <2>1, <2>2 DEF ShellState, AtWait
<1>7. /\ TableShape' /\ Chained' /\ Apart' /\ Statuses' /\ NoLostChild' /\ Forking'
      /\ \A x \in Slot : jobtab'[x].used = jobtab[x].used
      /\ \A x \in Slot : jobtab[x].state # "running" => jobtab'[x].state # "running"
  <2>a. ~ At("fork") /\ sh'.at # "fork" /\ UNCHANGED lost
    BY <1>2, <1>6 DEF At
  <2>1. CASE /\ jobtab' = jobtab /\ chain' = chain
             /\ \A x \in Slot : \A i \in 1 .. Len(jobtab[x].ps) : jobtab[x].ps[i].pid # p
    <3>1. Statuses'
      <4>1. \A x \in Slot : \A i \in 1 .. Len(jobtab[x].ps) :
              Child(jobtab[x].ps[i].pid)' <=> Child(jobtab[x].ps[i].pid)
        <5>1. ASSUME NEW x \in Slot, NEW i \in 1 .. Len(jobtab[x].ps), NEW q, q = jobtab[x].ps[i].pid
              PROVE  Child(q)' <=> Child(q)
          <6>1. q \in Pid /\ q # p
            BY <2>1, <5>1, EntryType DEF IInv
          <6> QED
            BY <1>3, <6>1
        <5> QED
          BY <5>1, <2>1 DEF Child
      <4> QED
        BY <2>1, <4>1 DEF IInv, Statuses, Child
    <3>2. NoLostChild'
      <4>1. ASSUME NEW x \in Pid, Child(x)', x \notin lost'
            PROVE  \E j \in Slot : /\ jobtab[j].used /\ jobtab[j].state # "done"
                                   /\ \E i \in 1 .. Len(jobtab[j].ps) : jobtab[j].ps[i].pid = x
        <5>1. Child(x) /\ x \notin lost
          BY <1>3, <2>a, <4>1
        <5> QED
          BY <5>1 DEF IInv, NoLostChild
      <4> QED
        BY <2>1, <4>1 DEF NoLostChild
    <3> QED
      BY <2>1, <2>a, <3>1, <3>2 DEF IInv, TableShape, Chained, Apart, Forking, At
  <2>2. CASE \E j \in Slot : \E n \in 1 .. Len(jobtab[j].ps) : \E ps, state, changed :
               Recorded(p, status, j, n, ps, state, changed)
    <3>1. TableShape /\ Chained /\ Apart /\ Statuses /\ NoLostChild /\ Forking
      BY DEF IInv
    <3> QED
      BY <1>3, <2>a, <2>2, <3>1, RecordKeeps
  <2>3. TableShape /\ Chained /\ Apart /\ Statuses
    BY DEF IInv
  <2> QED
    BY <1>1, <1>3, <2>1, <2>2, <2>3, RecordSets
<1>8. ShellShape'
  BY <1>2, <1>6 DEF IInv, ShellShape
<1>9. Waiting'
  <2>1. sh.at \in AtWait
    BY <1>2 DEF AtWait
  <2>2. ASSUME sh.cmd \in {"fg", "wait"}
        PROVE  /\ sh.job \in Slot /\ jobtab[sh.job].used /\ sh.block # "ALL"
               /\ again = "NON" /\ sh.rpid => jobtab'[sh.job].state # "running"
               /\ sh.cmd = "wait" => again \in {"NON", "WAITCMD"}
               /\ sh.cmd = "fg" => sh.rpid /\ again \in {"NON", "BLOCK"}
    BY <1>5, <1>7, <2>1, <2>2 DEF IInv, Waiting
  <2> QED
    BY <1>6, <1>7, <2>2 DEF Waiting
<1>10. StatusIsKnown' /\ Alert'
  BY <1>6 DEF StatusIsKnown, Alert, At
<1> QED
  BY <1>3, <1>7, <1>8, <1>9, <1>10 DEF IInv

-----------------------------------------------------------------------------
(* The theorems.                                                           *)

\* The invariant holds when the shell begins.
LEMMA InitIInv == Init => IInv
<1> SUFFICES ASSUME Init
             PROVE  IInv
  OBVIOUS
<1>1. TableShape
  BY FreeSlotType DEF Init, TableShape
<1>2. sh = [at |-> "prompt", job |-> None, block |-> "NON", rpid |-> TRUE, cmd |-> "none",
            mode |-> "FG", left |-> 0]
  BY DEF Init, Idle
<1>3. ShellShape
  <2>1. sh \in ShellState
    BY <1>2 DEF ShellState, Mode
  <2>2. jobctl \in BOOLEAN /\ gotsigchld \in BOOLEAN
    BY DEF Init, DashJobsAssumption
  <2>3. tty \in Pid \cup {Shell} /\ job_warning \in 0 .. 2
    BY DEF Init
  <2> QED
    BY <2>1, <2>2, <2>3 DEF ShellShape
<1>4. NoProcess \in Proc /\ NoProcess.st = "free"
  BY DEF NoProcess, Proc
<1>5. KernelShape
  BY <1>4 DEF Init, KernelShape
<1>6. \A j \in Slot : jobtab[j].used = FALSE /\ jobtab[j].ps = <<>>
  BY DEF Init, FreeSlot
<1>7. Chained
  BY <1>6 DEF Init, Chained, Lists, Once
<1>8. Apart /\ Statuses
  BY <1>6 DEF Apart, Statuses
<1>9. Forking /\ Waiting /\ StatusIsKnown /\ Alert
  BY <1>2, <1>6 DEF Forking, Waiting, StatusIsKnown, Alert, At, AtWait
<1>10. NoLostChild
  BY <1>4 DEF Init, NoLostChild, Child
<1> QED
  BY <1>1, <1>3, <1>5, <1>7, <1>8, <1>9, <1>10 DEF IInv

\* Every step keeps the invariant.
LEMMA NextIInv == IInv /\ [Next]_vars => IInv'
<1> SUFFICES ASSUME IInv, [Next]_vars
             PROVE  IInv'
  OBVIOUS
<1>1. CASE UNCHANGED vars
  <2>1. UNCHANGED <<jobtab, chain, proc, stops, lost>> /\ UNCHANGED <<sh, gotsigchld>>
    BY <1>1 DEF vars
  <2>2. TableShape' /\ KernelShape' /\ Chained' /\ Apart' /\ Statuses' /\ NoLostChild'
    BY <2>1, TableKeeps DEF IInv
  <2> QED
    BY <1>1, <2>2 DEF vars, IInv, ShellShape, Forking, Waiting, StatusIsKnown, Alert,
       Reportable, At
<1>2. CASE ShellStep
  BY <1>2, ClearGotsigchldKeeps, Wait3ChildKeeps, Wait3NoneKeeps, sigblockallKeeps, WakeKeeps,
     FgBackKeeps, ShowBackKeeps, WaitBackKeeps, WaitAllBackKeeps, PromptKeeps, ForkedKeeps
     DEF ShellStep
<1>3. CASE ReadLine \/ Leave \/ EndLine \/ ForkFails \/ onsig
  BY <1>3, ReadLineKeeps, LeaveKeeps, EndLineKeeps, ForkFailsKeeps, onsigKeeps
<1>4. CASE Command
  BY <1>4, makejobKeeps, jobscmdKeeps, waitcmdKeeps, setjobctlKeeps, fgcmdKeeps, bgcmdKeeps
     DEF Command
<1>5. ASSUME NEW p \in Pid,
             \/ forkparent(p) \/ forkchild(p) \/ Stop(p) \/ Resume(p)
             \/ \E how \in Over : Die(p, how)
      PROVE  IInv'
  BY <1>5, forkparentKeeps, forkchildKeeps, StopKeeps, ResumeKeeps, DieKeeps
<1> QED
  BY <1>1, <1>2, <1>3, <1>4, <1>5 DEF Next

\* The invariant holds in every state of the shell.
THEOREM InvariantTheorem == Spec => []IInv
BY InitIInv, NextIInv, PTL DEF Spec

\* Every variable has its type; the list holds the used slots, each once.
THEOREM TypeTheorem == Spec => []TypeOK
<1>1. IInv => TypeOK
  <2> SUFFICES ASSUME IInv
               PROVE  TypeOK
    OBVIOUS
  <2>1. \A j \in Slot : /\ jobtab[j].state \in {"running", "stopped", "done"}
                        /\ \A i \in 1 .. Len(jobtab[j].ps) :
                             jobtab[j].ps[i].pid \in Pid /\ jobtab[j].ps[i].status \in Status
    BY EntryType DEF IInv, Job
  <2>2. \A p \in Pid : proc[p].st \in {"free", "new", "run", "stop", "zombie"}
    BY DEF IInv, KernelShape, Proc
  <2> QED
    BY <2>1, <2>2 DEF TypeOK, IInv, ShellShape, Chained, Lists, Once
<1> QED
  BY <1>1, InvariantTheorem, PTL

\* waitone, forkparent, makejob and showjobs never give a status to the wrong
\* process, and getstatus never decodes the -1 of a running one.
THEOREM StatusTheorem == Spec => []StatusIsTrue
<1>1. IInv => StatusIsTrue
  BY DEF IInv, StatusIsTrue, Statuses
<1> QED
  BY <1>1, InvariantTheorem, PTL

\* No child is left that jobs, fg and wait cannot reach, but for those a failing
\* fork gives up.
THEOREM LostTheorem == Spec => []NoLostChild
<1>1. IInv => NoLostChild
  BY DEF IInv
<1> QED
  BY <1>1, InvariantTheorem, PTL

\* sigblockall and sigsuspend in waitproc miss no SIGCHLD.
THEOREM WakeTheorem == Spec => []NoMissedWake
<1>1. IInv => NoMissedWake
  BY DEF IInv, Alert, NoMissedWake, At
<1> QED
  BY <1>1, InvariantTheorem, PTL

=============================================================================
