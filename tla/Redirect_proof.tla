--------------------------- MODULE Redirect_proof ---------------------------
(***************************************************************************)
(* Proofs about Redirect, for any descriptor tables, any lists of          *)
(* redirections and any limit on descriptors: the types; that the shell    *)
(* keeps every open descriptor that is not redirected; and, whenever a     *)
(* command is orderly, that the copies stay what they are copies of, that  *)
(* the command sees what it asked for and that the shell gets all its      *)
(* descriptors back, whatever the commands before it were.                 *)
(***************************************************************************)
EXTENDS Redirect, SequenceTheorems, FiniteSetTheorems, WellFoundedInduction, TLAPS

USE RedirectAssumption

-----------------------------------------------------------------------------
(* The inductive invariants.                                               *)

IsTable(t) == t = [f \in Fd |-> t[f]]

Types == TypeOK /\ IsTable(fd) /\ IsTable(shellFd)

Busy == pc \in {"apply", "body", "restore"}

\* Of any list: an open descriptor that it does not name is as it was in the shell,
\* has not been saved and holds no copy.
Bystander(g) == g \in Fd /\ shellFd[g] # Closed /\ g \notin Targets(list)
Spared ==
  Busy => \A g \in Fd : Bystander(g) =>
    fd[g] = shellFd[g] /\ saved[g] = None /\ \A f \in Fd : saved[f] # g

\* Of an orderly list, with the descriptors t and the copies s: a copy is in a place
\* of its own that was free before the command, and holds what the shell's descriptor
\* holds, which is open; what was not saved and holds no copy is as it was.
Copies(t, s) ==
  \A f \in Fd : s[f] # None =>
    /\ shellFd[s[f]] = Closed /\ shellFd[f] # Closed
    /\ t[s[f]] = shellFd[f]
    /\ \A g \in Fd : s[g] = s[f] => g = f
Others(t, s) ==
  \A g \in Fd : s[g] = None /\ (\A f \in Fd : s[f] # g) => t[g] = shellFd[g]
Kept(t, s) == Copies(t, s) /\ Others(t, s)

\* The places of the copies; they are the lowest that were free, no more than there
\* were redirections.
Places(s) == {s[f] : f \in Fd} \ {None}
LowestOnes(P, t, n) ==
  /\ P \subseteq Free(t)
  /\ \A p \in P, g \in Free(t) : g < p => g \in P
  /\ IsFiniteSet(P) /\ Cardinality(P) <= n

\* What was saved belongs to a redirection that has been applied, and is open unless
\* that was the last one.
Applying ==
  /\ LowestOnes(Places(saved), shellFd, next - 1)
  /\ \A f \in Fd : saved[f] # None =>
       /\ \E j \in 1 .. next - 1 : list[j].fd = f
       /\ next <= Len(list) => fd[f] # Closed

Tidy ==
  Orderly(list, shellFd) =>
    /\ Busy => Kept(fd, saved)
    /\ pc = "apply" => Applying

IInv == Types /\ Spared /\ Tidy

-----------------------------------------------------------------------------
(* dup.                                                                    *)

\* A set of numbers has a least one.
LEMMA LeastNumber ==
  ASSUME NEW S, S \subseteq Nat, S # {}
  PROVE  \E x \in S : \A y \in S : x <= y
<1> DEFINE R == {ss \in Nat \X Nat : ss[1] < ss[2]}
<1>1. IsWellFoundedOn(R, Nat)
  BY NatLessThanWellFounded DEF OpToRel
<1>2. PICK x \in S : \A y \in S : ~ (<<y, x>> \in R)
  <2> HIDE DEF R
  <2> QED
    BY <1>1, WFMin
<1>3. ASSUME NEW y \in S
      PROVE  x <= y
  <2>1. <<y, x>> \in Nat \X Nat /\ <<y, x>>[1] = y /\ <<y, x>>[2] = x
    OBVIOUS
  <2>2. ~ (y < x)
    BY <1>2, <2>1
  <2> QED
    BY <2>2
<1> QED
  BY <1>3

\* There is a lowest free descriptor when there is a free one.
LEMMA LowestIsFree ==
  ASSUME NEW S, S \subseteq Nat, S # {}
  PROVE  Lowest(S) \in S /\ \A g \in S : Lowest(S) <= g
<1>1. \E x \in S : \A y \in S : x <= y
  BY LeastNumber
<1> QED
  BY <1>1 DEF Lowest

\* dup returns the lowest descriptor that was free, or fails.
LEMMA DupIsFree ==
  ASSUME NEW t, NEW f, Dup(t, f) # Failed
  PROVE  /\ Dup(t, f) \in Fd /\ t[Dup(t, f)] = Closed
         /\ f \in Fd /\ t[f] # Closed
         /\ \A g \in Free(t) : Dup(t, f) <= g
<1>1. f \in Fd /\ t[f] # Closed /\ Free(t) # {} /\ Dup(t, f) = Lowest(Free(t))
  BY DEF Dup
<1>2. Free(t) \subseteq Nat
  BY DEF Free, Fd
<1>3. Lowest(Free(t)) \in Free(t) /\ \A g \in Free(t) : Lowest(Free(t)) <= g
  BY ONLY <1>1, <1>2, LowestIsFree
<1> QED
  BY <1>1, <1>3 DEF Free

-----------------------------------------------------------------------------
(* The types.                                                              *)

USE DEF Fd, None, Failed, Op

\* The list is a sequence.
LEMMA ListType ==
  ASSUME Types
  PROVE  Len(list) \in Nat /\ DOMAIN list = 1 .. Len(list)
<1>1. CASE list = <<>>
  BY <1>1
<1>2. CASE list \in Request
  <2>1. Len(list) \in Nat /\ list = [i \in 1 .. Len(list) |-> list[i]]
    BY <1>2 DEF RedirectAssumption
  <2> QED
    BY <2>1
<1> QED
  BY <1>1, <1>2 DEF Types, TypeOK

\* The next redirection is one of a command's.
LEMMA CurrentType ==
  ASSUME Types, next <= Len(list)
  PROVE  /\ next \in 1 .. Len(list) /\ list \in Request
         /\ Current.fd \in Nat /\ Current.op \in Op
         /\ Current.op = "open" => Current.arg # Closed
<1>1. list # <<>>
  BY DEF Types, TypeOK
<1>2. list \in Request /\ Len(list) \in Nat
  BY <1>1 DEF Types, TypeOK, RedirectAssumption
<1>3. next \in 1 .. Len(list)
  BY <1>2 DEF Types, TypeOK
<1> QED
  BY <1>2, <1>3 DEF Current, RedirectAssumption

\* What dup leaves is a table, and a number to remember.
LEMMA SavedType ==
  ASSUME Types, ~ CannotSave
  PROVE  /\ IsTable(SavedFd) /\ DOMAIN SavedFd = Fd
         /\ SavedNumber \in [Fd -> Fd \cup {None}]
<1>1. Copy \in Fd /\ Current.fd \in Fd
  BY DupIsFree DEF CannotSave, Copy
<1>2. IsTable(SavedFd) /\ DOMAIN SavedFd = Fd
  BY <1>1 DEF Types, TypeOK, IsTable, SavedFd
<1>3. SavedNumber \in [Fd -> Fd \cup {None}]
  BY <1>1 DEF Types, TypeOK, SavedNumber
<1> QED
  BY <1>2, <1>3

\* Each redirection leaves a table.
LEMMA ApplyOneType ==
  ASSUME Types, ApplyOne
  PROVE  Types'
<1>1. next <= Len(list) /\ ~ CannotSave
  BY DEF ApplyOne
<1>2. /\ IsTable(SavedFd) /\ DOMAIN SavedFd = Fd
      /\ SavedNumber \in [Fd -> Fd \cup {None}]
  BY <1>1, SavedType
<1>3. /\ next \in 1 .. Len(list) /\ list \in Request
      /\ Current.fd \in Nat /\ Current.op \in Op
  BY <1>1, CurrentType
<1>4. saved' = SavedNumber /\ role' = role
  BY DEF ApplyOne, GiveUp, Escape
<1>5. IsTable(fd') /\ DOMAIN fd' = Fd
  BY <1>2, <1>3 DEF ApplyOne, GiveUp, Escape, IsTable, Dup2, Close
<1>6. IsTable(shellFd') /\ DOMAIN shellFd' = Fd
  BY <1>5 DEF ApplyOne, GiveUp, Escape, Types, TypeOK, IsTable
<1>7. list' \in Request \cup {<<>>} /\ next' \in 1 .. Len(list') + 1
  BY <1>3 DEF ApplyOne, GiveUp, Escape, Types, TypeOK, RedirectAssumption
<1>8. pc' \in {"idle", "apply", "body", "restore", "runaway"} /\ ok' \in BOOLEAN
  BY DEF ApplyOne, GiveUp, Escape, Types, TypeOK
<1> QED
  BY <1>2, <1>4, <1>5, <1>6, <1>7, <1>8 DEF Types, TypeOK

\* Every step keeps the types.
LEMMA NextType ==
  ASSUME Types, [Next]_vars
  PROVE  Types'
<1>1. ASSUME NEW who \in {"builtin", "external"}, NEW request \in Request, Begin(who, request)
      PROVE  Types'
  <2>1. Len(request) \in Nat
    BY DEF RedirectAssumption
  <2> QED
    BY <1>1, <2>1 DEF Begin, Types, TypeOK, IsTable, Nothing
<1>2. CASE SaveFails
  BY <1>2 DEF SaveFails, GiveUp, Types, TypeOK, IsTable
<1>3. CASE ApplyOne
  BY <1>3, ApplyOneType
<1>4. CASE Applied \/ BuiltinReturns
  BY <1>4 DEF Applied, BuiltinReturns, Types, TypeOK, IsTable
<1>5. CASE BuiltinThrows
  BY <1>5 DEF BuiltinThrows, Escape, Types, TypeOK, IsTable
<1>6. CASE Exec
  BY <1>6 DEF Exec, Types, TypeOK, IsTable
<1>7. ASSUME NEW f \in Fd, RestoreOne(f)
      PROVE  Types'
  BY <1>7 DEF RestoreOne, Dup2, Close, Types, TypeOK, IsTable
<1>8. CASE Restored
  <2>1. shellFd' = fd \/ shellFd' = shellFd
    BY <1>8 DEF Restored
  <2>2. IsTable(shellFd') /\ DOMAIN shellFd' = Fd
    BY <2>1 DEF Types, TypeOK, IsTable
  <2>3. list' = <<>> /\ next' = 1 /\ pc' = "idle" /\ UNCHANGED <<fd, saved, role, ok>>
    BY <1>8 DEF Restored
  <2> QED
    BY <2>2, <2>3 DEF Types, TypeOK, IsTable
<1>9. CASE Runaway \/ UNCHANGED vars
  BY <1>9 DEF Runaway, vars, Types, TypeOK, IsTable
<1> QED
  BY <1>1, <1>2, <1>3, <1>4, <1>5, <1>6, <1>7, <1>8, <1>9 DEF Next

-----------------------------------------------------------------------------
(* What no redirection names.                                              *)

\* A redirection touches the descriptor it names, and the place of its copy.
LEMMA ApplyOneTouches ==
  ASSUME ApplyOne
  PROVE  /\ pc = "apply" /\ next <= Len(list) /\ ~ CannotSave /\ saved' = SavedNumber
         /\ fd' = SavedFd \/ \E v : fd' = [SavedFd EXCEPT ![Current.fd] = v]
<1>1. pc = "apply" /\ next <= Len(list) /\ ~ CannotSave /\ saved' = SavedNumber
  BY DEF ApplyOne, GiveUp, Escape
<1>2. \/ fd' = SavedFd
      \/ fd' = [SavedFd EXCEPT ![Current.fd] = Current.arg]
      \/ fd' = Dup2(SavedFd, Current.arg, Current.fd)
      \/ fd' = Close(SavedFd, Current.fd)
  BY DEF ApplyOne, GiveUp
<1> QED
  BY <1>1, <1>2 DEF Dup2, Close

\* The copy of another descriptor is not put into one that is open.
LEMMA SavedSpares ==
  ASSUME Types, Spared, pc = "apply", next <= Len(list), ~ CannotSave,
         NEW g, Bystander(g)
  PROVE  /\ SavedFd[g] = shellFd[g] /\ SavedNumber[g] = None
         /\ g # Current.fd /\ \A f \in Fd : SavedNumber[f] # g
<1>1. g \in Fd /\ shellFd[g] # Closed /\ g # Current.fd
  <2>1. next \in 1 .. Len(list)
    BY CurrentType
  <2> QED
    BY <2>1 DEF Bystander, Targets, Current
<1>2. fd[g] = shellFd[g] /\ saved[g] = None /\ \A f \in Fd : saved[f] # g
  BY <1>1 DEF Spared, Busy
<1>3. Copy \in Fd /\ fd[Copy] = Closed /\ Current.fd \in Fd
  BY DupIsFree DEF CannotSave, Copy
<1>4. DOMAIN fd = Fd /\ saved \in [Fd -> Fd \cup {None}]
  BY DEF Types, TypeOK
<1> QED
  BY <1>1, <1>2, <1>3, <1>4 DEF SavedFd, SavedNumber

\* Nor is it redirected.
LEMMA ApplyOneSpares ==
  ASSUME Types, Spared, ApplyOne, NEW g, Bystander(g)
  PROVE  /\ fd'[g] = shellFd[g] /\ saved'[g] = None
         /\ \A f \in Fd : saved'[f] # g
<1>1. /\ pc = "apply" /\ next <= Len(list) /\ ~ CannotSave /\ saved' = SavedNumber
      /\ fd' = SavedFd \/ \E v : fd' = [SavedFd EXCEPT ![Current.fd] = v]
  BY ApplyOneTouches
<1>2. /\ SavedFd[g] = shellFd[g] /\ SavedNumber[g] = None
      /\ g # Current.fd /\ \A f \in Fd : SavedNumber[f] # g
  BY <1>1, SavedSpares
<1>3. g \in Fd /\ DOMAIN SavedFd = Fd
  BY <1>1, SavedType DEF Bystander
<1>4. fd'[g] = SavedFd[g]
  BY ONLY <1>1, <1>2, <1>3
<1> QED
  BY <1>1, <1>2, <1>4

\* A command keeps the descriptors its redirections do not name.
LEMMA NextSpares ==
  ASSUME Types, Spared, [Next]_vars
  PROVE  Spared'
<1>1. ASSUME NEW who \in {"builtin", "external"}, NEW request \in Request, Begin(who, request)
      PROVE  Spared'
  BY <1>1 DEF Begin, Spared, Bystander, Nothing
<1>2. CASE ApplyOne
  <2>1. CASE UNCHANGED <<shellFd, list>>
    <3>1. \A g \in Fd : Bystander(g) =>
            /\ fd'[g] = shellFd[g] /\ saved'[g] = None
            /\ \A f \in Fd : saved'[f] # g
      BY <1>2, ApplyOneSpares
    <3> QED
      BY <2>1, <3>1 DEF Spared, Bystander
  <2>2. CASE ~ UNCHANGED <<shellFd, list>>
    BY <1>2, <2>2 DEF ApplyOne, GiveUp, Escape, Spared, Busy
  <2> QED
    BY <2>1, <2>2
<1>3. ASSUME NEW f \in Fd, RestoreOne(f)
      PROVE  Spared'
  <2>1. saved[f] # None /\ DOMAIN fd = Fd /\ DOMAIN saved = Fd /\ pc = "restore"
    BY <1>3 DEF RestoreOne, Types, TypeOK
  <2>2. \A g \in Fd : Bystander(g) => g # f /\ g # saved[f]
    BY <2>1 DEF Spared, Busy
  <2>3. ASSUME NEW g \in Fd, Bystander(g)
        PROVE  fd'[g] = shellFd[g] /\ saved'[g] = None /\ \A h \in Fd : saved'[h] # g
    <3>1. fd[g] = shellFd[g] /\ saved[g] = None /\ \A h \in Fd : saved[h] # g
      BY <2>1, <2>3 DEF Spared, Busy
    <3>2. fd'[g] = fd[g]
      BY <1>3, <2>1, <2>2, <2>3 DEF RestoreOne, Dup2, Close
    <3>3. \A h \in Fd : saved'[h] = saved[h] \/ saved'[h] = None
      BY <1>3, <2>1 DEF RestoreOne
    <3> QED
      BY <3>1, <3>2, <3>3, <2>3
  <2>4. UNCHANGED <<shellFd, list>>
    BY <1>3 DEF RestoreOne
  <2> QED
    BY <2>3, <2>4 DEF Spared, Bystander
<1>4. CASE SaveFails \/ Applied \/ BuiltinReturns
  BY <1>4 DEF SaveFails, GiveUp, Applied, BuiltinReturns, Spared, Bystander, Busy
<1>5. CASE BuiltinThrows \/ Exec \/ Restored
  BY <1>5 DEF BuiltinThrows, Escape, Exec, Restored, Spared, Busy
<1>6. CASE Runaway \/ UNCHANGED vars
  BY <1>6 DEF Runaway, vars, Spared, Bystander, Busy
<1> QED
  BY <1>1, <1>2, <1>3, <1>4, <1>5, <1>6 DEF Next

-----------------------------------------------------------------------------
(* The copies of an orderly list.                                          *)

\* One of the lowest descriptors that are free is not untaken.
LEMMA TakenIsLow ==
  ASSUME NEW t, NEW P, NEW n \in Nat, LowestOnes(P, t, n), NEW f \in P
  PROVE  ~ Untaken(t, f, n)
<1> DEFINE S == {g \in Free(t) : g < f}
<1>1. f \in Fd /\ t[f] = Closed
  BY DEF LowestOnes, Free
<1>2. S \subseteq P \ {f}
  <2>1. \A g \in Free(t) : g \in Nat
    BY DEF Free
  <2> QED
    BY <1>1, <2>1 DEF LowestOnes
<1>3. IsFiniteSet(P \ {f}) /\ Cardinality(P \ {f}) = Cardinality(P) - 1
  BY FS_RemoveElement DEF LowestOnes
<1>4. Cardinality(S) <= Cardinality(P \ {f}) /\ IsFiniteSet(S)
  BY <1>2, <1>3, FS_Subset
<1>5. Cardinality(S) \in Nat /\ Cardinality(P) \in Nat /\ Cardinality(P) <= n
  BY <1>4, FS_CardinalityType DEF LowestOnes
<1> HIDE DEF S
<1>6. ~ (n <= Cardinality(S))
  BY <1>3, <1>4, <1>5
<1> QED
  BY <1>1, <1>6 DEF Untaken, S

\* The lowest free descriptors and the next one are the lowest, one more.
LEMMA TakeLowest ==
  ASSUME NEW t, NEW P, NEW n \in Nat, LowestOnes(P, t, n),
         NEW c \in Free(t), c \notin P, \A g \in Free(t) : g < c => g \in P
  PROVE  LowestOnes(P \cup {c}, t, n + 1)
<1>1. IsFiniteSet(P \cup {c}) /\ Cardinality(P \cup {c}) = Cardinality(P) + 1
  BY FS_AddElement DEF LowestOnes
<1>2. Cardinality(P) \in Nat /\ Cardinality(P) <= n
  BY FS_CardinalityType DEF LowestOnes
<1>3. Cardinality(P \cup {c}) <= n + 1
  BY <1>1, <1>2
<1>4. P \cup {c} \subseteq Free(t)
  BY DEF LowestOnes
<1>5. \A p \in P \cup {c}, g \in Free(t) : g < p => g \in P \cup {c}
  BY DEF LowestOnes
<1> QED
  BY <1>1, <1>3, <1>4, <1>5 DEF LowestOnes

\* What an orderly redirection saves, and where.
LEMMA SaveFinds ==
  ASSUME Types, Orderly(list, shellFd), Kept(fd, saved), Applying,
         next <= Len(list), ~ CannotSave
  PROVE  /\ Current.fd \in Fd /\ saved[Current.fd] = None
         /\ Current.fd \notin Places(saved)
         /\ fd[Current.fd] = shellFd[Current.fd] /\ shellFd[Current.fd] # Closed
         /\ Copy \in Fd /\ fd[Copy] = Closed /\ shellFd[Copy] = Closed
         /\ saved[Copy] = None /\ Copy \notin Places(saved)
         /\ LowestOnes(Places(saved) \cup {Copy}, shellFd, next)
<1> DEFINE f == Current.fd
           c == Copy
<1>1. next \in 1 .. Len(list) /\ f = list[next].fd /\ Len(list) \in Nat
  BY CurrentType, ListType DEF Current
<1>2. /\ f \in Fd /\ fd[f] # Closed
      /\ c \in Fd /\ fd[c] = Closed /\ \A g \in Free(fd) : c <= g
  BY DupIsFree DEF CannotSave, Copy
<1>3. saved \in [Fd -> Fd \cup {None}] /\ DOMAIN fd = Fd /\ DOMAIN shellFd = Fd
  BY DEF Types, TypeOK
<1> HIDE DEF f, c
<1>4. saved[f] = None
  <2>1. SUFFICES ASSUME NEW j \in 1 .. next - 1, list[j].fd = f
                 PROVE  FALSE
    BY <1>2, <1>3 DEF Applying
  <2>2. j \in 1 .. Len(list) /\ j # next
    BY <1>1, <2>1
  <2> QED
    BY <1>1, <2>1, <2>2 DEF Orderly
<1>5. f \notin Places(saved)
  <2>1. SUFFICES ASSUME f \in Places(saved)
                 PROVE  FALSE
    OBVIOUS
  <2>2. next - 1 \in Nat
    BY <1>1
  <2>3. ~ Untaken(shellFd, f, next - 1)
    BY <2>1, <2>2, TakenIsLow DEF Applying
  <2> QED
    BY <1>1, <2>3 DEF Orderly
<1>6. fd[f] = shellFd[f]
  BY <1>2, <1>3, <1>4, <1>5 DEF Kept, Others, Places
<1>7. \A p \in Places(saved) : fd[p] # Closed
  BY DEF Places, Kept, Copies
<1>8. c \notin Places(saved)
  BY <1>2, <1>7
<1>9. saved[c] = None
  BY <1>2, <1>3 DEF Applying
<1>10. \A g \in Fd : g \notin Places(saved) /\ saved[g] = None => fd[g] = shellFd[g]
  BY <1>3 DEF Kept, Others, Places
<1>11. c \in Free(shellFd)
  BY <1>2, <1>8, <1>9, <1>10 DEF Free
<1>12. ASSUME NEW g \in Free(shellFd), g < c
       PROVE  g \in Places(saved)
  <2>1. g \in Fd /\ shellFd[g] = Closed
    BY DEF Free
  <2>2. fd[g] # Closed
    BY <1>2, <1>12, <2>1 DEF Free
  <2>3. saved[g] = None
    BY <2>1 DEF Kept, Copies
  <2> QED
    BY <1>10, <2>1, <2>2, <2>3
<1>13. LowestOnes(Places(saved) \cup {c}, shellFd, next)
  <2>1. next - 1 \in Nat /\ next - 1 + 1 = next
    BY <1>1
  <2>2. LowestOnes(Places(saved), shellFd, next - 1)
    BY DEF Applying
  <2>3. LowestOnes(Places(saved) \cup {c}, shellFd, next - 1 + 1)
    BY <1>8, <1>11, <1>12, <2>1, <2>2, TakeLowest
  <2> QED
    BY <2>1, <2>3
<1> QED
  BY <1>2, <1>4, <1>5, <1>6, <1>8, <1>9, <1>11, <1>13 DEF f, c, Free

\* The copy keeps the others, and lands in the lowest place.
LEMMA SaveKeeps ==
  ASSUME Types, Orderly(list, shellFd), Kept(fd, saved), Applying,
         next <= Len(list), ~ CannotSave
  PROVE  /\ Kept(SavedFd, SavedNumber)
         /\ LowestOnes(Places(SavedNumber), shellFd, next)
         /\ Current.fd \in Fd /\ Current.fd \notin Places(SavedNumber)
         /\ \A g \in Fd : SavedNumber[g] # None =>
              (saved[g] # None \/ g = Current.fd) /\ SavedFd[g] # Closed
         /\ SavedNumber[Current.fd] # None
<1> DEFINE f == Current.fd
           c == Copy
<1>1. /\ f \in Fd /\ saved[f] = None /\ f \notin Places(saved)
      /\ fd[f] = shellFd[f] /\ shellFd[f] # Closed
      /\ c \in Fd /\ fd[c] = Closed /\ shellFd[c] = Closed
      /\ saved[c] = None /\ c \notin Places(saved)
      /\ LowestOnes(Places(saved) \cup {c}, shellFd, next)
  BY SaveFinds
<1>2. saved \in [Fd -> Fd \cup {None}] /\ DOMAIN fd = Fd
  BY DEF Types, TypeOK
<1>3. SavedFd = [fd EXCEPT ![c] = fd[f]] /\ SavedNumber = [saved EXCEPT ![f] = c]
  BY DEF SavedFd, SavedNumber
<1> HIDE DEF f, c
<1>4. /\ \A g \in Fd : SavedFd[g] = IF g = c THEN fd[f] ELSE fd[g]
      /\ \A g \in Fd : SavedNumber[g] = IF g = f THEN c ELSE saved[g]
  BY <1>2, <1>3
<1>5. c # None /\ c # f /\ \A g \in Fd : saved[g] # c /\ saved[g] # f
  <2>1. c # None /\ f # None /\ c # f
    BY <1>1
  <2> QED
    BY <2>1, <1>1 DEF Places
<1>6. Copies(SavedFd, SavedNumber)
  <2>1. ASSUME NEW h \in Fd, SavedNumber[h] # None
        PROVE  /\ shellFd[SavedNumber[h]] = Closed /\ shellFd[h] # Closed
               /\ SavedFd[SavedNumber[h]] = shellFd[h]
               /\ \A g \in Fd : SavedNumber[g] = SavedNumber[h] => g = h
    <3>1. CASE h = f
      BY <3>1, <1>1, <1>4, <1>5
    <3>2. CASE h # f
      <4>1. SavedNumber[h] = saved[h] /\ saved[h] # None /\ saved[h] \in Fd
        BY <3>2, <2>1, <1>2, <1>4
      <4>2. /\ shellFd[saved[h]] = Closed /\ shellFd[h] # Closed
            /\ fd[saved[h]] = shellFd[h]
            /\ \A g \in Fd : saved[g] = saved[h] => g = h
        BY <4>1 DEF Kept, Copies
      <4> QED
        BY <4>1, <4>2, <1>4, <1>5
    <3> QED
      BY <3>1, <3>2
  <2> QED
    BY <2>1 DEF Copies
<1>7. Others(SavedFd, SavedNumber)
  <2>1. ASSUME NEW g \in Fd, SavedNumber[g] = None, \A h \in Fd : SavedNumber[h] # g
        PROVE  SavedFd[g] = shellFd[g]
    <3>1. g # f /\ g # c /\ saved[g] = None
      BY <2>1, <1>1, <1>4, <1>5
    <3>2. \A h \in Fd : saved[h] # g
      <4>1. ASSUME NEW h \in Fd
            PROVE  saved[h] # g
        <5>1. CASE h = f
          BY <5>1, <1>1
        <5>2. CASE h # f
          BY <5>2, <2>1, <1>4
        <5> QED
          BY <5>1, <5>2
      <4> QED
        BY <4>1
    <3>3. fd[g] = shellFd[g]
      BY <3>1, <3>2 DEF Kept, Others
    <3> QED
      BY <3>1, <3>3, <1>4
  <2> QED
    BY <2>1 DEF Others
<1>8. Places(SavedNumber) = Places(saved) \cup {c}
  <2>1. ASSUME NEW g \in Fd, SavedNumber[g] # None
        PROVE  SavedNumber[g] \in Places(saved) \cup {c}
    BY <2>1, <1>4 DEF Places
  <2>2. ASSUME NEW g \in Fd, saved[g] # None
        PROVE  saved[g] \in Places(SavedNumber)
    <3>1. g # f
      BY <2>2, <1>1
    <3>2. SavedNumber[g] = saved[g]
      BY <3>1, <1>4
    <3> QED
      BY <3>2, <2>2 DEF Places
  <2>3. c \in Places(SavedNumber)
    <3>1. SavedNumber[f] = c
      BY <1>1, <1>4
    <3> QED
      BY <3>1, <1>1, <1>5 DEF Places
  <2> QED
    BY <2>1, <2>2, <2>3 DEF Places
<1>9. f \notin Places(SavedNumber)
  BY <1>1, <1>5, <1>8
<1>10. \A g \in Fd : SavedNumber[g] # None => (saved[g] # None \/ g = f) /\ SavedFd[g] # Closed
  <2>1. \A g \in Fd : saved[g] # None => fd[g] # Closed
    BY DEF Applying
  <2> QED
    BY <2>1, <1>1, <1>4
<1> QED
  BY <1>1, <1>4, <1>5, <1>6, <1>7, <1>8, <1>9, <1>10 DEF f, Kept

\* A redirected descriptor that was saved and holds no copy may hold anything.
LEMMA RedirectKeeps ==
  ASSUME NEW t, NEW s, NEW f \in Fd, NEW v, s \in [Fd -> Fd \cup {None}],
         IsTable(t), Kept(t, s), s[f] # None, f \notin Places(s)
  PROVE  Kept([t EXCEPT ![f] = v], s)
<1>1. \A g \in Fd : s[g] # f
  BY DEF Places
<1>2. \A g \in Fd : [t EXCEPT ![f] = v][g] = IF g = f THEN v ELSE t[g]
  BY DEF IsTable
<1>3. Copies([t EXCEPT ![f] = v], s)
  BY <1>1, <1>2 DEF Kept, Copies
<1>4. Others([t EXCEPT ![f] = v], s)
  BY <1>2 DEF Kept, Others
<1> QED
  BY <1>3, <1>4 DEF Kept

\* Putting a copy back, and closing it, leaves the others.
LEMMA RestoreKeeps ==
  ASSUME Types, Kept(fd, saved), NEW f \in Fd, saved[f] # None
  PROVE  Kept(Close(Dup2(fd, saved[f], f), saved[f]), [saved EXCEPT ![f] = None])
<1> DEFINE c == saved[f]
           t == Close(Dup2(fd, c, f), c)
           s == [saved EXCEPT ![f] = None]
<1>1. Kept(fd, saved) /\ DOMAIN fd = Fd /\ saved \in [Fd -> Fd \cup {None}]
  BY DEF Types, TypeOK
<1>2. /\ c \in Fd /\ shellFd[c] = Closed
      /\ fd[c] = shellFd[f] /\ shellFd[f] # Closed
      /\ \A g \in Fd : saved[g] = c => g = f
  BY <1>1 DEF Kept, Copies
<1>3. t = [fd EXCEPT ![f] = shellFd[f], ![c] = Closed]
  BY <1>2 DEF Close, Dup2
<1> HIDE DEF c, t
<1>4. \A h \in Fd : t[h] = IF h = c THEN Closed ELSE IF h = f THEN shellFd[f] ELSE fd[h]
  BY <1>1, <1>2, <1>3
<1>5. \A g \in Fd : s[g] = IF g = f THEN None ELSE saved[g]
  BY <1>1
<1> HIDE DEF s
<1>6. \A g \in Fd : saved[g] # None => shellFd[g] # Closed /\ shellFd[saved[g]] = Closed
  BY <1>1 DEF Kept, Copies
<1>7. Copies(t, s)
  <2>1. ASSUME NEW h \in Fd, s[h] # None
        PROVE  /\ shellFd[s[h]] = Closed /\ shellFd[h] # Closed
               /\ t[s[h]] = shellFd[h]
               /\ \A g \in Fd : s[g] = s[h] => g = h
    <3>1. h # f /\ s[h] = saved[h] /\ saved[h] # None /\ saved[h] \in Fd
      BY <2>1, <1>1, <1>5
    <3>2. saved[h] # c /\ saved[h] # f
      BY <3>1, <1>2, <1>6
    <3>3. fd[saved[h]] = shellFd[h] /\ \A g \in Fd : saved[g] = saved[h] => g = h
      BY <3>1 DEF Kept, Copies
    <3>4. t[saved[h]] = fd[saved[h]]
      BY <3>1, <3>2, <1>4
    <3>5. \A g \in Fd : s[g] = s[h] => g = h
      BY <3>1, <3>3, <1>5, <2>1
    <3> QED
      BY <3>1, <3>3, <3>4, <3>5, <1>6
  <2> QED
    BY <2>1 DEF Copies
<1>8. Others(t, s)
  <2>1. ASSUME NEW g \in Fd, s[g] = None, \A h \in Fd : s[h] # g
        PROVE  t[g] = shellFd[g]
    <3>1. CASE g = c
      BY <3>1, <1>2, <1>4
    <3>2. CASE g # c /\ g = f
      BY <3>2, <1>4
    <3>3. CASE g # c /\ g # f
      <4>1. saved[g] = None
        BY <3>3, <2>1, <1>5
      <4>2. \A h \in Fd : saved[h] # g
        BY <3>3, <2>1, <1>5 DEF c
      <4>3. fd[g] = shellFd[g]
        BY <4>1, <4>2 DEF Kept, Others
      <4> QED
        BY <3>3, <4>3, <1>4
    <3> QED
      BY <3>1, <3>2, <3>3
  <2> QED
    BY <2>1 DEF Others
<1> QED
  BY <1>7, <1>8 DEF Kept, t, s, c

\* What becomes of a redirection whose descriptor was saved: the file cannot be
\* opened, or an exception is thrown, or the descriptor has changed.
LEMMA ApplyOneResult ==
  ASSUME Types, ApplyOne
  PROVE  /\ saved' = SavedNumber
         /\ \/ fd' = SavedFd /\ pc' = "restore" /\ UNCHANGED <<shellFd, list, next>>
            \/ pc' \in {"idle", "runaway"}
            \/ /\ next' = next + 1 /\ UNCHANGED <<shellFd, list, pc>>
               /\ \/ fd' = SavedFd
                  \/ \E v : /\ fd' = [SavedFd EXCEPT ![Current.fd] = v]
                            /\ v # Closed \/ Current.op = "close"
<1>1. next <= Len(list) /\ saved' = SavedNumber
  BY DEF ApplyOne, GiveUp, Escape
<1>2. Current.op = "open" => Current.arg # Closed
  BY <1>1, CurrentType
<1>3. CASE GiveUp(SavedFd, SavedNumber)
  BY <1>1, <1>3 DEF GiveUp
<1>4. CASE Escape
  BY <1>1, <1>4 DEF Escape
<1>5. CASE ~ GiveUp(SavedFd, SavedNumber) /\ ~ Escape
  <2>1. /\ next' = next + 1 /\ UNCHANGED <<shellFd, list, pc>>
        /\ \/ fd' = SavedFd
           \/ Current.op = "open" /\ fd' = [SavedFd EXCEPT ![Current.fd] = Current.arg]
           \/ fd' = Dup2(SavedFd, Current.arg, Current.fd)
           \/ Current.op = "close" /\ fd' = Close(SavedFd, Current.fd)
    BY <1>5 DEF ApplyOne
  <2>2. \/ Dup2(SavedFd, Current.arg, Current.fd) = SavedFd
        \/ /\ SavedFd[Current.arg] # Closed
           /\ Dup2(SavedFd, Current.arg, Current.fd) =
                [SavedFd EXCEPT ![Current.fd] = SavedFd[Current.arg]]
    BY DEF Dup2
  <2>3. \/ fd' = SavedFd
        \/ \E v : /\ fd' = [SavedFd EXCEPT ![Current.fd] = v]
                  /\ v # Closed \/ Current.op = "close"
    BY <1>2, <2>1, <2>2 DEF Close
  <2> QED
    BY <1>1, <2>1, <2>3
<1> QED
  BY <1>3, <1>4, <1>5

\* An orderly redirection keeps the copies, whatever becomes of it.
LEMMA ApplyOneKeeps ==
  ASSUME Types, Tidy, ApplyOne
  PROVE  Tidy'
<1> DEFINE f == Current.fd
<1>1. pc = "apply" /\ next <= Len(list) /\ ~ CannotSave
  BY ApplyOneTouches
<1>2. CASE pc' \in {"idle", "runaway"}
  BY <1>2 DEF Tidy, Busy
<1>3. SUFFICES ASSUME Orderly(list, shellFd), UNCHANGED <<shellFd, list>>
               PROVE  Tidy'
  BY <1>2, ApplyOneResult DEF Tidy
<1>4. Kept(fd, saved) /\ Applying
  BY <1>1, <1>3 DEF Tidy, Busy
<1>5. /\ Kept(SavedFd, SavedNumber)
      /\ LowestOnes(Places(SavedNumber), shellFd, next)
      /\ f \in Fd /\ f \notin Places(SavedNumber)
      /\ \A g \in Fd : SavedNumber[g] # None =>
           (saved[g] # None \/ g = f) /\ SavedFd[g] # Closed
      /\ SavedNumber[f] # None
  BY <1>1, <1>3, <1>4, SaveKeeps
<1>6. IsTable(SavedFd) /\ DOMAIN SavedFd = Fd /\ SavedNumber \in [Fd -> Fd \cup {None}]
  BY <1>1, SavedType
<1>7. next \in 1 .. Len(list) /\ Len(list) \in Nat /\ f = list[next].fd
  BY <1>1, CurrentType, ListType DEF Current
<1>8. Current.op = "close" => next = Len(list)
  BY <1>3, <1>7 DEF Orderly, Current
<1>9. saved' = SavedNumber
  BY ApplyOneResult
<1> HIDE DEF f
<1>10. CASE fd' = SavedFd /\ pc' = "restore"
  <2>1. Kept(fd, saved)'
    BY <1>3, <1>5, <1>9, <1>10 DEF Kept, Copies, Others
  <2> QED
    BY <2>1, <1>10 DEF Tidy
<1>11. CASE /\ next' = next + 1 /\ pc' = pc
            /\ \/ fd' = SavedFd
               \/ \E v : /\ fd' = [SavedFd EXCEPT ![f] = v]
                         /\ v # Closed \/ Current.op = "close"
  <2>1. PICK t : t = fd'
    OBVIOUS
  <2>2. Kept(t, SavedNumber)
    <3>1. CASE t = SavedFd
      BY <3>1, <1>5
    <3>2. ASSUME NEW v, t = [SavedFd EXCEPT ![f] = v]
          PROVE  Kept(t, SavedNumber)
      BY <3>2, <1>5, <1>6, RedirectKeeps
    <3> QED
      BY <1>11, <2>1, <3>1, <3>2
  <2>3. Kept(fd, saved)'
    BY <2>1, <2>2, <1>3, <1>9 DEF Kept, Copies, Others
  <2>4. ASSUME NEW g \in Fd, SavedNumber[g] # None
        PROVE  /\ \E j \in 1 .. next : list[j].fd = g
               /\ next + 1 <= Len(list) => t[g] # Closed
    <3>1. \E j \in 1 .. next : list[j].fd = g
      <4>1. CASE g = f
        BY <4>1, <1>7
      <4>2. CASE saved[g] # None
        <5>1. PICK j \in 1 .. next - 1 : list[j].fd = g
          BY <4>2, <1>4 DEF Applying
        <5>2. j \in 1 .. next
          BY <5>1, <1>7
        <5> QED
          BY <5>1, <5>2
      <4> QED
        BY <4>1, <4>2, <1>5, <2>4
    <3>2. SavedFd[g] # Closed
      BY <1>5, <2>4
    <3>3. ASSUME next + 1 <= Len(list)
          PROVE  t[g] # Closed
      <4>1. Current.op # "close"
        BY <3>3, <1>7, <1>8
      <4>2. CASE t = SavedFd
        BY <4>2, <3>2
      <4>3. ASSUME NEW v, t = [SavedFd EXCEPT ![f] = v], v # Closed
            PROVE  t[g] # Closed
        BY <4>3, <3>2, <1>6
      <4> QED
        BY <1>11, <2>1, <4>1, <4>2, <4>3
    <3> QED
      BY <3>1, <3>3
  <2>5. next' - 1 = next
    BY <1>7, <1>11
  <2>6. Applying'
    BY <1>3, <1>5, <1>9, <1>11, <2>1, <2>4, <2>5 DEF Applying
  <2> QED
    BY <2>3, <2>6 DEF Tidy
<1> QED
  BY <1>2, <1>10, <1>11, ApplyOneResult DEF f

\* So does every other step.
LEMMA NextKeeps ==
  ASSUME Types, Tidy, [Next]_vars
  PROVE  Tidy'
<1> USE DEF Kept, Copies, Others
<1>1. ASSUME NEW who \in {"builtin", "external"}, NEW request \in Request, Begin(who, request)
      PROVE  Tidy'
  <2>1. fd' = shellFd /\ shellFd' = shellFd /\ saved' = Nothing /\ next' - 1 = 0
    BY <1>1 DEF Begin
  <2>2. Kept(fd, saved)'
    BY <2>1 DEF Nothing
  <2>3. Places(saved') = {}
    BY <2>1 DEF Places, Nothing
  <2>4. LowestOnes({}, shellFd, 0)
    BY FS_EmptySet DEF LowestOnes
  <2>5. Applying'
    BY <2>1, <2>3, <2>4 DEF Applying, Nothing
  <2> QED
    BY <2>2, <2>5 DEF Tidy
<1>2. CASE SaveFails
  BY <1>2 DEF SaveFails, GiveUp, Tidy, Busy
<1>3. CASE ApplyOne
  BY <1>3, ApplyOneKeeps
<1>4. CASE Applied \/ BuiltinReturns
  BY <1>4 DEF Applied, BuiltinReturns, Tidy, Busy
<1>5. CASE BuiltinThrows \/ Exec \/ Restored
  BY <1>5 DEF BuiltinThrows, Escape, Exec, Restored, Tidy, Busy
<1>6. ASSUME NEW f \in Fd, RestoreOne(f)
      PROVE  Tidy'
  <2>1. /\ pc = "restore" /\ saved[f] # None /\ UNCHANGED <<shellFd, list, pc>>
        /\ fd' = Close(Dup2(fd, saved[f], f), saved[f]) /\ saved' = [saved EXCEPT ![f] = None]
    BY <1>6 DEF RestoreOne
  <2>2. CASE ~ Orderly(list, shellFd)
    BY <2>1, <2>2 DEF Tidy
  <2>3. CASE Orderly(list, shellFd)
    <3>1. Kept(Close(Dup2(fd, saved[f], f), saved[f]), [saved EXCEPT ![f] = None])
      BY <2>1, <2>3, RestoreKeeps DEF Tidy, Busy
    <3> QED
      BY <2>1, <3>1 DEF Tidy
  <2> QED
    BY <2>2, <2>3
<1>7. CASE Runaway \/ UNCHANGED vars
  BY <1>7 DEF Runaway, vars, Tidy, Busy, Applying
<1> QED
  BY <1>1, <1>2, <1>3, <1>4, <1>5, <1>6, <1>7 DEF Next

-----------------------------------------------------------------------------
(* What a list of redirections means.                                      *)

\* Induction over numbers, for a set of them.
LEMMA AllNumbers ==
  ASSUME NEW T, 0 \in T, \A k \in Nat : k \in T => k + 1 \in T
  PROVE  \A k \in Nat : k \in T
<1> DEFINE Rest == Nat \ T
<1>1. SUFFICES ASSUME Rest # {}
               PROVE  FALSE
  OBVIOUS
<1>2. PICK x \in Rest : \A y \in Rest : x <= y
  <2>1. Rest \subseteq Nat
    OBVIOUS
  <2> HIDE DEF Rest
  <2> QED
    BY <1>1, <2>1, LeastNumber
<1>3. x # 0 /\ x - 1 \in Nat /\ x - 1 \notin Rest
  BY <1>2
<1> QED
  BY <1>2, <1>3

\* FoldLeft takes the elements away from the end of the list, one at a time; these
\* are its equations, for the elements at the places s and for a function g that
\* would satisfy them.
Greatest(s) == CHOOSE x \in s : \A y \in s : x >= y
Equation(t, l, g, s) ==
  IF s = {} THEN t ELSE Meaning(g[s \ {Greatest(s)}], l[Greatest(s)])
Folds(t, l, n, g) == g = [s \in SUBSET (1 .. n) |-> Equation(t, l, g, s)]
Fold(t, l) == CHOOSE g : Folds(t, l, Len(l), g)

\* The meaning of the first k redirections.
Seen(t, l, k) == Fold(t, l)[1 .. k]

\* The greatest of some places that include the last one is the last one.
LEMMA GreatestIsLast ==
  ASSUME NEW n \in Nat, NEW s, s \subseteq 1 .. n, n \in s
  PROVE  Greatest(s) = n
<1>1. \A y \in s : y \in Nat /\ n >= y
  OBVIOUS
<1>2. \A x \in s : (\A y \in s : x >= y) => x = n
  BY <1>1
<1> QED
  BY <1>1, <1>2 DEF Greatest

\* The equations have a solution.
LEMMA FoldExists ==
  ASSUME NEW t, NEW l
  PROVE  \A n \in Nat : \E g : Folds(t, l, n, g)
<1> DEFINE T == {n \in Nat : \E g : Folds(t, l, n, g)}
<1>1. 0 \in T
  <2>1. SUBSET (1 .. 0) = {{}}
    OBVIOUS
  <2>2. Folds(t, l, 0, [s \in SUBSET (1 .. 0) |-> t])
    BY <2>1 DEF Folds, Equation
  <2> QED
    BY <2>2
<1>2. ASSUME NEW n \in Nat, n \in T
      PROVE  n + 1 \in T
  <2>1. PICK g : Folds(t, l, n, g)
    BY <1>2
  <2> DEFINE m == n + 1
             h == [s \in SUBSET (1 .. m) |->
                     IF m \in s THEN Meaning(g[s \ {m}], l[m]) ELSE g[s]]
  <2>2. ASSUME NEW s \in SUBSET (1 .. m)
        PROVE  h[s] = Equation(t, l, h, s)
    <3>1. CASE m \in s
      <4>1. Greatest(s) = m /\ s # {}
        BY <3>1, GreatestIsLast
      <4>2. s \ {m} \in SUBSET (1 .. n) /\ s \ {m} \in SUBSET (1 .. m)
        OBVIOUS
      <4>3. h[s \ {m}] = g[s \ {m}]
        BY <4>2
      <4>4. h[s] = Meaning(g[s \ {m}], l[m])
        BY <3>1
      <4> HIDE DEF h, m
      <4> QED
        BY <4>1, <4>3, <4>4 DEF Equation
    <3>2. CASE m \notin s
      <4>1. s \in SUBSET (1 .. n)
        BY <3>2
      <4>2. h[s] = g[s] /\ g[s] = Equation(t, l, g, s)
        BY <2>1, <3>2, <4>1 DEF Folds
      <4>3. s \ {Greatest(s)} \in SUBSET (1 .. n) /\ s \ {Greatest(s)} \in SUBSET (1 .. m)
        BY <4>1
      <4>4. m \notin s \ {Greatest(s)}
        BY <3>2
      <4>5. h[s \ {Greatest(s)}] = g[s \ {Greatest(s)}]
        BY <4>3, <4>4
      <4> HIDE DEF h, m
      <4> QED
        BY <4>2, <4>5 DEF Equation
    <3> QED
      BY <3>1, <3>2
  <2>3. h = [s \in SUBSET (1 .. m) |-> h[s]]
    OBVIOUS
  <2> HIDE DEF h
  <2>4. Folds(t, l, m, h)
    BY <2>2, <2>3 DEF Folds
  <2> QED
    BY <2>4
<1> HIDE DEF T
<1>3. \A n \in Nat : n \in T
  BY <1>1, <1>2, AllNumbers
<1> QED
  BY <1>3 DEF T

\* So the meaning of a list is that of its last redirection after the others, and
\* that of no redirection is nothing.
LEMMA SeenSteps ==
  ASSUME NEW t, NEW l, Len(l) \in Nat, DOMAIN l = 1 .. Len(l)
  PROVE  /\ Seen(t, l, 0) = t
         /\ \A k \in 1 .. Len(l) : Seen(t, l, k) = Meaning(Seen(t, l, k - 1), l[k])
<1> DEFINE n == Len(l)
           g == Fold(t, l)
<1>1. Folds(t, l, n, g)
  BY FoldExists DEF Fold
<1>2. \A s \in SUBSET (1 .. n) : g[s] = Equation(t, l, g, s)
  <2> HIDE DEF g
  <2> QED
    BY <1>1 DEF Folds
<1>3. Seen(t, l, 0) = t
  <2>1. 1 .. 0 = {} /\ {} \in SUBSET (1 .. n)
    OBVIOUS
  <2> HIDE DEF g
  <2> QED
    BY <1>2, <2>1 DEF Equation, Seen, g
<1>4. ASSUME NEW k \in 1 .. n
      PROVE  Seen(t, l, k) = Meaning(Seen(t, l, k - 1), l[k])
  <2>1. /\ 1 .. k \in SUBSET (1 .. n) /\ 1 .. k # {}
        /\ (1 .. k) \ {k} = 1 .. k - 1
    OBVIOUS
  <2>2. Greatest(1 .. k) = k
    BY GreatestIsLast
  <2> HIDE DEF g
  <2> QED
    BY <1>2, <2>1, <2>2 DEF Equation, Seen, g
<1> QED
  BY <1>3, <1>4

\* FoldLeft is the meaning of all of them.
LEMMA SeenAll ==
  ASSUME NEW t, NEW l, DOMAIN l = 1 .. Len(l)
  PROVE  FoldLeft(Meaning, t, l) = Seen(t, l, Len(l))
<1>1. FoldLeft(Meaning, t, l) = Fold(t, l)[DOMAIN l]
  BY DEF FoldLeft, MapThenFoldSet, Max, Fold, Folds, Equation, Greatest
<1> QED
  BY <1>1 DEF Seen

\* As long as redirections are applied, the descriptors are those of the list so
\* far, all but the places of the copies.
Sees ==
  /\ pc \in {"apply", "body"}
  /\ Orderly(list, shellFd) /\ ReadsNoCopy(list, shellFd)
  => /\ IsTable(Seen(shellFd, list, next - 1))
     /\ \A f \in Fd : f \notin Places(saved) => fd[f] = Seen(shellFd, list, next - 1)[f]
     /\ pc = "body" => next = Len(list) + 1

\* A redirection that succeeds does to the descriptors what it means.
LEMMA ApplyOneMeans ==
  ASSUME IInv, Sees, ApplyOne
  PROVE  Sees'
<1> DEFINE f == Current.fd
           m == Current.arg
           t == Seen(shellFd, list, next - 1)
<1>1. pc = "apply" /\ next <= Len(list) /\ ~ CannotSave /\ saved' = SavedNumber
  BY ApplyOneTouches
<1>2. SUFFICES ASSUME Orderly(list, shellFd), ReadsNoCopy(list, shellFd),
                      pc' = "apply", next' = next + 1, UNCHANGED <<shellFd, list>>
               PROVE  Sees'
  BY <1>1, ApplyOneResult DEF Sees, IInv
<1>3. /\ next \in 1 .. Len(list) /\ Len(list) \in Nat /\ DOMAIN list = 1 .. Len(list)
      /\ Current = list[next] /\ Current.op \in Op
  BY <1>1, CurrentType, ListType DEF IInv, Current
<1>4. /\ f \in Fd /\ LowestOnes(Places(SavedNumber), shellFd, next)
      /\ saved[f] = None /\ Copy \in Fd
  BY <1>1, <1>2, SaveKeeps, SaveFinds DEF IInv, Tidy, Busy
<1>5. /\ IsTable(SavedFd) /\ SavedFd = [fd EXCEPT ![Copy] = fd[f]]
      /\ IsTable(fd) /\ DOMAIN fd = Fd /\ DOMAIN saved = Fd /\ SavedNumber = [saved EXCEPT ![f] = Copy]
  BY <1>1, SavedType DEF IInv, Types, TypeOK, SavedFd, SavedNumber
<1>6. IsTable(t) /\ \A g \in Fd : g \notin Places(saved) => fd[g] = t[g]
  BY <1>1, <1>2 DEF Sees
<1>7. Seen(shellFd, list, next) = Meaning(t, Current)
  <2>1. \A k \in 1 .. Len(list) : Seen(shellFd, list, k) = Meaning(Seen(shellFd, list, k - 1), list[k])
    <3>1. Len(list) \in Nat /\ DOMAIN list = 1 .. Len(list)
      BY <1>3
    <3> QED
      BY ONLY <3>1, SeenSteps
  <2> QED
    BY <1>3, <2>1
<1> HIDE DEF t, f
<1>8. \A g \in Fd : g \notin Places(SavedNumber) => SavedFd[g] = t[g]
  <2>1. ASSUME NEW g \in Fd, g \notin Places(SavedNumber)
        PROVE  g # Copy /\ g \notin Places(saved)
    <3>1. SavedNumber[f] = Copy /\ Copy # None
      BY <1>4, <1>5
    <3>2. g # Copy
      BY <1>4, <2>1, <3>1 DEF Places
    <3>3. \A h \in Fd : saved[h] # None => h # f /\ SavedNumber[h] = saved[h]
      BY <1>4, <1>5
    <3> QED
      BY <2>1, <3>2, <3>3 DEF Places
  <2> QED
    BY <2>1, <1>5, <1>6
<1>9. Current.op = "dup" /\ m \in Fd => m \notin Places(SavedNumber)
  <2>1. SUFFICES ASSUME Current.op = "dup", m \in Places(SavedNumber)
                 PROVE  FALSE
    OBVIOUS
  <2>2. Untaken(shellFd, m, next)
    BY <1>2, <1>3, <2>1 DEF ReadsNoCopy
  <2> QED
    BY <1>3, <1>4, <2>1, <2>2, TakenIsLow
<1>10. \/ Current.op = "open" /\ fd' = [SavedFd EXCEPT ![f] = m]
       \/ Current.op = "dup" /\ fd' = Dup2(SavedFd, m, f)
       \/ Current.op = "close" /\ fd' = [SavedFd EXCEPT ![f] = Closed]
       \/ Current.op \notin {"open", "dup", "close"} /\ fd' = SavedFd
  BY <1>2, <1>3 DEF ApplyOne, GiveUp, Escape, Close, f
<1>11. IsTable(Meaning(t, Current))
  BY <1>6 DEF Meaning, IsTable
<1>12. \A g \in Fd : g \notin Places(SavedNumber) => fd'[g] = Meaning(t, Current)[g]
  <2>1. CASE Current.op = "open" /\ fd' = [SavedFd EXCEPT ![f] = m]
    <3>1. Meaning(t, Current) = [t EXCEPT ![f] = m]
      BY <2>1 DEF Meaning, f
    <3> QED
      BY <2>1, <3>1, <1>4, <1>5, <1>6, <1>8 DEF IsTable
  <2>2. CASE Current.op = "close" /\ fd' = [SavedFd EXCEPT ![f] = Closed]
    <3>1. Meaning(t, Current) = [t EXCEPT ![f] = Closed]
      BY <2>2 DEF Meaning, f
    <3> QED
      BY <2>2, <3>1, <1>4, <1>5, <1>6, <1>8 DEF IsTable
  <2>3. CASE Current.op = "dup" /\ fd' = Dup2(SavedFd, m, f)
    <3>1. CASE m \in Fd /\ t[m] # Closed
      <4>1. SavedFd[m] = t[m]
        BY <2>3, <3>1, <1>8, <1>9
      <4>2. fd' = [SavedFd EXCEPT ![f] = t[m]]
        BY <2>3, <3>1, <4>1 DEF Dup2
      <4>3. Meaning(t, Current) = [t EXCEPT ![f] = t[m]]
        BY <2>3, <3>1 DEF Meaning, f
      <4> QED
        BY <4>2, <4>3, <1>4, <1>5, <1>6, <1>8 DEF IsTable
    <3>2. CASE ~ (m \in Fd /\ t[m] # Closed)
      <4>1. m \in Fd => SavedFd[m] = t[m]
        BY <2>3, <1>8, <1>9
      <4>2. fd' = SavedFd
        BY <2>3, <3>2, <4>1 DEF Dup2
      <4>3. Meaning(t, Current) = t
        BY <2>3, <3>2 DEF Meaning
      <4> QED
        BY <4>2, <4>3, <1>8
    <3> QED
      BY <3>1, <3>2
  <2>4. CASE Current.op \notin {"open", "dup", "close"} /\ fd' = SavedFd
    BY <2>4, <1>8 DEF Meaning
  <2> QED
    BY <1>10, <2>1, <2>2, <2>3, <2>4
<1>13. next' - 1 = next
  BY <1>2, <1>3
<1> QED
  BY <1>1, <1>2, <1>7, <1>11, <1>12, <1>13 DEF Sees

\* No other step touches a descriptor before the command runs.
LEMMA NextSees ==
  ASSUME IInv, Sees, [Next]_vars
  PROVE  Sees'
<1>1. ASSUME NEW who \in {"builtin", "external"}, NEW request \in Request, Begin(who, request)
      PROVE  Sees'
  <2>1. Seen(shellFd, request, 0) = shellFd
    <3>1. Len(request) \in Nat /\ request = [i \in 1 .. Len(request) |-> request[i]]
      BY DEF RedirectAssumption
    <3>2. DOMAIN request = 1 .. Len(request)
      BY <3>1
    <3> QED
      BY <3>1, <3>2, SeenSteps
  <2>2. shellFd' = shellFd /\ fd' = shellFd /\ list' = request /\ next' - 1 = 0 /\ pc' = "apply"
    BY <1>1 DEF Begin
  <2> QED
    BY <2>1, <2>2 DEF Sees, IInv, Types
<1>2. CASE ApplyOne
  BY <1>2, ApplyOneMeans
<1>3. CASE Applied
  <2>1. next = Len(list) + 1
    BY <1>3, ListType DEF Applied, IInv, Types, TypeOK
  <2> QED
    BY <1>3, <2>1 DEF Applied, Sees
<1>4. CASE UNCHANGED vars
  BY <1>4 DEF vars, Sees
<1>5. ASSUME NEW f \in Fd, RestoreOne(f)
      PROVE  Sees'
  BY <1>5 DEF RestoreOne, Sees
<1>6. CASE SaveFails \/ BuiltinReturns \/ BuiltinThrows \/ Exec \/ Restored \/ Runaway
  BY <1>6 DEF SaveFails, GiveUp, BuiltinReturns, BuiltinThrows, Escape, Exec, Restored, Runaway,
     vars, Sees
<1> QED
  BY <1>1, <1>2, <1>3, <1>4, <1>5, <1>6 DEF Next

-----------------------------------------------------------------------------
(* Theorems.                                                               *)

\* The shell starts between two commands.
LEMMA InitTypes ==
  ASSUME Init
  PROVE  Types
<1> QED
  BY DEF Init, Types, TypeOK, IsTable, Nothing, RedirectAssumption

\* Whatever is redirected, the descriptors stay a table and the copies numbers
\* of descriptors.
THEOREM TypeTheorem == Spec => []TypeOK
<1>1. Types => TypeOK
  BY DEF Types
<1> QED
  BY <1>1, InitTypes, NextType, PTL DEF Spec

\* The inductive invariant holds throughout.
THEOREM InvariantTheorem == Spec => []IInv
<1>1. Init => IInv
  BY InitTypes DEF Init, IInv, Spared, Tidy, Busy
<1>2. IInv /\ [Next]_vars => IInv'
  BY NextType, NextSpares, NextKeeps DEF IInv
<1> QED
  BY <1>1, <1>2, PTL DEF Spec

\* An orderly list, of any commands before it, never touches the copies of the
\* shell's descriptors, whatever fails.
THEOREM CopiesTheorem == Spec => []SavedIsOriginal
<1>1. IInv => SavedIsOriginal
  BY DEF IInv, Tidy, Busy, Kept, Copies, SavedIsOriginal
<1> QED
  BY <1>1, InvariantTheorem, PTL

\* When a command ends, however it does and whatever was redirected, the shell
\* has every open descriptor that was not named; and after an orderly list that was
\* undone all of them, in whatever order restoreRedirections went.
THEOREM RestoredTheorem == Spec => ShellFdsRestored
<1>1. ASSUME IInv, [Next]_vars, pc # "idle", pc' = "idle", NEW g \in Fd, Bystander(g)
      PROVE  shellFd'[g] = shellFd[g]
  <2>1. CASE ApplyOne
    <3>1. fd'[g] = shellFd[g]
      BY <1>1, <2>1, ApplyOneSpares DEF IInv
    <3>2. shellFd' = shellFd \/ shellFd' = fd'
      BY <2>1 DEF ApplyOne, GiveUp, Escape
    <3> QED
      BY <3>1, <3>2
  <2>2. CASE BuiltinThrows \/ Exec \/ Restored
    <3>1. fd[g] = shellFd[g]
      BY <1>1, <2>2 DEF BuiltinThrows, Exec, Restored, IInv, Spared, Busy
    <3>2. shellFd' = shellFd \/ shellFd' = fd
      BY <2>2 DEF BuiltinThrows, Exec, Restored, Escape
    <3> QED
      BY <3>1, <3>2
  <2> QED
    BY <1>1, <2>1, <2>2 DEF Next, vars, Begin, SaveFails, GiveUp, Applied, BuiltinReturns,
       RestoreOne, Runaway
<1>2. ASSUME IInv, [Next]_vars, pc = "restore", pc' = "idle", Orderly(list, shellFd)
      PROVE  \A g \in Fd : shellFd'[g] = shellFd[g]
  <2>1. Restored
    BY <1>2 DEF Next, vars, Begin, SaveFails, ApplyOne, Applied, BuiltinReturns, BuiltinThrows,
       Exec, RestoreOne, Runaway
  <2>2. \A g \in Fd : fd[g] = shellFd[g]
    BY <1>2, <2>1 DEF Restored, Nothing, IInv, Tidy, Busy, Kept, Others
  <2> QED
    BY <2>1, <2>2 DEF Restored
<1>3. IInv /\ [Next]_vars =>
        [pc # "idle" /\ pc' = "idle" =>
           \A f \in Fd :
             \/ shellFd[f] # Closed /\ f \notin Targets(list)
             \/ pc = "restore" /\ Orderly(list, shellFd)
             => shellFd'[f] = shellFd[f]]_vars
  BY <1>1, <1>2 DEF Bystander
<1> QED
  BY <1>3, InvariantTheorem, PTL DEF Spec, ShellFdsRestored

\* A command whose redirections are orderly and duplicate no copy finds all its
\* descriptors as the list says, however long it is, but for those with copies.
THEOREM RequestTheorem == Spec => []CommandSeesRequest
<1>1. Init => Sees
  BY DEF Init, Sees
<1>2. IInv /\ Sees /\ [Next]_vars => Sees'
  BY NextSees
<1>3. IInv /\ Sees => CommandSeesRequest
  <2>1. ASSUME IInv, Sees, pc = "body", Orderly(list, shellFd), ReadsNoCopy(list, shellFd),
               NEW f \in Fd, \A g \in Fd : saved[g] # f
        PROVE  fd[f] = FoldLeft(Meaning, shellFd, list)[f]
    <3>1. Len(list) \in Nat /\ DOMAIN list = 1 .. Len(list)
      BY <2>1, ListType DEF IInv
    <3>2. FoldLeft(Meaning, shellFd, list) = Seen(shellFd, list, Len(list))
      BY <3>1, SeenAll
    <3>3. next - 1 = Len(list)
      BY <2>1, <3>1 DEF Sees
    <3>4. f \notin Places(saved)
      BY <2>1 DEF Places
    <3> QED
      BY <2>1, <3>2, <3>3, <3>4 DEF Sees
  <2> QED
    BY <2>1 DEF CommandSeesRequest
<1> QED
  BY <1>1, <1>2, <1>3, InvariantTheorem, PTL DEF Spec

=============================================================================
