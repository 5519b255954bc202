--------------------------- MODULE DashVars_proof ---------------------------
(***************************************************************************)
(* Proofs about DashVars, for any variables and values, any depth of       *)
(* functions, any commands, directories and values of PATH: that no text   *)
(* is freed while it is in use, that the table of commands agrees with a   *)
(* search of PATH, and that functions give back what they made local: with *)
(* option a off, DashVars implements Scopes.                               *)
(***************************************************************************)
EXTENDS DashVars, SequenceTheorems, FiniteSetTheorems, WellFoundedInduction, TLAPS

USE DEF NameAssumption, ValueAssumption, BoundAssumption
USE NameAssumption, ValueAssumption, BoundAssumption

-----------------------------------------------------------------------------
(* The least number of a set.                                              *)

\* Min gives the least element of a set of numbers.
LEMMA LeastOf ==
  ASSUME NEW S, S \subseteq Nat, S # {}
  PROVE  Min(S) \in S /\ \A y \in S : Min(S) <= y
<1> DEFINE R == {ss \in Nat \X Nat : ss[1] < ss[2]}
<1>1. IsWellFoundedOn(R, Nat)
  BY NatLessThanWellFounded DEF OpToRel
<1>2. PICK x \in S : \A y \in S : ~ (<<y, x>> \in R)
  <2> HIDE DEF R
  <2> QED
    BY <1>1, WFMin
<1>3. ASSUME NEW y \in S
      PROVE  x <= y
  <2>1. <<y, x>> \in Nat \X Nat /\ <<y, x>>[1] = y /\ <<y, x>>[2] = x
    OBVIOUS
  <2>2. ~ (y < x)
    BY <1>2, <2>1
  <2> QED
    BY <2>2
<1> QED
  BY <1>3 DEF Min

-----------------------------------------------------------------------------
(* Who owns a text.                                                        *)

\* What the calls work on.
Cmds == [tab : [Command -> Entry], builtinloc : Int]
Machine == [vars : [Name -> Var], stk : Seq(Seq(Saved)), dead : SUBSET (Name \X (1..Blocks)),
            cmds : Cmds, err : BOOLEAN]

\* The places of the stack of saved variables, and the earlier of two.
Place(stk, i, j) == i \in 1 .. Len(stk) /\ j \in 1 .. Len(stk[i])
Earlier(x, y, i, j) == x < i \/ (x = i /\ y < j)

\* Some saved text of n is in block b.
Holds(stk, n, b) == \E i, j \in Nat : Place(stk, i, j) /\ stk[i][j].name = n /\ stk[i][j].text.block = b

\* The bounds of the stack.
Bounded(stk) == Len(stk) <= MaxScopes /\ \A i \in 1 .. Len(stk) : Len(stk[i]) <= MaxLocals

\* A text that a variable owns is no saved one; a saved text that its scope owns
\* is not saved further down; what was freed is not pointed to.
Unshared(t, stk) == \A n \in Name : Owned(t[n]) => ~ Holds(stk, n, t[n].text.block)
Stacked(stk) ==
  \A i, j, x, y \in Nat :
    /\ Place(stk, i, j) /\ Place(stk, x, y) /\ Earlier(x, y, i, j)
    /\ stk[x][y].name = stk[i][j].name
    /\ Owned(stk[i][j])
    => stk[x][y].text.block # stk[i][j].text.block
Harmless(t, stk, d) ==
  \A n \in Name : \A b \in 1 .. Blocks :
    <<n, b>> \in d => t[n].text.block # b /\ ~ Holds(stk, n, b)

Ownership(t, stk, d) == Unshared(t, stk) /\ Stacked(stk) /\ Harmless(t, stk, d)

\* Blocks is a number.
LEMMA BlocksType == Blocks \in Nat /\ 1 <= Blocks
<1>1. MaxScopes * MaxLocals \in Nat
  BY SMT
<1> QED
  BY <1>1 DEF Blocks

\* What is in a place of the stack is a saved variable.
LEMMA PlaceType ==
  ASSUME NEW stk \in Seq(Seq(Saved)), NEW i, NEW j, Place(stk, i, j)
  PROVE  /\ stk[i] \in Seq(Saved) /\ stk[i][j] \in Saved
         /\ stk[i][j].name \in Name \cup {"-"} /\ stk[i][j].flags \in SUBSET Flag
         /\ stk[i][j].text \in Text /\ stk[i][j].text.block \in 0 .. Blocks
<1>1. stk[i] \in Seq(Saved)
  BY DEF Place
<1>2. stk[i][j] \in Saved
  BY <1>1 DEF Place
<1> QED
  BY <1>1, <1>2 DEF Saved, Text

\* There is always a block that no saved text of a variable is in: there are more
\* blocks than places in the stack.
LEMMA FreeBlock ==
  ASSUME NEW stk \in Seq(Seq(Saved)), Bounded(stk), NEW n
  PROVE  \E b \in 1 .. Blocks : ~ Holds(stk, n, b)
<1> SUFFICES ASSUME \A b \in 1 .. Blocks : Holds(stk, n, b)
             PROVE  FALSE
  OBVIOUS
<1> DEFINE T == (1 .. MaxScopes) \X (1 .. MaxLocals)
           Is(p, b) == Place(stk, p[1], p[2]) /\ stk[p[1]][p[2]].text.block = b
           Some(b) == CHOOSE p \in T : Is(p, b)
           f == [b \in 1 .. Blocks |-> Some(b)]
<1>1. IsFiniteSet(1 .. Blocks) /\ Cardinality(1 .. Blocks) = MaxScopes * MaxLocals + 1
  <2>1. IsFiniteSet(1 .. Blocks) /\ Cardinality(1 .. Blocks) = Blocks
    BY ONLY BlocksType, FS_Interval
  <2> QED
    BY <2>1 DEF Blocks
<1>2. IsFiniteSet(T) /\ Cardinality(T) = MaxScopes * MaxLocals
  <2>1. /\ IsFiniteSet(1 .. MaxScopes) /\ Cardinality(1 .. MaxScopes) = MaxScopes
        /\ IsFiniteSet(1 .. MaxLocals) /\ Cardinality(1 .. MaxLocals) = MaxLocals
    BY ONLY BoundAssumption, FS_Interval DEF BoundAssumption
  <2> QED
    BY <2>1, FS_Product
<1>3. ASSUME NEW b \in 1 .. Blocks
      PROVE  Some(b) \in T /\ Is(Some(b), b)
  <2>1. PICK i, j \in Nat : Place(stk, i, j) /\ stk[i][j].text.block = b
    BY DEF Holds
  <2>2. i \in 1 .. MaxScopes /\ j \in 1 .. MaxLocals
    <3>1. stk[i] \in Seq(Saved) /\ Len(stk[i]) \in Nat /\ Len(stk) \in Nat
      BY <2>1, PlaceType
    <3> QED
      BY <2>1, <3>1 DEF Place, Bounded
  <2>3. <<i, j>> \in T /\ Is(<<i, j>>, b)
    BY <2>1, <2>2
  <2> HIDE DEF T, Is
  <2> QED
    BY <2>3
<1>4. f \in [1 .. Blocks -> T] /\ \A b \in 1 .. Blocks : f[b] = Some(b)
  <2> HIDE DEF Some, T, Is
  <2> QED
    BY <1>3
<1>5. \E x, y \in 1 .. Blocks : x # y /\ f[x] = f[y]
  <2>1. Cardinality(T) < Cardinality(1 .. Blocks)
    <3>1. MaxScopes * MaxLocals \in Nat
      BY SMT
    <3> HIDE DEF T
    <3> QED
      BY <1>1, <1>2, <3>1
  <2>2. f \in [1 .. Blocks -> T]
    BY <1>4
  <2> HIDE DEF f, T, Is, Some
  <2> QED
    BY ONLY <1>1, <1>2, <2>1, <2>2, FS_PigeonHole
<1>6. PICK x, y \in 1 .. Blocks : x # y /\ f[x] = f[y]
  BY <1>5
<1>7. Is(f[x], x) /\ Is(f[x], y)
  <2> HIDE DEF f, T, Is, Some
  <2> QED
    BY <1>3, <1>4, <1>6
<1> QED
  <2> HIDE DEF f, Some
  <2> QED
    BY <1>6, <1>7

-----------------------------------------------------------------------------
(* The types of the table of commands.                                     *)

\* The places of a value of PATH are numbers, and %builtin is at one of them or at none.
LEMMA PlaceOfBuiltinsIs ==
  ASSUME NEW path \in Value \cup {None}
  PROVE  /\ Places(path) \subseteq Nat
         /\ PlaceOfBuiltins(path) \in Int
         /\ PlaceOfBuiltins(path) >= 0 =>
              /\ PlaceOfBuiltins(path) \in Places(path)
              /\ At(path, PlaceOfBuiltins(path)) = "%builtin"
         /\ \A i \in Places(path) : At(path, i) = "%builtin" =>
              0 <= PlaceOfBuiltins(path) /\ PlaceOfBuiltins(path) <= i
<1> DEFINE here == {i \in Places(path) : At(path, i) = "%builtin"}
<1>1. Places(path) \subseteq Nat
  BY PathAssumption DEF Places, PathAssumption
<1>2. PlaceOfBuiltins(path) = IF here = {} THEN -1 ELSE Min(here)
  BY DEF PlaceOfBuiltins
<1>3. here # {} => Min(here) \in here /\ \A i \in here : Min(here) <= i
  BY <1>1, LeastOf
<1>4. CASE here = {}
  BY <1>1, <1>2, <1>4
<1>5. CASE here # {}
  <2>1. PlaceOfBuiltins(path) \in here /\ \A i \in here : PlaceOfBuiltins(path) <= i
    BY <1>2, <1>3, <1>5
  <2> QED
    BY <1>1, <2>1
<1> QED
  BY <1>4, <1>5

\* What the operations on the table of commands return is such a table.
LEMMA CommandTypes ==
  ASSUME NEW h \in Cmds
  PROVE  /\ clearcmdentry(h) \in Cmds /\ hashcd(h) \in Cmds
         /\ \A c \in Command : h.tab[c] \in Entry
         /\ \A c \in Command, e \in Entry :
              /\ addcmdentry(h, c, e) \in Cmds
              /\ addcmdentry(h, c, e).builtinloc = h.builtinloc
              /\ addcmdentry(h, c, e).tab = [h.tab EXCEPT ![c] = e]
         /\ \A path \in Value \cup {None} : changepath(h, path) \in Cmds
<1>1. Missing \in Entry
  BY DEF Missing, Entry
<1>2. ASSUME NEW g \in Cmds
      PROVE  clearcmdentry(g) \in Cmds
  BY <1>1 DEF clearcmdentry, Cmds
<1>3. hashcd(h) \in Cmds
  <2>1. \A e \in Entry : [e EXCEPT !.rehash = TRUE] \in Entry
    BY DEF Entry
  <2> QED
    BY <2>1 DEF hashcd, Cmds
<1>4. ASSUME NEW path \in Value \cup {None}
      PROVE  changepath(h, path) \in Cmds
  <2>1. [h EXCEPT !.builtinloc = PlaceOfBuiltins(path)] \in Cmds
    BY PlaceOfBuiltinsIs DEF Cmds
  <2> QED
    BY <2>1, <1>2 DEF changepath
<1>5. \A c \in Command, e \in Entry :
        /\ addcmdentry(h, c, e) \in Cmds
        /\ addcmdentry(h, c, e).builtinloc = h.builtinloc
        /\ addcmdentry(h, c, e).tab = [h.tab EXCEPT ![c] = e]
  BY DEF addcmdentry, Cmds
<1> QED
  BY <1>2, <1>3, <1>4, <1>5 DEF Cmds

-----------------------------------------------------------------------------
(* What setvareq does.                                                     *)

\* The blocks of n are those of the variable and of its saved texts.
LEMMA UsedIs ==
  ASSUME NEW m \in Machine, NEW n \in Name, NEW b
  PROVE  b \in Used(m, n) <=> b = m.vars[n].text.block \/ Holds(m.stk, n, b)
<1>1. m.stk \in Seq(Seq(Saved))
  BY DEF Machine
<1>2. \A i \in DOMAIN m.stk : m.stk[i] \in Seq(Saved)
  BY <1>1
<1>3. /\ DOMAIN m.stk = 1 .. Len(m.stk) /\ Len(m.stk) \in Nat
      /\ \A i \in DOMAIN m.stk : DOMAIN m.stk[i] = 1 .. Len(m.stk[i]) /\ Len(m.stk[i]) \in Nat
  BY <1>1, <1>2
<1>4. \A i, j : i \in DOMAIN m.stk /\ j \in DOMAIN m.stk[i]
                <=> i \in Nat /\ j \in Nat /\ Place(m.stk, i, j)
  BY <1>3 DEF Place
<1>5. Holds(m.stk, n, b) <=> \E i \in DOMAIN m.stk : \E j \in DOMAIN m.stk[i] :
                               m.stk[i][j].name = n /\ b = m.stk[i][j].text.block
  BY <1>4 DEF Holds
<1> QED
  BY <1>5 DEF Used

\* A new block is in no use.
LEMMA AllocIs ==
  ASSUME NEW m \in Machine, Bounded(m.stk), NEW n \in Name, m.vars[n].text.block = 0
  PROVE  ckmalloc(m, n) \in 1 .. Blocks /\ ~ Holds(m.stk, n, ckmalloc(m, n))
<1> DEFINE F == (1..Blocks) \ Used(m, n)
<1>1. m.stk \in Seq(Seq(Saved))
  BY DEF Machine
<1>2. \E b \in 1 .. Blocks : ~ Holds(m.stk, n, b)
  BY <1>1, FreeBlock
<1>3. F # {} /\ F \subseteq Nat
  BY <1>2, UsedIs, BlocksType
<1>4. Min(F) \in F
  BY <1>3, LeastOf
<1> QED
  BY <1>4, UsedIs DEF ckmalloc

\* The new value w of variable n, which was v, when setvareq sets or removes it.
BecomesSet(stk, n, v, val, given, w) ==
  /\ w.here
  /\ w.flags = given \cup (IF AllExport THEN {"EXPORT"} ELSE {})
                     \cup (v.flags \ {"TEXTFIXED", "UNSET"})
  /\ w.text.val = val /\ w.text.block \in 1 .. Blocks /\ ~ Holds(stk, n, w.text.block)
BecomesGone(v, given, w) == w = Gone /\ "STRFIXED" \notin v.flags /\ "UNSET" \in given

\* What setvareq makes r of m, when it does not refuse.
SetTo(m, n, val, given, w, r) ==
  /\ r.vars = [m.vars EXCEPT ![n] = w]
  /\ r.err = m.err
  /\ r.cmds = (IF n = "PATH" /\ m.vars[n].here THEN changepath(m.cmds, val) ELSE m.cmds)
  /\ r.dead \subseteq m.dead \cup (IF Owned(m.vars[n]) THEN {<<n, m.vars[n].text.block>>} ELSE {})
  /\ <<n, w.text.block>> \notin r.dead \/ w.text.block = 0
  /\ \/ BecomesGone(m.vars[n], given, w)
     \/ BecomesSet(m.stk, n, m.vars[n], val, given, w)

\* f is m with the text of n freed, and the table of commands c.
Freed(m, n, c, f) ==
  /\ f \in Machine /\ f.stk = m.stk /\ f.err = m.err /\ f.cmds = c
  /\ f.vars = [m.vars EXCEPT ![n].text = NoText]
  /\ f.dead = m.dead \cup (IF Owned(m.vars[n]) THEN {<<n, m.vars[n].text.block>>} ELSE {})

\* ckfree and the function of a variable keep the types.
LEMMA FreeIs ==
  ASSUME NEW m \in Machine, NEW n \in Name, NEW val \in Value \cup {None}, NEW g, NEW c,
         \/ g = m /\ c = m.cmds
         \/ g = func(m, n, val) /\ c = IF n = "PATH" THEN changepath(m.cmds, val) ELSE m.cmds
  PROVE  Freed(m, n, c, ckfree(g, n))
<1> DEFINE d == IF Owned(m.vars[n]) THEN {<<n, m.vars[n].text.block>>} ELSE {}
           f == ckfree(g, n)
<1>1. c \in Cmds /\ m.cmds \in Cmds
  <2>1. m.cmds \in Cmds
    BY DEF Machine
  <2>2. changepath(m.cmds, val) \in Cmds
    BY <2>1, CommandTypes
  <2> QED
    BY <2>1, <2>2
<1>2. g = [m EXCEPT !.cmds = c]
  BY DEF func, Machine
<1>3. g \in Machine /\ g.vars = m.vars /\ g.stk = m.stk /\ g.dead = m.dead /\ g.err = m.err
      /\ g.cmds = c
  BY <1>1, <1>2 DEF Machine
<1>4. d \in SUBSET (Name \X (1 .. Blocks))
  <2>1. m.vars[n] \in Var
    BY DEF Machine
  <2>2. m.vars[n].text.block \in 0 .. Blocks
    BY <2>1 DEF Var, Text
  <2> QED
    BY <2>2, BlocksType DEF Owned
<1>5. [m.vars EXCEPT ![n].text = NoText] \in [Name -> Var]
  <2>1. m.vars \in [Name -> Var] /\ m.vars[n] \in Var
    BY DEF Machine
  <2>2. NoText \in Text
    BY BlocksType DEF NoText, Text
  <2>3. [m.vars[n] EXCEPT !.text = NoText] \in Var
    BY <2>1, <2>2 DEF Var
  <2> QED
    BY <2>1, <2>3
<1>6. f = [g EXCEPT !.vars[n].text = NoText, !.dead = @ \cup d]
  <2> QED
    BY <1>3 DEF ckfree
<1>7. f = [g EXCEPT !.vars = [m.vars EXCEPT ![n].text = NoText], !.dead = m.dead \cup d]
  <2> HIDE DEF d, f
  <2> QED
    BY <1>3, <1>6
<1>8. /\ f \in Machine /\ f.stk = m.stk /\ f.err = m.err
      /\ f.vars = [m.vars EXCEPT ![n].text = NoText] /\ f.cmds = c /\ f.dead = m.dead \cup d
  <2>1. m.dead \in SUBSET (Name \X (1 .. Blocks))
    BY DEF Machine
  <2> HIDE DEF d, f
  <2> QED
    BY <1>3, <1>4, <1>5, <1>7, <2>1 DEF Machine
<1> QED
  BY <1>8 DEF Freed

\* setvareq refuses when the variable is readonly; otherwise the variable gets a text
\* of its own, in a block nothing else is in, or goes.
LEMMA SetvareqIs ==
  ASSUME NEW m \in Machine, Bounded(m.stk), NEW n \in Name, NEW val \in Value \cup {None},
         NEW given \in SUBSET Flag
  PROVE  LET r == setvareq(m, n, val, given)
         IN  /\ r \in Machine /\ r.stk = m.stk
             /\ "READONLY" \in m.vars[n].flags => r = [m EXCEPT !.err = TRUE]
             /\ "READONLY" \notin m.vars[n].flags => \E w \in Var : SetTo(m, n, val, given, w, r)
<1> DEFINE v == m.vars[n]
           flags == given \cup (IF AllExport THEN {"EXPORT"} ELSE {})
           goes == (flags \cap {"EXPORT", "READONLY", "STRFIXED", "UNSET"})
                       \cup (v.flags \cap {"STRFIXED"}) = {"UNSET"}
           f == ckfree(IF v.here THEN func(m, n, val) ELSE m, n)
           b == ckmalloc(f, n)
           w == [here |-> TRUE, flags |-> flags \cup (v.flags \ {"TEXTFIXED", "UNSET"}),
                 text |-> [block |-> b, val |-> val]]
           r == setvareq(m, n, val, given)
<1>1. v \in Var /\ v.here \in BOOLEAN /\ v.flags \in SUBSET Flag /\ m.vars \in [Name -> Var]
  <2>1. m.vars \in [Name -> Var]
    BY DEF Machine
  <2> QED
    BY <2>1 DEF Var
<1>2. /\ f \in Machine /\ f.stk = m.stk /\ f.err = m.err
      /\ f.vars = [m.vars EXCEPT ![n].text = NoText]
      /\ f.cmds = (IF n = "PATH" /\ v.here THEN changepath(m.cmds, val) ELSE m.cmds)
      /\ f.dead = m.dead \cup (IF Owned(v) THEN {<<n, v.text.block>>} ELSE {})
  <2> DEFINE g == IF v.here THEN func(m, n, val) ELSE m
             c == IF n = "PATH" /\ v.here THEN changepath(m.cmds, val) ELSE m.cmds
  <2>1. \/ g = m /\ c = m.cmds
        \/ g = func(m, n, val) /\ c = IF n = "PATH" THEN changepath(m.cmds, val) ELSE m.cmds
    OBVIOUS
  <2>2. Freed(m, n, c, ckfree(g, n))
    <3> HIDE DEF g, c
    <3> QED
      BY <2>1, FreeIs
  <2> QED
    BY <2>2 DEF Freed
<1>3. f.vars[n].text.block = 0
  <2> HIDE DEF f
  <2> QED
    BY <1>1, <1>2 DEF NoText, Var
<1>4. b \in 1 .. Blocks /\ ~ Holds(m.stk, n, b)
  <2> HIDE DEF f
  <2> QED
    BY <1>2, <1>3, AllocIs
<1>5. /\ "READONLY" \in v.flags => r = [m EXCEPT !.err = TRUE]
      /\ "READONLY" \notin v.flags /\ goes => r = [f EXCEPT !.vars[n] = Gone]
      /\ "READONLY" \notin v.flags /\ ~ goes =>
           r = [f EXCEPT !.dead = @ \ {<<n, b>>}, !.vars[n] = w]
  BY DEF setvareq, Refused
<1> HIDE DEF f, b, r
<1>6. CASE "READONLY" \in v.flags
  <2>1. r = [m EXCEPT !.err = TRUE]
    BY <1>5, <1>6
  <2>2. r \in Machine /\ r.stk = m.stk
    BY <2>1 DEF Machine
  <2> QED
    BY <1>6, <2>1, <2>2 DEF r
<1>7. CASE "READONLY" \notin v.flags /\ goes
  <2>1. r = [f EXCEPT !.vars[n] = Gone]
    BY <1>5, <1>7
  <2>2. Gone \in Var /\ Gone.text.block = 0
    BY BlocksType DEF Gone, Var, NoText, Text
  <2>3. BecomesGone(v, given, Gone)
    <3>1. "STRFIXED" \notin v.flags /\ "UNSET" \in flags
      BY <1>7
    <3> QED
      BY <3>1 DEF BecomesGone
  <2>4. [f.vars EXCEPT ![n] = Gone] = [m.vars EXCEPT ![n] = Gone]
    BY <1>1, <1>2, <2>2
  <2>5. [m.vars EXCEPT ![n] = Gone] \in [Name -> Var]
    BY <1>1, <2>2
  <2>6. r = [f EXCEPT !.vars = [m.vars EXCEPT ![n] = Gone]]
    BY <1>2, <2>1, <2>4 DEF Machine
  <2>7. /\ r \in Machine /\ r.stk = f.stk /\ r.err = f.err /\ r.cmds = f.cmds /\ r.dead = f.dead
        /\ r.vars = [m.vars EXCEPT ![n] = Gone]
    BY <1>2, <2>5, <2>6 DEF Machine
  <2>8. SetTo(m, n, val, given, Gone, r)
    <3> HIDE DEF v
    <3> QED
      BY <1>2, <2>2, <2>3, <2>7 DEF SetTo, v
  <2> QED
    BY <1>2, <1>7, <2>2, <2>7, <2>8 DEF r
<1>8. CASE "READONLY" \notin v.flags /\ ~ goes
  <2>1. r = [f EXCEPT !.dead = @ \ {<<n, b>>}, !.vars[n] = w]
    BY <1>5, <1>8
  <2>2. w \in Var
    <3>1. flags \cup (v.flags \ {"TEXTFIXED", "UNSET"}) \in SUBSET Flag
      BY <1>1 DEF Flag
    <3>2. [block |-> b, val |-> val] \in Text
      BY <1>4, BlocksType DEF Text
    <3> QED
      BY <3>1, <3>2 DEF Var
  <2>3. BecomesSet(m.stk, n, v, val, given, w) /\ w.text.block = b
    BY <1>4 DEF BecomesSet
  <2> HIDE DEF w, goes
  <2>4. [f.vars EXCEPT ![n] = w] = [m.vars EXCEPT ![n] = w]
    BY <1>1, <1>2, <2>2
  <2>5. [m.vars EXCEPT ![n] = w] \in [Name -> Var]
    BY <1>1, <2>2
  <2>6. r = [f EXCEPT !.dead = f.dead \ {<<n, b>>}, !.vars = [m.vars EXCEPT ![n] = w]]
    BY <1>2, <2>1, <2>4 DEF Machine
  <2>7. /\ r \in Machine /\ r.stk = f.stk /\ r.err = f.err /\ r.cmds = f.cmds
        /\ r.dead = f.dead \ {<<n, b>>}
        /\ r.vars = [m.vars EXCEPT ![n] = w]
    BY <1>2, <2>5, <2>6 DEF Machine
  <2>8. SetTo(m, n, val, given, w, r)
    <3> HIDE DEF v
    <3> QED
      BY <1>2, <2>2, <2>3, <2>7 DEF SetTo, v
  <2> QED
    BY <1>2, <1>8, <2>2, <2>7, <2>8 DEF r
<1> QED
  BY <1>6, <1>7, <1>8 DEF r

-----------------------------------------------------------------------------
(* Ownership, step by step.                                                *)

\* A variable gets a text that it owns only if no saved variable holds it; the old one
\* is freed if the variable owned it.
LEMMA OwnWrite ==
  ASSUME NEW t \in [Name -> Var], NEW stk, NEW d \in SUBSET (Name \X (1 .. Blocks)),
         NEW n \in Name, NEW w \in Var, NEW e,
         Ownership(t, stk, d),
         e \subseteq d \cup (IF Owned(t[n]) THEN {<<n, t[n].text.block>>} ELSE {}),
         <<n, w.text.block>> \notin e \/ w.text.block = 0,
         Owned(w) => ~ Holds(stk, n, w.text.block)
  PROVE  Ownership([t EXCEPT ![n] = w], stk, e)
<1> DEFINE s == [t EXCEPT ![n] = w]
<1>1. s[n] = w /\ \A x \in Name : x # n => s[x] = t[x]
  OBVIOUS
<1>2. Unshared(s, stk)
  BY <1>1 DEF Ownership, Unshared, Owned
<1>3. ASSUME NEW x \in Name, NEW b \in 1 .. Blocks, <<x, b>> \in e
      PROVE  s[x].text.block # b /\ ~ Holds(stk, x, b)
  <2>1. <<x, b>> \in d \/ (x = n /\ b = t[n].text.block /\ Owned(t[n]))
    BY <1>3
  <2>2. ~ Holds(stk, x, b)
    BY <2>1 DEF Ownership, Unshared, Harmless
  <2>3. CASE x # n
    BY <1>1, <2>1, <2>2, <2>3 DEF Ownership, Harmless
  <2>4. CASE x = n
    <3>1. b # 0
      BY BlocksType
    <3> QED
      BY <1>1, <1>3, <2>2, <2>4, <3>1
  <2> QED
    BY <2>3, <2>4
<1>4. Harmless(s, stk, e)
  BY <1>3 DEF Harmless
<1> QED
  BY <1>2, <1>4 DEF Ownership

\* The marks of a variable change, but it owns its text no more than before.
LEMMA OwnMark ==
  ASSUME NEW t \in [Name -> Var], NEW stk, NEW d, NEW n \in Name, NEW w \in Var,
         Ownership(t, stk, d), w.text = t[n].text,
         "TEXTFIXED" \in t[n].flags => "TEXTFIXED" \in w.flags
  PROVE  Ownership([t EXCEPT ![n] = w], stk, d)
<1> DEFINE s == [t EXCEPT ![n] = w]
<1>1. /\ \A x \in Name : s[x].text = t[x].text
      /\ \A x \in Name : Owned(s[x]) => Owned(t[x])
  BY DEF Owned
<1> QED
  BY <1>1 DEF Ownership, Unshared, Harmless

\* Saved variables are taken away.
LEMMA OwnFewer ==
  ASSUME NEW t, NEW stk, NEW d, NEW s, Ownership(t, stk, d),
         \A i, j \in Nat : Place(s, i, j) => Place(stk, i, j) /\ s[i][j] = stk[i][j]
  PROVE  Ownership(t, s, d)
<1>1. \A n, b : Holds(s, n, b) => Holds(stk, n, b)
  BY DEF Holds
<1>2. Stacked(s)
  BY DEF Ownership, Stacked
<1> QED
  BY <1>1, <1>2 DEF Ownership, Unshared, Harmless

\* The places after a variable l was saved in the innermost scope.
Linked(stk, l) == [stk EXCEPT ![Len(stk)] = Append(@, l)]
LastPlace(stk) == Len(stk[Len(stk)]) + 1

Extends(s, stk, l) ==
  /\ Len(stk) \in Nat /\ LastPlace(stk) \in Nat
  /\ Place(s, Len(stk), LastPlace(stk)) /\ s[Len(stk)][LastPlace(stk)] = l
  /\ \A i, j \in Nat :
       Place(s, i, j) => Place(stk, i, j) \/ (i = Len(stk) /\ j = LastPlace(stk))
  /\ \A i, j \in Nat :
       Place(stk, i, j) => /\ Place(s, i, j) /\ s[i][j] = stk[i][j]
                           /\ Earlier(i, j, Len(stk), LastPlace(stk))

\* There is one place more, the last one.
LEMMA LinkPlaces ==
  ASSUME NEW stk \in Seq(Seq(Saved)), stk # <<>>, NEW l \in Saved
  PROVE  LET s == Linked(stk, l)
         IN  /\ s \in Seq(Seq(Saved)) /\ Len(s) = Len(stk)
             /\ \A i \in 1 .. Len(stk) :
                  Len(s[i]) = IF i = Len(stk) THEN Len(stk[i]) + 1 ELSE Len(stk[i])
             /\ Extends(s, stk, l)
<1> DEFINE n == Len(stk)
           u == stk[n]
           s == Linked(stk, l)
<1>1. n \in 1 .. Len(stk) /\ n \in Nat
  BY EmptySeq
<1>2. u \in Seq(Saved) /\ Len(u) \in Nat
  BY <1>1
<1>3. /\ Append(u, l) \in Seq(Saved) /\ Len(Append(u, l)) = Len(u) + 1
      /\ Append(u, l)[Len(u) + 1] = l /\ \A j \in 1 .. Len(u) : Append(u, l)[j] = u[j]
  BY <1>2, AppendProperties
<1>4. s = [stk EXCEPT ![n] = Append(u, l)]
  BY DEF Linked
<1>5. /\ s \in Seq(Seq(Saved)) /\ Len(s) = n /\ s[n] = Append(u, l)
      /\ \A i \in 1 .. n : i # n => s[i] = stk[i]
  <2> HIDE DEF u
  <2> QED
    BY <1>1, <1>3, <1>4
<1>6. \A i \in 1 .. n : Len(stk[i]) \in Nat
  OBVIOUS
<1> HIDE DEF s
<1>7. \A i \in 1 .. n : Len(s[i]) = IF i = n THEN Len(stk[i]) + 1 ELSE Len(stk[i])
  BY <1>3, <1>5
<1>8. Place(s, n, LastPlace(stk)) /\ s[n][LastPlace(stk)] = l /\ LastPlace(stk) \in Nat
  BY <1>1, <1>2, <1>3, <1>5 DEF Place, LastPlace
<1>9. ASSUME NEW i \in Nat, NEW j \in Nat, Place(s, i, j)
      PROVE  Place(stk, i, j) \/ (i = n /\ j = LastPlace(stk))
  BY <1>1, <1>2, <1>5, <1>6, <1>7, <1>9 DEF Place, LastPlace
<1>10. ASSUME NEW i \in Nat, NEW j \in Nat, Place(stk, i, j)
       PROVE  /\ Place(s, i, j) /\ s[i][j] = stk[i][j]
              /\ Earlier(i, j, n, LastPlace(stk))
  <2>1. i \in 1 .. n /\ j \in 1 .. Len(stk[i]) /\ Len(stk[i]) \in Nat
    BY <1>6, <1>10 DEF Place
  <2>2. CASE i = n
    <3>1. s[i][j] = stk[i][j]
      BY <1>3, <1>5, <2>1, <2>2
    <3>2. j < LastPlace(stk) /\ j \in 1 .. Len(s[i])
      BY <1>7, <2>1, <2>2 DEF LastPlace
    <3> QED
      BY <1>5, <2>1, <2>2, <3>1, <3>2 DEF Place, Earlier
  <2>3. CASE i # n
    <3>1. s[i] = stk[i] /\ i < n
      BY <1>5, <2>1, <2>3
    <3> QED
      BY <1>5, <2>1, <3>1 DEF Place, Earlier
  <2> QED
    BY <2>2, <2>3
<1>11. Extends(s, stk, l)
  BY <1>1, <1>8, <1>9, <1>10 DEF Extends
<1> QED
  BY <1>5, <1>7, <1>11 DEF s

\* A variable is saved that holds no text, or one whose text the variable only borrows
\* from then on, and that was not saved before if the scope is to free it.
LEMMA OwnLink ==
  ASSUME NEW t \in [Name -> Var], NEW stk \in Seq(Seq(Saved)), stk # <<>>,
         NEW d \in SUBSET (Name \X (1 .. Blocks)), NEW l \in Saved,
         Ownership(t, stk, d),
         \/ l.text.block = 0
         \/ /\ l.name \in Name /\ l.text = t[l.name].text /\ ~ Owned(t[l.name])
            /\ Owned(l) => ~ Holds(stk, l.name, l.text.block)
  PROVE  Ownership(t, Linked(stk, l), d)
<1> DEFINE s == Linked(stk, l)
<1>a. Extends(s, stk, l)
  <2> HIDE DEF s
  <2> QED
    BY LinkPlaces DEF s
<1>1. \A n, b : Holds(s, n, b) => Holds(stk, n, b) \/ (n = l.name /\ b = l.text.block)
  <2> HIDE DEF s
  <2>1. ASSUME NEW n, NEW b, Holds(s, n, b)
        PROVE  Holds(stk, n, b) \/ (n = l.name /\ b = l.text.block)
    <3>1. PICK i, j \in Nat : Place(s, i, j) /\ s[i][j].name = n /\ s[i][j].text.block = b
      BY <2>1 DEF Holds
    <3>2. CASE Place(stk, i, j)
      BY <1>a, <3>1, <3>2 DEF Extends, Holds
    <3>3. CASE i = Len(stk) /\ j = LastPlace(stk)
      BY <1>a, <3>1, <3>3 DEF Extends
    <3> QED
      BY <1>a, <3>1, <3>2, <3>3 DEF Extends
  <2> QED
    BY <2>1
<1>2. Unshared(t, s)
  <2> HIDE DEF s
  <2>1. ASSUME NEW n \in Name, Owned(t[n]), Holds(s, n, t[n].text.block)
        PROVE  FALSE
    <3>1. ~ Holds(stk, n, t[n].text.block)
      BY <2>1 DEF Ownership, Unshared
    <3>2. n = l.name /\ t[n].text.block = l.text.block
      BY <1>1, <2>1, <3>1
    <3>3. t[n].text.block # 0
      BY <2>1 DEF Owned
    <3> QED
      BY <2>1, <3>2, <3>3
  <2> QED
    BY <2>1 DEF Unshared
<1>3. Harmless(t, s, d)
  <2> HIDE DEF s
  <2>1. ASSUME NEW n \in Name, NEW b \in 1 .. Blocks, <<n, b>> \in d
        PROVE  ~ Holds(s, n, b)
    <3>1. ~ Holds(stk, n, b) /\ t[n].text.block # b
      BY <2>1 DEF Ownership, Harmless
    <3>2. b # 0
      BY BlocksType
    <3> QED
      BY <1>1, <3>1, <3>2
  <2> QED
    BY <2>1 DEF Ownership, Harmless
<1>4. Stacked(s)
  <2>1. ASSUME NEW i \in Nat, NEW j \in Nat, NEW x \in Nat, NEW y \in Nat,
               Place(s, i, j), Place(s, x, y), Earlier(x, y, i, j),
               s[x][y].name = s[i][j].name, Owned(s[i][j])
        PROVE  s[x][y].text.block # s[i][j].text.block
    <3> HIDE DEF s
    <3>2. CASE i = Len(stk) /\ j = LastPlace(stk)
      <4>1. Place(stk, x, y)
        <5>1. ~ (x = Len(stk) /\ y = LastPlace(stk))
          BY <1>a, <2>1, <3>2 DEF Earlier, Extends
        <5> QED
          BY <1>a, <2>1, <5>1 DEF Extends
      <4>2. s[i][j] = l /\ s[x][y] = stk[x][y]
        BY <1>a, <3>2, <4>1 DEF Extends
      <4>3. l.text.block # 0
        BY <2>1, <4>2 DEF Owned
      <4>4. ~ Holds(stk, l.name, l.text.block)
        BY <2>1, <4>2, <4>3
      <4> QED
        BY <2>1, <4>1, <4>2, <4>4 DEF Holds
    <3>3. CASE ~ (i = Len(stk) /\ j = LastPlace(stk))
      <4>1. Place(stk, i, j) /\ s[i][j] = stk[i][j]
        BY <1>a, <2>1, <3>3 DEF Extends
      <4>2. Place(stk, x, y) /\ s[x][y] = stk[x][y]
        <5>1. ~ (x = Len(stk) /\ y = LastPlace(stk))
          <6>1. /\ Earlier(i, j, Len(stk), LastPlace(stk)) /\ Earlier(x, y, i, j)
                /\ Len(stk) \in Nat /\ LastPlace(stk) \in Nat
            BY <1>a, <2>1, <4>1 DEF Extends
          <6> QED
            BY ONLY i \in Nat, j \in Nat, x \in Nat, y \in Nat, <6>1 DEF Earlier
        <5> QED
          BY <1>a, <2>1, <5>1 DEF Extends
      <4>3. stk[x][y].name = stk[i][j].name /\ Owned(stk[i][j])
        BY <2>1, <4>1, <4>2
      <4>4. stk[x][y].text.block # stk[i][j].text.block
        <5>1. Stacked(stk) /\ Earlier(x, y, i, j)
          BY <2>1 DEF Ownership
        <5> QED
          BY ONLY <4>1, <4>2, <4>3, <5>1, i \in Nat, j \in Nat, x \in Nat, y \in Nat DEF Stacked
      <4> QED
        BY <4>1, <4>2, <4>4
    <3> QED
      BY <3>2, <3>3
  <2> HIDE DEF s
  <2> QED
    BY ONLY <2>1 DEF Stacked
<1> QED
  BY <1>2, <1>3, <1>4 DEF Ownership

-----------------------------------------------------------------------------
(* What the table of commands knows.                                       *)

IsFile(path, i) == At(path, i) # "%builtin"
Holder(path, w, c, i) == Has(At(path, i), w, c)

\* What an entry says of place i of PATH is still to be believed: all of it, or after a
\* change of directory what it says of directories named from the root.
Believed(e, path, i) == e.rehash => At(path, i) \in Absolute

\* e is a true entry for c, when %builtin is at place b of PATH: it names the first
\* place that holds c, as far as it is to be believed.
BuiltinTrue(e, b, c, path, w) ==
  /\ c \in Builtin
  /\ b > 0 => \A i \in Places(path) : i < b /\ Believed(e, path, i) => ~ Holder(path, w, c, i)
NormalTrue(e, b, c, path, w) ==
  /\ e.index \in Places(path) /\ IsFile(path, e.index)
  /\ c \in Builtin => e.index < b
  /\ \A i \in Places(path) :
       i < e.index /\ IsFile(path, i) /\ Believed(e, path, i) => ~ Holder(path, w, c, i)
  /\ Believed(e, path, e.index) => Holder(path, w, c, e.index)
EntryTrue(e, b, c, path, w) ==
  /\ e.type = "none" => e = Missing
  /\ e.type = "function" => ~ e.rehash
  /\ e.type = "builtin" => BuiltinTrue(e, b, c, path, w)
  /\ e.type = "normal" => NormalTrue(e, b, c, path, w)

Trusted(h, path, w) ==
  /\ h.builtinloc = PlaceOfBuiltins(path)
  /\ \A c \in Command : EntryTrue(h.tab[c], h.builtinloc, c, path, w)

\* A missing entry and a function are true whatever PATH is.
LEMMA PlainTrue ==
  ASSUME NEW b, NEW c, NEW path, NEW w
  PROVE  /\ EntryTrue(Missing, b, c, path, w)
         /\ EntryTrue([type |-> "function", index |-> -1, rehash |-> FALSE], b, c, path, w)
BY DEF EntryTrue, Missing

\* A true entry added leaves the table true.
LEMMA AddTrue ==
  ASSUME NEW h \in Cmds, NEW c \in Command, NEW e \in Entry, NEW path, NEW w,
         Trusted(h, path, w), EntryTrue(e, h.builtinloc, c, path, w)
  PROVE  Trusted(addcmdentry(h, c, e), path, w)
<1> DEFINE g == addcmdentry(h, c, e)
<1>1. g.builtinloc = h.builtinloc /\ g.tab = [h.tab EXCEPT ![c] = e]
  BY CommandTypes
<1>2. h.tab \in [Command -> Entry]
  BY DEF Cmds
<1> HIDE DEF g
<1>3. \A x \in Command : g.tab[x] = IF x = c THEN e ELSE h.tab[x]
  BY <1>1, <1>2
<1>4. Trusted(g, path, w)
  BY <1>1, <1>3 DEF Trusted
<1> QED
  BY <1>4 DEF g

\* PATH changes: what remains in the table does not depend on it.
LEMMA ChangepathTrue ==
  ASSUME NEW h \in Cmds, NEW old, NEW path \in Value \cup {None}, NEW w, Trusted(h, old, w)
  PROVE  Trusted(changepath(h, path), path, w)
<1> DEFINE b == PlaceOfBuiltins(path)
           k == [h EXCEPT !.builtinloc = b]
           g == changepath(h, path)
<1>1. k \in Cmds /\ k.builtinloc = b /\ k.tab = h.tab
  BY PlaceOfBuiltinsIs DEF Cmds
<1>2. g = [k EXCEPT !.tab = [c \in Command |-> IF Movable(k, c) THEN Missing ELSE k.tab[c]]]
  BY DEF changepath, clearcmdentry
<1>3. /\ g.builtinloc = b
      /\ \A c \in Command : g.tab[c] = IF Movable(k, c) THEN Missing ELSE h.tab[c]
  <2> HIDE DEF k, g
  <2> QED
    BY <1>1, <1>2 DEF Cmds
<1>4. ASSUME NEW c \in Command
      PROVE  EntryTrue(g.tab[c], b, c, path, w)
  <2> HIDE DEF k, g
  <2>1. CASE Movable(k, c)
    BY <1>3, <2>1, PlainTrue
  <2>2. CASE ~ Movable(k, c)
    <3>1. g.tab[c] = h.tab[c] /\ h.tab[c].type # "normal"
      BY <1>1, <1>3, <2>2 DEF Movable
    <3>2. h.tab[c].type = "builtin" => ~ (b > 0)
      BY <1>1, <2>2 DEF Movable
    <3>3. EntryTrue(h.tab[c], h.builtinloc, c, old, w)
      BY DEF Trusted
    <3> QED
      BY <3>1, <3>2, <3>3 DEF EntryTrue, BuiltinTrue
  <2> QED
    BY <2>1, <2>2
<1>5. Trusted(g, path, w)
  <2> HIDE DEF k, g
  <2> QED
    BY <1>3, <1>4 DEF Trusted
<1> QED
  BY <1>5

\* The directory changes: what remains to be believed does not depend on it.
LEMMA HashcdTrue ==
  ASSUME NEW h \in Cmds, NEW path \in Value \cup {None}, NEW w \in Value, NEW d \in Value,
         Trusted(h, path, w)
  PROVE  Trusted(hashcd(h), path, d)
<1> DEFINE g == hashcd(h)
<1>1. h.tab \in [Command -> Entry]
  BY DEF Cmds
<1>2. g = [h EXCEPT !.tab = [c \in Command |->
             IF Movable(h, c) THEN [h.tab[c] EXCEPT !.rehash = TRUE] ELSE h.tab[c]]]
  BY DEF hashcd
<1>3. /\ g.builtinloc = h.builtinloc
      /\ \A c \in Command :
           g.tab[c] = IF Movable(h, c) THEN [h.tab[c] EXCEPT !.rehash = TRUE] ELSE h.tab[c]
  <2> HIDE DEF g
  <2> QED
    BY <1>2 DEF Cmds
<1>4. \A c \in Command, i \in Places(path) : At(path, i) \in Absolute =>
        (Holder(path, w, c, i) <=> Holder(path, d, c, i))
  BY PathAssumption DEF PathAssumption, Holder
<1>5. ASSUME NEW c \in Command
      PROVE  EntryTrue(g.tab[c], h.builtinloc, c, path, d)
  <2> DEFINE e == h.tab[c]
             s == [e EXCEPT !.rehash = TRUE]
  <2>1. EntryTrue(e, h.builtinloc, c, path, w) /\ e \in Entry
    BY <1>1 DEF Trusted
  <2>2. s.type = e.type /\ s.index = e.index /\ s.rehash = TRUE
    BY <2>1 DEF Entry
  <2>3. g.tab[c] = IF Movable(h, c) THEN s ELSE e
    BY <1>3
  <2> HIDE DEF g, e, s
  <2>4. \A i : Believed(s, path, i) => Believed(e, path, i) /\ At(path, i) \in Absolute
    BY <2>2 DEF Believed
  <2>5. CASE Movable(h, c) /\ e.type = "normal"
    <3>1. NormalTrue(e, h.builtinloc, c, path, w)
      BY <2>1, <2>5 DEF EntryTrue
    <3>2. NormalTrue(s, h.builtinloc, c, path, d)
      BY <1>4, <2>2, <2>4, <3>1 DEF NormalTrue
    <3> QED
      BY <2>2, <2>3, <2>5, <3>2 DEF EntryTrue
  <2>6. CASE Movable(h, c) /\ e.type # "normal"
    <3>1. e.type = "builtin"
      BY <2>6 DEF Movable, e
    <3>2. BuiltinTrue(e, h.builtinloc, c, path, w)
      BY <2>1, <3>1 DEF EntryTrue
    <3>3. BuiltinTrue(s, h.builtinloc, c, path, d)
      BY <1>4, <2>2, <2>4, <3>2 DEF BuiltinTrue
    <3> QED
      BY <2>2, <2>3, <2>6, <3>1, <3>3 DEF EntryTrue
  <2>7. CASE ~ Movable(h, c)
    <3>1. e.type # "normal" /\ (e.type = "builtin" => ~ (h.builtinloc > 0))
      BY <2>7 DEF Movable, e
    <3> QED
      BY <2>1, <2>3, <2>7, <3>1 DEF EntryTrue, BuiltinTrue
  <2> QED
    BY <2>5, <2>6, <2>7
<1> HIDE DEF g
<1>6. Trusted(g, path, d)
  BY <1>3, <1>5 DEF Trusted
<1> QED
  BY <1>6 DEF g

\* A function is defined or removed.
LEMMA FunctionTrue ==
  ASSUME NEW h \in Cmds, NEW c \in Command, NEW path, NEW w, Trusted(h, path, w)
  PROVE  /\ defun(h, c) \in Cmds /\ Trusted(defun(h, c), path, w)
         /\ unsetfunc(h, c) \in Cmds /\ Trusted(unsetfunc(h, c), path, w)
<1>1. /\ [type |-> "function", index |-> -1, rehash |-> FALSE] \in Entry /\ Missing \in Entry
  BY DEF Entry, Missing
<1> QED
  BY <1>1, PlainTrue, AddTrue, CommandTypes DEF defun, unsetfunc

\* The whole table is cleared.
LEMMA ClearTrue ==
  ASSUME NEW h \in Cmds, NEW path, NEW w, Trusted(h, path, w)
  PROVE  Trusted(clearcmdentry(h), path, w)
<1> DEFINE g == clearcmdentry(h)
<1>1. g = [h EXCEPT !.tab = [c \in Command |-> IF Movable(h, c) THEN Missing ELSE h.tab[c]]]
  BY DEF clearcmdentry
<1>2. /\ g.builtinloc = h.builtinloc
      /\ \A c \in Command : g.tab[c] = IF Movable(h, c) THEN Missing ELSE h.tab[c]
  <2> HIDE DEF g
  <2> QED
    BY <1>1 DEF Cmds
<1> HIDE DEF g
<1>3. Trusted(g, path, w)
  BY <1>2, PlainTrue DEF Trusted
<1> QED
  BY <1>3 DEF g

-----------------------------------------------------------------------------
(* The search of PATH.                                                     *)

\* The first place of PATH that settles what c is, if there is one.
NothingAt(path, w, c) ==
  /\ c \in Builtin => PlaceOfBuiltins(path) < 0
  /\ \A j \in Places(path) : IsFile(path, j) => ~ Holder(path, w, c, j)
FirstAt(path, w, c, i) ==
  /\ i \in Places(path)
  /\ \A j \in Places(path) : j < i /\ IsFile(path, j) => ~ Holder(path, w, c, j)
  /\ ~ IsFile(path, i) => c \in Builtin /\ i = PlaceOfBuiltins(path)
  /\ IsFile(path, i) =>
       /\ Holder(path, w, c, i)
       /\ c \in Builtin /\ PlaceOfBuiltins(path) >= 0 => i < PlaceOfBuiltins(path)

\* A search finds it, although it believes what an entry to be looked at anew says of
\* directories named from the root.
LEMMA StopsAre ==
  ASSUME NEW path \in Value \cup {None}, NEW w, NEW c \in Command, NEW e \in Entry,
         EntryTrue(e, PlaceOfBuiltins(path), c, path, w),
         e = Missing \/ (e.rehash /\ e.type \in {"builtin", "normal"}),
         NEW prev,
         prev = IF ~e.rehash THEN -1
                ELSE IF e.type = "builtin" THEN PlaceOfBuiltins(path) ELSE e.index
  PROVE  LET stops == Stops(path, w, c, prev)
         IN  /\ stops = {} => NothingAt(path, w, c)
             /\ stops # {} => FirstAt(path, w, c, Min(stops))
<1> DEFINE b == PlaceOfBuiltins(path)
           stops == Stops(path, w, c, prev)
<1>0. /\ Places(path) \subseteq Nat /\ b \in Int
      /\ b >= 0 => b \in Places(path) /\ ~ IsFile(path, b)
      /\ \A i \in Places(path) : ~ IsFile(path, i) => 0 <= b /\ b <= i
  BY PlaceOfBuiltinsIs DEF IsFile
<1>1. /\ stops \subseteq Places(path)
      /\ \A i \in Places(path) : ~ IsFile(path, i) => (i \in stops <=> c \in Builtin)
      /\ \A i \in Places(path) : IsFile(path, i) /\ At(path, i) \in Absolute /\ i <= prev =>
           (i \in stops <=> i = prev)
      /\ \A i \in Places(path) : IsFile(path, i) /\ ~ (At(path, i) \in Absolute /\ i <= prev) =>
           (i \in stops <=> Holder(path, w, c, i))
  BY DEF Stops, IsFile, Holder
<1>2. prev \in Int
  BY <1>0 DEF Entry
<1> HIDE DEF stops, b
\* What is believed lies before prev, and is that c is not there, or that it is at prev.
<1>3. ASSUME NEW j \in Places(path), IsFile(path, j), At(path, j) \in Absolute, j < prev
      PROVE  ~ Holder(path, w, c, j)
  <2>0. j \in Nat /\ Believed(e, path, j)
    BY <1>0, <1>3 DEF Believed
  <2>1. e.rehash /\ e.type \in {"builtin", "normal"}
    <3>1. prev # -1
      BY <1>2, <1>3, <2>0
    <3> QED
      BY <3>1 DEF Missing
  <2>2. CASE e.type = "builtin"
    <3>1. prev = b /\ b > 0
      BY <1>0, <1>3, <2>0, <2>1, <2>2 DEF b
    <3>2. BuiltinTrue(e, b, c, path, w)
      BY <2>2 DEF EntryTrue, b
    <3> QED
      BY <1>3, <2>0, <3>1, <3>2 DEF BuiltinTrue
  <2>3. CASE e.type = "normal"
    <3>1. prev = e.index
      BY <2>1, <2>3
    <3>2. NormalTrue(e, b, c, path, w)
      BY <2>3 DEF EntryTrue, b
    <3> QED
      BY <1>3, <2>0, <3>1, <3>2 DEF NormalTrue
  <2> QED
    BY <2>1, <2>2, <2>3
<1>4. ASSUME prev \in Places(path), IsFile(path, prev), At(path, prev) \in Absolute
      PROVE  Holder(path, w, c, prev)
  <2>1. e.rehash /\ e.type \in {"builtin", "normal"}
    <3>1. prev # -1
      BY <1>0, <1>4
    <3> QED
      BY <3>1 DEF Missing
  <2>2. CASE e.type = "builtin"
    <3>1. prev = b /\ b >= 0
      BY <1>0, <1>4, <2>1, <2>2 DEF b
    <3> QED
      BY <1>0, <1>4, <3>1
  <2>3. CASE e.type = "normal"
    <3>1. prev = e.index
      BY <2>1, <2>3
    <3>2. NormalTrue(e, b, c, path, w)
      BY <2>3 DEF EntryTrue, b
    <3> QED
      BY <1>4, <3>1, <3>2 DEF NormalTrue, Believed
  <2> QED
    BY <2>1, <2>2, <2>3
\* A place that holds c stops the search there or before.
<1>5. ASSUME NEW j \in Places(path), IsFile(path, j), Holder(path, w, c, j)
      PROVE  j \in stops
  <2>1. CASE At(path, j) \in Absolute /\ j <= prev
    <3>1. ~ (j < prev)
      BY <1>3, <1>5, <2>1
    <3>2. j = prev
      BY <1>0, <1>2, <2>1, <3>1
    <3> QED
      BY <1>1, <1>5, <2>1, <3>2
  <2>2. CASE ~ (At(path, j) \in Absolute /\ j <= prev)
    BY <1>1, <1>5, <2>2
  <2> QED
    BY <2>1, <2>2
<1>6. ASSUME NEW i \in stops, IsFile(path, i)
      PROVE  Holder(path, w, c, i)
  <2>1. i \in Places(path)
    BY <1>1
  <2>2. CASE At(path, i) \in Absolute /\ i <= prev
    <3>1. i = prev
      BY <1>1, <1>6, <2>1, <2>2
    <3> QED
      BY <1>4, <1>6, <2>1, <2>2, <3>1
  <2>3. CASE ~ (At(path, i) \in Absolute /\ i <= prev)
    BY <1>1, <1>6, <2>1, <2>3
  <2> QED
    BY <2>2, <2>3
<1>7. c \in Builtin /\ b >= 0 => b \in stops
  BY <1>0, <1>1
<1>8. CASE stops = {}
  <2>1. c \in Builtin => b < 0
    BY <1>0, <1>7, <1>8
  <2>2. \A j \in Places(path) : IsFile(path, j) => ~ Holder(path, w, c, j)
    BY <1>5, <1>8
  <2>3. NothingAt(path, w, c)
    BY <2>1, <2>2 DEF NothingAt, b
  <2> QED
    BY <1>8, <2>3 DEF stops
<1>9. CASE stops # {}
  <2> DEFINE i == Min(stops)
  <2>1. i \in stops /\ \A y \in stops : i <= y
    BY <1>0, <1>1, <1>9, LeastOf
  <2> HIDE DEF i
  <2>2. i \in Places(path) /\ i \in Nat
    BY <1>0, <1>1, <2>1
  <2>3. ASSUME NEW j \in Places(path), j < i, IsFile(path, j)
        PROVE  ~ Holder(path, w, c, j)
    <3>1. j \in Nat /\ ~ (i <= j)
      BY <1>0, <2>2, <2>3
    <3> QED
      BY <1>5, <2>1, <2>3, <3>1
  <2>4. ASSUME ~ IsFile(path, i)
        PROVE  c \in Builtin /\ i = b
    <3>1. c \in Builtin /\ 0 <= b /\ b <= i
      BY <1>0, <1>1, <2>1, <2>2, <2>4
    <3>2. i <= b
      BY <1>7, <2>1, <3>1
    <3> QED
      BY <1>0, <2>2, <3>1, <3>2
  <2>5. ASSUME IsFile(path, i)
        PROVE  Holder(path, w, c, i) /\ (c \in Builtin /\ b >= 0 => i < b)
    <3>1. Holder(path, w, c, i)
      BY <1>6, <2>1, <2>5
    <3>2. ASSUME c \in Builtin, b >= 0
          PROVE  i < b
      <4>1. i <= b /\ i # b
        BY <1>0, <1>7, <2>1, <2>5, <3>2
      <4> QED
        BY <1>0, <2>2, <4>1
    <3> QED
      BY <3>1, <3>2
  <2>6. FirstAt(path, w, c, i)
    BY <2>2, <2>3, <2>4, <2>5 DEF FirstAt, b
  <2> QED
    BY <1>9, <2>6 DEF i, stops
<1> QED
  BY <1>8, <1>9

\* What a search finds is a true entry, and what Resolve says.
LEMMA FirstIsTrue ==
  ASSUME NEW path \in Value \cup {None}, NEW w, NEW c \in Command, NEW i,
         FirstAt(path, w, c, i),
         c \in Builtin => PlaceOfBuiltins(path) > 0
  PROVE  LET e == IF At(path, i) = "%builtin" THEN BuiltinEntry ELSE Normal(i)
         IN  e \in Entry /\ EntryTrue(e, PlaceOfBuiltins(path), c, path, w)
<1>1. Places(path) \subseteq Nat /\ PlaceOfBuiltins(path) \in Int
  BY PlaceOfBuiltinsIs
<1>2. i \in Places(path) /\ i \in Int
  BY <1>1 DEF FirstAt
<1>3. CASE At(path, i) = "%builtin"
  <2>1. BuiltinEntry \in Entry /\ BuiltinEntry.type = "builtin"
    BY DEF BuiltinEntry, Entry
  <2>2. c \in Builtin /\ i = PlaceOfBuiltins(path)
    BY <1>3 DEF FirstAt, IsFile
  <2>3. \A j \in Places(path) : j < i => IsFile(path, j)
    BY <1>1, <1>2, <2>2, PlaceOfBuiltinsIs DEF IsFile
  <2>4. BuiltinTrue(BuiltinEntry, PlaceOfBuiltins(path), c, path, w)
    BY <2>2, <2>3 DEF FirstAt, BuiltinTrue
  <2>5. EntryTrue(BuiltinEntry, PlaceOfBuiltins(path), c, path, w)
    BY <2>1, <2>4 DEF EntryTrue
  <2> QED
    BY <1>3, <2>1, <2>5
<1>4. CASE At(path, i) # "%builtin"
  <2>1. /\ Normal(i) \in Entry /\ Normal(i).type = "normal"
        /\ Normal(i).index = i /\ Normal(i).rehash = FALSE
    BY <1>2 DEF Normal, Entry
  <2>2. NormalTrue(Normal(i), PlaceOfBuiltins(path), c, path, w)
    BY <1>1, <1>2, <1>4, <2>1 DEF FirstAt, NormalTrue, IsFile
  <2>3. EntryTrue(Normal(i), PlaceOfBuiltins(path), c, path, w)
    BY <2>1, <2>2 DEF EntryTrue
  <2> QED
    BY <1>4, <2>1, <2>3
<1> QED
  BY <1>3, <1>4

\* What a name stands for that place i of PATH settles.
SaysFirst(is, path, i) == is = IF At(path, i) = "%builtin" THEN "builtin" ELSE At(path, i)

\* What Resolve says when the first place that settles it is known.
LEMMA ResolveIs ==
  ASSUME NEW path \in Value \cup {None}, NEW w, NEW c \in Command, NEW act, NEW functions,
         c \notin functions \/ "nofunc" \in act,
         NEW first, first <=> "altpath" \in act \/ PlaceOfBuiltins(path) <= 0
  PROVE  LET is == Resolve(functions, c, act, path, w)
         IN  /\ c \in Builtin /\ first => is = "builtin"
             /\ ~ (c \in Builtin /\ first) /\ NothingAt(path, w, c) => is = "none"
             /\ ~ (c \in Builtin /\ first) =>
                  \A i : FirstAt(path, w, c, i) => SaysFirst(is, path, i)
<1> DEFINE b == PlaceOfBuiltins(path)
           files == {i \in Places(path) : IsFile(path, i) /\ Holder(path, w, c, i)}
           before == IF first THEN files ELSE {i \in files : i < b}
           is == Resolve(functions, c, act, path, w)
<1>1. is = IF c \in Builtin /\ (first \/ before = {}) THEN "builtin"
           ELSE IF files = {} THEN "none" ELSE At(path, Min(files))
  BY DEF Resolve, IsFile, Holder
<1>2. Places(path) \subseteq Nat /\ b \in Int
  BY PlaceOfBuiltinsIs
<1> HIDE DEF is, b
<1>3. ASSUME ~ (c \in Builtin /\ first), NothingAt(path, w, c)
      PROVE  is = "none"
  <2>1. c \notin Builtin
    BY <1>2, <1>3 DEF NothingAt, b
  <2>2. files = {}
    BY <1>3 DEF NothingAt
  <2> QED
    BY <1>1, <2>1, <2>2
<1>4. ASSUME ~ (c \in Builtin /\ first), NEW i, FirstAt(path, w, c, i)
      PROVE  is = IF At(path, i) = "%builtin" THEN "builtin" ELSE At(path, i)
  <2>1. i \in Places(path) /\ i \in Nat
    BY <1>2, <1>4 DEF FirstAt
  <2>2. CASE At(path, i) = "%builtin"
    <3>1. c \in Builtin /\ i = b /\ ~ first
      BY <1>4, <2>2 DEF FirstAt, IsFile, b
    <3>2. \A j \in files : ~ (j < b)
      BY <1>4, <3>1 DEF FirstAt
    <3>3. before = {}
      BY <3>1, <3>2
    <3> QED
      BY <1>1, <2>2, <3>1, <3>3
  <2>3. CASE At(path, i) # "%builtin"
    <3>1. i \in files /\ \A j \in files : ~ (j < i)
      BY <1>4, <2>1, <2>3 DEF FirstAt, IsFile
    <3>2. Min(files) = i
      <4>1. files \subseteq Nat /\ files # {}
        BY <1>2, <3>1
      <4>2. Min(files) \in files /\ Min(files) <= i
        BY <3>1, <4>1, LeastOf
      <4>3. Min(files) \in Nat /\ ~ (Min(files) < i)
        BY <3>1, <4>1, <4>2
      <4> HIDE DEF files
      <4> QED
        BY <2>1, <4>2, <4>3
    <3>3. ~ (c \in Builtin /\ (first \/ before = {}))
      <4>1. CASE c \in Builtin
        <5>1. ~ first /\ b > 0
          BY <1>2, <1>4, <4>1 DEF b
        <5>2. i < b
          BY <1>2, <1>4, <2>3, <4>1, <5>1 DEF FirstAt, IsFile, b
        <5> QED
          BY <3>1, <5>1, <5>2
      <4>2. CASE c \notin Builtin
        BY <4>2
      <4> QED
        BY <4>1, <4>2
    <3> HIDE DEF before
    <3> QED
      BY <1>1, <2>3, <3>1, <3>2, <3>3
  <2> QED
    BY <2>2, <2>3
<1>5. c \in Builtin /\ first => is = "builtin"
  BY <1>1
<1> QED
  BY <1>3, <1>4, <1>5 DEF is, SaysFirst

\* The functions of a table.
FunctionsOf(h) == {c \in Command : h.tab[c].type = "function"}

\* What find_command is to do: leave a true table, with the same functions, and answer
\* as Resolve does, unless it was asked for a regular builtin only.
FindsRight(h, c, act, path, p, w, r) ==
  /\ r.h \in Cmds /\ Trusted(r.h, path, w) /\ FunctionsOf(r.h) = FunctionsOf(h)
  /\ "regbltin" \notin act => Meant(r.ans, p) = Resolve(FunctionsOf(h), c, act, p, w)

\* An entry that is not to be looked at anew says what Resolve says.
LEMMA KnownIsRight ==
  ASSUME NEW path \in Value \cup {None}, NEW w, NEW c \in Command, NEW act, NEW functions,
         NEW e \in Entry, EntryTrue(e, PlaceOfBuiltins(path), c, path, w),
         e # Missing, ~ e.rehash, act \cap Bits(e) = {},
         c \in functions <=> e.type = "function"
  PROVE  \A p : (e.type = "normal" => p = path) /\ ("altpath" \notin act => p = path) =>
           Meant(e, p) = Resolve(functions, c, act, p, w)
<1> SUFFICES ASSUME NEW p, e.type = "normal" => p = path, "altpath" \notin act => p = path
             PROVE  Meant(e, p) = Resolve(functions, c, act, p, w)
  OBVIOUS
<1> DEFINE first == "altpath" \in act \/ PlaceOfBuiltins(path) <= 0
<1>0. Places(path) \subseteq Nat /\ PlaceOfBuiltins(path) \in Int
  BY PlaceOfBuiltinsIs
<1>1. CASE e.type = "function"
  <2>1. c \in functions /\ "nofunc" \notin act
    BY <1>1 DEF Bits
  <2>2. Resolve(functions, c, act, p, w) = "function"
    BY <2>1 DEF Resolve
  <2> QED
    BY <1>1, <2>2 DEF Meant
<1>2. CASE e.type = "builtin"
  <2>1. c \notin functions /\ BuiltinTrue(e, PlaceOfBuiltins(path), c, path, w)
    BY <1>2 DEF EntryTrue
  <2>2. CASE "altpath" \in act
    BY <1>2, <2>1, <2>2 DEF Resolve, Meant, BuiltinTrue
  <2>3. CASE "altpath" \notin act /\ PlaceOfBuiltins(path) <= 0
    BY <1>2, <2>1, <2>3 DEF Resolve, Meant, BuiltinTrue
  <2>4. CASE "altpath" \notin act /\ ~ (PlaceOfBuiltins(path) <= 0)
    <3>1. p = path
      BY <2>4
    <3>2. \A i \in Places(path) : i < PlaceOfBuiltins(path) => ~ Has(At(path, i), w, c)
      BY <1>0, <2>1, <2>4 DEF BuiltinTrue, Believed, Holder
    <3>3. Resolve(functions, c, act, path, w) = "builtin"
      BY <2>1, <2>4, <3>2 DEF Resolve, BuiltinTrue
    <3> QED
      BY <1>2, <3>1, <3>3 DEF Meant
  <2> QED
    BY <2>2, <2>3, <2>4
<1>3. CASE e.type = "normal"
  <2>1. c \notin functions /\ NormalTrue(e, PlaceOfBuiltins(path), c, path, w)
    BY <1>3 DEF EntryTrue
  <2>2. FirstAt(path, w, c, e.index) /\ IsFile(path, e.index)
    BY <2>1 DEF NormalTrue, FirstAt, Believed
  <2>3. ~ (c \in Builtin /\ first)
    <3>1. "altpath" \notin act
      BY <1>3 DEF Bits
    <3>2. c \in Builtin => PlaceOfBuiltins(path) > 0
      BY <1>0, <2>1 DEF NormalTrue
    <3> QED
      BY <1>0, <3>1, <3>2
  <2>4. Resolve(functions, c, act, path, w) = At(path, e.index)
    <3>1. SaysFirst(Resolve(functions, c, act, path, w), path, e.index)
      BY <2>1, <2>2, <2>3, ResolveIs
    <3> QED
      BY <2>2, <3>1 DEF IsFile, SaysFirst
  <2> QED
    BY <1>3, <2>4 DEF Meant
<1>4. e.type # "none"
  BY DEF EntryTrue
<1> QED
  BY <1>1, <1>2, <1>3, <1>4 DEF Entry

\* g is a true table with the functions of h.
AsGood(h, g, path, w) ==
  g \in Cmds /\ Trusted(g, path, w) /\ FunctionsOf(g) = FunctionsOf(h)

\* A true entry put in the place of one that is no function.
LEMMA FoundKeeps ==
  ASSUME NEW h \in Cmds, NEW c \in Command, NEW e \in Entry, NEW path, NEW w,
         Trusted(h, path, w), NEW keep \in BOOLEAN,
         keep => /\ EntryTrue(e, h.builtinloc, c, path, w)
                 /\ e.type # "function" /\ h.tab[c].type # "function"
  PROVE  AsGood(h, IF keep THEN addcmdentry(h, c, e) ELSE h, path, w)
<1>1. CASE ~ keep
  BY <1>1 DEF AsGood
<1>2. CASE keep
  <2> DEFINE g == addcmdentry(h, c, e)
  <2>1. g \in Cmds /\ g.tab = [h.tab EXCEPT ![c] = e]
    BY CommandTypes
  <2>2. Trusted(g, path, w)
    BY <1>2, AddTrue
  <2>3. h.tab \in [Command -> Entry]
    BY DEF Cmds
  <2> HIDE DEF g
  <2>4. FunctionsOf(g) = FunctionsOf(h)
    BY <1>2, <2>1, <2>3 DEF FunctionsOf
  <2> QED
    BY <1>2, <2>1, <2>2, <2>4 DEF g, AsGood
<1> QED
  BY <1>1, <1>2

\* find_command does what it is to do.
LEMMA FindIs ==
  ASSUME NEW h \in Cmds, NEW path \in Value \cup {None}, NEW w, NEW c \in Command, NEW act,
         NEW p \in Value \cup {None}, "altpath" \notin act => p = path, Trusted(h, path, w)
  PROVE  FindsRight(h, c, act, path, p, w, find_command(h, c, act, p, w))
<1> DEFINE e == h.tab[c]
           barred == act \cap Bits(e)
           keep == "altpath" \notin act /\ barred = {}
           known == IF barred = {} THEN e ELSE Missing
           r == find_command(h, c, act, p, w)
           b == h.builtinloc
<1>1. e \in Entry /\ b = PlaceOfBuiltins(path) /\ b \in Int /\ EntryTrue(e, b, c, path, w)
  BY CommandTypes DEF Trusted, Cmds
<1>2. Missing \in Entry /\ BuiltinEntry \in Entry /\ BuiltinEntry.type = "builtin"
      /\ BuiltinEntry.rehash = FALSE /\ Missing.rehash = FALSE /\ Missing.type = "none"
  BY DEF Missing, BuiltinEntry, Entry
<1>3. known \in Entry
  BY <1>1, <1>2
<1>4. c \in FunctionsOf(h) <=> e.type = "function"
  BY DEF FunctionsOf
\* A function is found unless it is not asked for.
<1>5. known = Missing \/ known.rehash => c \notin FunctionsOf(h) \/ "nofunc" \in act
  <2> SUFFICES ASSUME known = Missing \/ known.rehash, e.type = "function", "nofunc" \notin act
               PROVE  FALSE
    BY <1>4
  <2>1. Bits(e) = {"nofunc"}
    BY DEF Bits
  <2>2. barred = {}
    BY <2>1
  <2>3. ~ e.rehash /\ e # Missing
    BY <1>1, <1>2 DEF EntryTrue
  <2> QED
    BY <2>2, <2>3
<1>6. (known = Missing \/ known.rehash) /\ keep => e.type # "function"
  BY <1>1, <1>2 DEF EntryTrue
<1>7. CASE "regbltin" \in barred
  <2>1. r = Answer(h, Missing)
    BY <1>7 DEF find_command
  <2>2. "regbltin" \in act
    BY <1>7
  <2> HIDE DEF r
  <2> QED
    BY <2>1, <2>2 DEF Answer, FindsRight, r
<1>8. CASE "regbltin" \notin barred /\ known # Missing /\ ~ known.rehash
  <2>1. r = Answer(h, known)
    BY <1>8 DEF find_command
  <2>2. barred = {} /\ known = e
    BY <1>8
  <2>3. e.type = "normal" => "altpath" \notin act
    BY <2>2 DEF Bits
  <2>4. Meant(e, p) = Resolve(FunctionsOf(h), c, act, p, w)
    <3> HIDE DEF e
    <3> QED
      BY <1>1, <1>4, <1>8, <2>2, <2>3, KnownIsRight
  <2> HIDE DEF r, e, known
  <2> QED
    BY <2>1, <2>2, <2>4 DEF Answer, FindsRight, r
<1>9. CASE "regbltin" \notin barred /\ (known = Missing \/ known.rehash)
  <2>0. r = IF c \in Builtin /\ ("altpath" \in act \/ b <= 0)
            THEN Found(h, c, BuiltinEntry, keep)
            ELSE IF "regbltin" \in act THEN Answer(h, Missing)
            ELSE Searched(h, c, p, w, known, keep)
    BY <1>9 DEF find_command
  <2>1. CASE c \in Builtin /\ ("altpath" \in act \/ b <= 0)
    <3>1. r = Found(h, c, BuiltinEntry, keep)
      BY <2>0, <2>1
    <3>2. keep => EntryTrue(BuiltinEntry, b, c, path, w)
      BY <1>1, <1>2, <2>1 DEF EntryTrue, BuiltinTrue
    <3>3. AsGood(h, IF keep THEN addcmdentry(h, c, BuiltinEntry) ELSE h, path, w)
      <4>1. keep \in BOOLEAN /\ (keep => h.tab[c].type # "function")
        BY <1>6, <1>9
      <4> HIDE DEF keep
      <4> QED
        BY ONLY h \in Cmds, c \in Command, Trusted(h, path, w), <1>2, <3>2, <4>1, FoundKeeps
    <3>4. Resolve(FunctionsOf(h), c, act, p, w) = "builtin"
      <4>1. "altpath" \in act \/ PlaceOfBuiltins(p) <= 0
        BY <1>1, <2>1
      <4> HIDE DEF known, e
      <4> QED
        BY <1>5, <1>9, <2>1, <4>1, ResolveIs
    <3>5. Meant(BuiltinEntry, p) = "builtin"
      BY <1>2 DEF Meant
    <3> HIDE DEF keep, r
    <3> QED
      BY <3>1, <3>3, <3>4, <3>5 DEF Found, Answer, FindsRight, AsGood, r
  <2>2. CASE ~ (c \in Builtin /\ ("altpath" \in act \/ b <= 0)) /\ "regbltin" \in act
    <3>1. r = Answer(h, Missing)
      BY <2>0, <2>2
    <3> HIDE DEF r
    <3> QED
      BY <2>2, <3>1 DEF Answer, FindsRight, r
  <2>3. CASE ~ (c \in Builtin /\ ("altpath" \in act \/ b <= 0)) /\ "regbltin" \notin act
    <3> DEFINE prev == IF ~known.rehash THEN -1
                       ELSE IF known.type = "builtin" THEN b ELSE known.index
               stops == Stops(p, w, c, prev)
               i == Min(stops)
               f == IF At(p, i) = "%builtin" THEN BuiltinEntry ELSE Normal(i)
               first == "altpath" \in act \/ PlaceOfBuiltins(p) <= 0
    <3>1. r = IF stops = {} THEN Answer(IF keep THEN addcmdentry(h, c, Missing) ELSE h, Missing)
              ELSE Found(h, c, f, keep)
      BY <2>0, <2>3 DEF Searched
    <3>2. /\ known = Missing \/ (known.rehash /\ known.type \in {"builtin", "normal"} /\ p = path)
          /\ EntryTrue(known, PlaceOfBuiltins(p), c, p, w)
      <4>1. CASE known = Missing
        BY <4>1, PlainTrue
      <4>2. CASE known # Missing
        <5>1. known = e /\ barred = {} /\ e.rehash
          BY <1>9, <4>2
        <5>2. e.type \in {"builtin", "normal"}
          BY <1>1, <4>2, <5>1 DEF Entry, EntryTrue
        <5>3. "altpath" \notin act
          BY <1>1, <2>3, <5>1, <5>2 DEF Bits, EntryTrue, BuiltinTrue
        <5> HIDE DEF e, known
        <5> QED
          BY <1>1, <5>1, <5>2, <5>3
      <4> QED
        BY <4>1, <4>2
    <3>3. prev = IF ~known.rehash THEN -1
                 ELSE IF known.type = "builtin" THEN PlaceOfBuiltins(p) ELSE known.index
      BY <1>1, <1>2, <3>2
    <3>4. /\ stops = {} => NothingAt(p, w, c)
          /\ stops # {} => FirstAt(p, w, c, i)
      <4> HIDE DEF prev, known
      <4> QED
        BY <1>3, <3>2, <3>3, StopsAre
    <3>5. c \in Builtin => p = path /\ PlaceOfBuiltins(p) > 0
      BY <1>1, <2>3
    <3>6. ~ (c \in Builtin /\ first)
      <4>1. c \in Builtin => "altpath" \notin act
        BY <2>3
      <4>2. PlaceOfBuiltins(p) \in Int
        BY PlaceOfBuiltinsIs
      <4> QED
        BY <3>5, <4>1, <4>2
    <3>a. first <=> "altpath" \in act \/ PlaceOfBuiltins(p) <= 0
      OBVIOUS
    <3> HIDE DEF prev, stops, i, r, first
    <3>7. CASE stops = {}
      <4>1. r = Answer(IF keep THEN addcmdentry(h, c, Missing) ELSE h, Missing)
        BY <3>1, <3>7
      <4>2. AsGood(h, IF keep THEN addcmdentry(h, c, Missing) ELSE h, path, w)
        <5>1. EntryTrue(Missing, b, c, path, w)
          BY PlainTrue
        <5> QED
          <6>1. keep \in BOOLEAN /\ (keep => h.tab[c].type # "function")
            BY <1>6, <1>9
          <6> HIDE DEF keep
          <6> QED
            BY ONLY h \in Cmds, c \in Command, Trusted(h, path, w), <1>2, <5>1, <6>1, FoundKeeps
      <4>3. Resolve(FunctionsOf(h), c, act, p, w) = "none"
        <5>1. c \notin FunctionsOf(h) \/ "nofunc" \in act
          BY <1>5, <1>9
        <5>2. NothingAt(p, w, c)
          BY <3>4, <3>7
        <5> QED
          BY <3>6, <3>a, <5>1, <5>2, ResolveIs
      <4>4. Meant(Missing, p) = "none"
        BY <1>2 DEF Meant
      <4> HIDE DEF keep
      <4> QED
        BY <4>1, <4>2, <4>3, <4>4 DEF Answer, FindsRight, AsGood, r
    <3>8. CASE stops # {}
      <4>1. r = Found(h, c, f, keep)
        BY <3>1, <3>8
      <4>2. FirstAt(p, w, c, i)
        BY <3>4, <3>8
      <4>3. f \in Entry /\ EntryTrue(f, PlaceOfBuiltins(p), c, p, w)
        BY <3>5, <4>2, FirstIsTrue
      <4>4. f.type # "function" /\ Meant(f, p) = IF At(p, i) = "%builtin" THEN "builtin"
                                                ELSE At(p, i)
        BY DEF BuiltinEntry, Normal, Meant
      <4> HIDE DEF f
      <4>5. AsGood(h, IF keep THEN addcmdentry(h, c, f) ELSE h, path, w)
        <5>1. keep => EntryTrue(f, b, c, path, w)
          BY <1>1, <4>3
        <5> QED
          <6>1. keep \in BOOLEAN /\ (keep => h.tab[c].type # "function")
            BY <1>6, <1>9
          <6> HIDE DEF keep
          <6> QED
            BY ONLY h \in Cmds, c \in Command, Trusted(h, path, w), <4>3, <4>4, <5>1, <6>1,
                    FoundKeeps
      <4>6. Resolve(FunctionsOf(h), c, act, p, w) = Meant(f, p)
        <5>1. c \notin FunctionsOf(h) \/ "nofunc" \in act
          BY <1>5, <1>9
        <5>2. SaysFirst(Resolve(FunctionsOf(h), c, act, p, w), p, i)
          BY <3>6, <3>a, <4>2, <5>1, ResolveIs
        <5> QED
          BY <4>4, <5>2 DEF SaysFirst
      <4> HIDE DEF keep
      <4> QED
        BY <4>1, <4>5, <4>6 DEF Found, Answer, FindsRight, AsGood, r
    <3> QED
      BY <3>7, <3>8
  <2> QED
    BY <2>1, <2>2, <2>3
<1> QED
  BY <1>7, <1>8, <1>9

-----------------------------------------------------------------------------
(* What every call on the variables keeps.                                 *)

\* No user makes PWD or OLDPWD readonly: cd does not fail when it has already changed
\* the directory.
Unprotectable == {"PWD", "OLDPWD"} \cap Protectable = {}

\* PATH is a variable that cannot be removed, not even by the end of a scope, and PWD
\* and OLDPWD can be set.
Fine(n, flags) ==
  /\ n = "PATH" => "STRFIXED" \in flags
  /\ Unprotectable /\ n \in {"PWD", "OLDPWD"} => "READONLY" \notin flags
AllFine(t, stk) ==
  /\ t["PATH"].here
  /\ \A n \in Name : Fine(n, t[n].flags)
  /\ \A i, j \in Nat : Place(stk, i, j) => Fine(stk[i][j].name, stk[i][j].flags)

Kept(m) ==
  /\ m \in Machine /\ Bounded(m.stk)
  /\ Ownership(m.vars, m.stk, m.dead)
  /\ AllFine(m.vars, m.stk)

\* The table of commands is true for the PATH of m.
PathOf(m) == m.vars["PATH"].text.val
Told(m, w) == Trusted(m.cmds, PathOf(m), w)

\* From m a call makes r.
Follows(m, r) ==
  /\ Kept(r) /\ Len(r.stk) = Len(m.stk)
  /\ \A w : Told(m, w) => Told(r, w)

\* What setvareq makes r of m.
AsSet(m, n, r) ==
  /\ Follows(m, r) /\ r.stk = m.stk
  /\ n # "PATH" => r.cmds = m.cmds /\ PathOf(r) = PathOf(m)
  /\ "READONLY" \notin m.vars[n].flags => r.err = m.err

\* One call follows another.
LEMMA FollowsOn ==
  ASSUME NEW a, NEW b, NEW c, Follows(a, b), Follows(b, c)
  PROVE  Follows(a, c)
BY DEF Follows

\* The parts of what the calls work on.
LEMMA MachineHas ==
  ASSUME NEW m \in Machine, NEW n \in Name
  PROVE  /\ m.vars \in [Name -> Var] /\ m.vars[n] \in Var
         /\ m.vars[n].flags \in SUBSET Flag /\ m.vars[n].here \in BOOLEAN
         /\ m.vars[n].text \in Text /\ m.vars[n].text.val \in Value \cup {None}
         /\ m.stk \in Seq(Seq(Saved)) /\ m.dead \in SUBSET (Name \X (1 .. Blocks))
         /\ m.cmds \in Cmds /\ m.err \in BOOLEAN /\ "PATH" \in Name
<1>1. m.vars \in [Name -> Var] /\ m.vars[n] \in Var
  BY DEF Machine
<1>2. m.vars[n].flags \in SUBSET Flag /\ m.vars[n].here \in BOOLEAN /\ m.vars[n].text \in Text
  BY <1>1 DEF Var
<1>3. m.vars[n].text.val \in Value \cup {None}
  BY <1>2 DEF Text
<1> QED
  BY <1>1, <1>2, <1>3 DEF Machine

\* An error changes nothing else.
LEMMA RefusedFollows ==
  ASSUME NEW m, Kept(m)
  PROVE  /\ Follows(m, Refused(m)) /\ Refused(m).vars = m.vars /\ Refused(m).cmds = m.cmds
         /\ Refused(m).stk = m.stk
<1> DEFINE r == Refused(m)
<1>1. r \in Machine /\ r.vars = m.vars /\ r.stk = m.stk /\ r.dead = m.dead /\ r.cmds = m.cmds
  BY DEF Refused, Kept, Machine
<1> HIDE DEF r
<1>2. Kept(r) /\ \A w : Told(m, w) <=> Told(r, w)
  BY <1>1 DEF Kept, Told, PathOf
<1> QED
  BY <1>1, <1>2 DEF Follows, r

\* setvareq keeps what is to be kept, and tells the table of commands of a new PATH.
LEMMA SetFollows ==
  ASSUME NEW m, Kept(m), NEW n \in Name, NEW val \in Value \cup {None},
         NEW given \in SUBSET Flag,
         Unprotectable /\ n \in {"PWD", "OLDPWD"} => "READONLY" \notin given
  PROVE  AsSet(m, n, setvareq(m, n, val, given))
<1> DEFINE r == setvareq(m, n, val, given)
           v == m.vars[n]
<1>1. m \in Machine /\ Bounded(m.stk)
  BY DEF Kept
<1>2. /\ r \in Machine /\ r.stk = m.stk
      /\ "READONLY" \in v.flags => r = Refused(m)
      /\ "READONLY" \notin v.flags => \E w \in Var : SetTo(m, n, val, given, w, r)
  <2>1. Refused(m) = [m EXCEPT !.err = TRUE]
    BY DEF Refused
  <2> QED
    BY ONLY <1>1, <2>1, n \in Name, val \in Value \cup {None}, given \in SUBSET Flag, SetvareqIs
<1> HIDE DEF r
<1>3. CASE "READONLY" \in v.flags
  BY <1>2, <1>3, RefusedFollows DEF AsSet, r, PathOf
<1>4. CASE "READONLY" \notin v.flags
  <2>1. PICK w \in Var : SetTo(m, n, val, given, w, r)
    BY <1>2, <1>4
  <2>2. r.vars = [m.vars EXCEPT ![n] = w] /\ r.err = m.err
    BY <2>1 DEF SetTo
  <2>3. /\ m.vars \in [Name -> Var] /\ v.flags \in SUBSET Flag
        /\ m.dead \in SUBSET (Name \X (1 .. Blocks)) /\ m.cmds \in Cmds
    BY <1>1, MachineHas
  <2>4. r.vars[n] = w /\ \A x \in Name : x # n => r.vars[x] = m.vars[x]
    BY <2>2, <2>3
  <2>5. n = "PATH" => BecomesSet(m.stk, n, v, val, given, w) /\ v.here /\ "STRFIXED" \in v.flags
    <3>1. n = "PATH" => v.here /\ "STRFIXED" \in v.flags
      BY DEF Kept, AllFine, Fine
    <3> QED
      BY <2>1, <3>1 DEF SetTo, BecomesGone
  <2>6. Ownership(r.vars, r.stk, r.dead)
    <3>1. Ownership(m.vars, m.stk, m.dead)
      BY DEF Kept
    <3>2. Owned(w) => ~ Holds(m.stk, n, w.text.block)
      BY <2>1 DEF SetTo, BecomesGone, BecomesSet, Gone, NoText, Owned
    <3>3. /\ r.dead \subseteq m.dead \cup (IF Owned(m.vars[n])
                                           THEN {<<n, m.vars[n].text.block>>} ELSE {})
          /\ <<n, w.text.block>> \notin r.dead \/ w.text.block = 0
      BY <2>1 DEF SetTo
    <3>4. Ownership([m.vars EXCEPT ![n] = w], m.stk, r.dead)
      BY ONLY <2>3, <3>1, <3>2, <3>3, n \in Name, w \in Var, OwnWrite
    <3> QED
      BY <1>2, <2>2, <3>4
  <2>7. AllFine(r.vars, r.stk)
    <3>1. Fine(n, w.flags)
      <4>1. CASE BecomesSet(m.stk, n, v, val, given, w)
        <5>1. n = "PATH" => "STRFIXED" \in w.flags
          BY <2>5 DEF BecomesSet
        <5>2. Unprotectable /\ n \in {"PWD", "OLDPWD"} => "READONLY" \notin w.flags
          BY <1>4, <4>1 DEF BecomesSet
        <5> QED
          BY <5>1, <5>2 DEF Fine
      <4>2. CASE BecomesGone(v, given, w)
        <5>1. n # "PATH"
          BY <2>5, <4>2 DEF BecomesGone
        <5> QED
          BY <4>2, <5>1 DEF BecomesGone, Gone, Fine
      <4> QED
        BY <2>1, <4>1, <4>2 DEF SetTo
    <3>2. r.vars["PATH"].here
      BY <2>4, <2>5 DEF BecomesSet, Kept, AllFine
    <3> QED
      BY <1>2, <2>4, <3>1, <3>2 DEF Kept, AllFine
  <2>8. n # "PATH" => r.cmds = m.cmds /\ PathOf(r) = PathOf(m)
    BY <2>1, <2>4 DEF SetTo, PathOf
  <2>9. ASSUME NEW d, Told(m, d)
        PROVE  Told(r, d)
    <3>1. CASE n = "PATH"
      <4>1. r.cmds = changepath(m.cmds, val) /\ PathOf(r) = val
        BY <2>1, <2>4, <2>5, <3>1 DEF SetTo, PathOf, BecomesSet
      <4>2. Trusted(m.cmds, PathOf(m), d)
        BY <2>9 DEF Told
      <4> QED
        BY <2>3, <4>1, <4>2, ChangepathTrue DEF Told
    <3>2. CASE n # "PATH"
      BY <2>8, <2>9, <3>2 DEF Told
    <3> QED
      BY <3>1, <3>2
  <2>10. Follows(m, r)
    BY <1>1, <1>2, <2>6, <2>7, <2>9 DEF Follows, Kept
  <2> QED
    BY <1>2, <2>2, <2>8, <2>10 DEF AsSet, r
<1> QED
  BY <1>3, <1>4

\* What a change of marks makes r of m.
AsMarked(m, n, marks, r) ==
  /\ Follows(m, r) /\ r.stk = m.stk /\ r.err = m.err /\ r.cmds = m.cmds
  /\ r.vars[n].flags = marks /\ r.vars[n].text = m.vars[n].text
  /\ PathOf(r) = PathOf(m)

\* Marks are added or taken away, TEXTFIXED not.
LEMMA MarkFollows ==
  ASSUME NEW m, Kept(m), NEW n \in Name, NEW marks \in SUBSET Flag, Fine(n, marks),
         "TEXTFIXED" \in m.vars[n].flags => "TEXTFIXED" \in marks
  PROVE  AsMarked(m, n, marks, [m EXCEPT !.vars[n].flags = marks])
<1> DEFINE w == [m.vars[n] EXCEPT !.flags = marks]
           t == [m.vars EXCEPT ![n] = w]
           r == [m EXCEPT !.vars[n].flags = marks]
<1>1. m \in Machine /\ m.vars \in [Name -> Var] /\ m.vars[n] \in Var
  BY MachineHas DEF Kept
<1>2. w \in Var /\ w.text = m.vars[n].text /\ w.flags = marks /\ w.here = m.vars[n].here
  BY <1>1 DEF Var
<1>3. r = [m EXCEPT !.vars = t]
  BY <1>1
<1> HIDE DEF w, r
<1>4. t \in [Name -> Var] /\ t[n] = w /\ \A x \in Name : x # n => t[x] = m.vars[x]
  BY <1>1, <1>2
<1>5. Ownership(t, m.stk, m.dead)
  BY <1>1, <1>2, OwnMark DEF Kept
<1> HIDE DEF t
<1>6. /\ r \in Machine /\ r.vars = t /\ r.stk = m.stk /\ r.dead = m.dead /\ r.cmds = m.cmds
      /\ r.err = m.err
  BY <1>1, <1>3, <1>4 DEF Machine
<1>7. AllFine(t, m.stk)
  BY <1>2, <1>4 DEF Kept, AllFine
<1>8. PathOf(r) = PathOf(m)
  BY <1>2, <1>4, <1>6 DEF PathOf
<1>9. Follows(m, r)
  BY <1>5, <1>6, <1>7, <1>8 DEF Follows, Kept, Told
<1> QED
  BY <1>2, <1>4, <1>6, <1>8, <1>9 DEF r, AsMarked

\* A variable is saved.
LEMMA LinkFollows ==
  ASSUME NEW m, Kept(m), m.stk # <<>>, Len(m.stk[Len(m.stk)]) < MaxLocals,
         NEW l \in Saved, Fine(l.name, l.flags),
         \/ l.text.block = 0
         \/ /\ l.name \in Name /\ l.text = m.vars[l.name].text /\ ~ Owned(m.vars[l.name])
            /\ Owned(l) => ~ Holds(m.stk, l.name, l.text.block)
  PROVE  /\ Follows(m, Link(m, l)) /\ Link(m, l).vars = m.vars
         /\ Link(m, l).err = m.err /\ Link(m, l).cmds = m.cmds
<1> DEFINE s == Linked(m.stk, l)
           r == Link(m, l)
<1>1. /\ m \in Machine /\ m.vars \in [Name -> Var] /\ m.stk \in Seq(Seq(Saved))
      /\ m.dead \in SUBSET (Name \X (1 .. Blocks))
  BY MachineHas, NameAssumption DEF Kept
<1>2. r = [m EXCEPT !.stk = s]
  BY <1>1 DEF Link, Linked
<1>3. /\ s \in Seq(Seq(Saved)) /\ Len(s) = Len(m.stk)
      /\ \A i \in 1 .. Len(m.stk) :
           Len(s[i]) = IF i = Len(m.stk) THEN Len(m.stk[i]) + 1 ELSE Len(m.stk[i])
      /\ Extends(s, m.stk, l)
  <2> HIDE DEF s
  <2> QED
    BY ONLY <1>1, m.stk # <<>>, l \in Saved, LinkPlaces DEF s
<1>4. Ownership(m.vars, s, m.dead)
  <2>1. Ownership(m.vars, m.stk, m.dead)
    BY DEF Kept
  <2> QED
    BY <1>1, <2>1, OwnLink
<1> HIDE DEF s, r
<1>5. /\ r \in Machine /\ r.vars = m.vars /\ r.stk = s /\ r.dead = m.dead /\ r.cmds = m.cmds
      /\ r.err = m.err
  BY <1>1, <1>2, <1>3 DEF Machine
<1>6. Bounded(s)
  <2>1. Bounded(m.stk) /\ \A i \in 1 .. Len(m.stk) : Len(m.stk[i]) \in Nat
    BY <1>1 DEF Kept
  <2>2. Len(m.stk[Len(m.stk)]) + 1 <= MaxLocals
    <3>1. Len(m.stk) \in 1 .. Len(m.stk)
      BY <1>1, EmptySeq
    <3> QED
      BY <2>1, <3>1
  <2> QED
    BY <1>3, <2>1, <2>2 DEF Bounded
<1>7. AllFine(m.vars, s)
  <2>1. ASSUME NEW i \in Nat, NEW j \in Nat, Place(s, i, j)
        PROVE  Fine(s[i][j].name, s[i][j].flags)
    <3>1. CASE Place(m.stk, i, j)
      BY <1>3, <3>1 DEF Extends, Kept, AllFine
    <3>2. CASE ~ Place(m.stk, i, j)
      BY <1>3, <2>1, <3>2 DEF Extends
    <3> QED
      BY <3>1, <3>2
  <2> QED
    BY <2>1 DEF Kept, AllFine
<1>8. Follows(m, r)
  BY <1>3, <1>4, <1>5, <1>6, <1>7 DEF Follows, Kept, Told, PathOf
<1> QED
  BY <1>5, <1>8 DEF r

\* mklocal saves a variable, which from then on only borrows its text, and may set it.
LEMMA MklocalFollows ==
  ASSUME NEW m, Kept(m), m.stk # <<>>, Len(m.stk[Len(m.stk)]) < MaxLocals,
         NEW n \in Name, NEW val \in Value \cup {None}, NEW flags \in SUBSET {"EXPORT"}
  PROVE  Follows(m, mklocal(m, n, val, flags))
<1> DEFINE v == m.vars[n]
           given == flags \cup {"STRFIXED"} \cup (IF val = None THEN {"UNSET"} ELSE {})
           new == setvareq(m, n, val, given)
           fresh == [name |-> n, flags |-> {"UNSET"}, text |-> NoText, on |-> FALSE]
           mine == [name |-> n, flags |-> v.flags, text |-> v.text, on |-> FALSE]
           lent == Borrowed(m, n)
           old == Link(lent, mine)
           set == IF val = None THEN old ELSE setvareq(old, n, val, flags)
           r == mklocal(m, n, val, flags)
<1>1. /\ ~ v.here => r = Link(new, fresh)
      /\ v.here /\ ~ set.err => r = set
      /\ v.here /\ set.err => r = Refused(lent)
  BY DEF mklocal
<1>2. /\ m \in Machine /\ v.flags \in SUBSET Flag /\ v.text \in Text /\ v.here \in BOOLEAN
      /\ Fine(n, v.flags)
  BY MachineHas DEF Kept, AllFine
<1>3. given \in SUBSET Flag /\ flags \in SUBSET Flag
  BY DEF Flag
<1>4. "READONLY" \notin given /\ "READONLY" \notin flags
  OBVIOUS
<1>5. CASE ~ v.here
  <2>1. AsSet(m, n, new)
    <3> HIDE DEF given
    <3> QED
      BY <1>3, <1>4, SetFollows
  <2>2. fresh \in Saved /\ fresh.name = n /\ fresh.flags = {"UNSET"} /\ fresh.text.block = 0
    BY BlocksType DEF Saved, Flag, Text, NoText
  <2>3. Fine(n, {"UNSET"})
    BY <1>5 DEF Kept, AllFine, Fine
  <2> HIDE DEF new, fresh, r
  <2>4. Follows(new, Link(new, fresh))
    <3>1. Kept(new) /\ new.stk = m.stk
      BY <2>1 DEF AsSet, Follows
    <3> QED
      BY <2>2, <2>3, <3>1, LinkFollows
  <2>5. Follows(m, r)
    BY <1>1, <1>5, <2>1, <2>4, FollowsOn DEF AsSet
  <2> QED
    BY <2>5 DEF r
<1>6. CASE v.here
  <2> DEFINE marks == v.flags \cup {"STRFIXED", "TEXTFIXED"}
  <2>1. marks \in SUBSET Flag /\ Fine(n, marks)
    BY <1>2 DEF Flag, Fine
  <2>2. lent = [m EXCEPT !.vars[n].flags = marks]
    BY DEF Borrowed
  <2> HIDE DEF lent, marks
  <2>3. /\ Follows(m, lent) /\ lent.stk = m.stk /\ lent.vars[n].flags = marks
        /\ lent.vars[n].text = v.text
    <3>1. "TEXTFIXED" \in m.vars[n].flags => "TEXTFIXED" \in marks
      BY DEF marks
    <3>2. AsMarked(m, n, marks, lent)
      BY <2>1, <2>2, <3>1, MarkFollows
    <3> QED
      BY <3>2 DEF AsMarked
  <2>4. mine \in Saved /\ mine.name = n /\ mine.flags = v.flags /\ mine.text = v.text
    BY <1>2 DEF Saved
  <2>5. ~ Owned(lent.vars[n])
    BY <2>3 DEF Owned, marks
  <2>6. Owned(mine) => ~ Holds(lent.stk, n, mine.text.block)
    BY <2>3, <2>4 DEF Owned, Kept, Ownership, Unshared
  <2> HIDE DEF mine
  <2>7. Follows(lent, old)
    <3>1. Kept(lent)
      BY <2>3 DEF Follows
    <3> HIDE DEF v
    <3> QED
      BY <1>2, <2>3, <2>4, <2>5, <2>6, <3>1, LinkFollows
  <2> HIDE DEF old
  <2>8. Follows(m, old)
    BY <2>3, <2>7, FollowsOn
  <2>9. Follows(m, set)
    <3>1. CASE val = None
      BY <2>8, <3>1
    <3>2. CASE val # None
      <4>1. AsSet(old, n, setvareq(old, n, val, flags))
        BY <1>3, <1>4, <2>8, SetFollows DEF Follows
      <4> QED
        BY <2>8, <3>2, <4>1, FollowsOn DEF AsSet
    <3> QED
      BY <3>1, <3>2
  <2>10. Follows(m, Refused(lent))
    <3>1. Kept(lent)
      BY <2>3 DEF Follows
    <3> QED
      BY <2>3, <3>1, RefusedFollows, FollowsOn
  <2> HIDE DEF set, r
  <2>11. Follows(m, r)
    BY <1>1, <1>6, <2>9, <2>10
  <2> QED
    BY <2>11 DEF r
<1> QED
  BY <1>2, <1>5, <1>6

\* The stack with the last saved variable of the last scope taken away.
Popped(stk) == [stk EXCEPT ![Len(stk)] = Front(@)]

\* What is to be left of it: s.
IsPopped(s, stk, n, k) ==
  /\ s \in Seq(Seq(Saved)) /\ Len(s) = Len(stk) /\ Place(stk, n, k)
  /\ n \in Nat /\ k \in Nat
  /\ \A i \in 1 .. Len(stk) : Len(s[i]) <= Len(stk[i])
  /\ \A i, j \in Nat : Place(s, i, j) =>
       Place(stk, i, j) /\ s[i][j] = stk[i][j] /\ Earlier(i, j, n, k)

\* What is left of it was there before, below the place that is gone.
LEMMA PoppedIs ==
  ASSUME NEW stk \in Seq(Seq(Saved)), stk # <<>>, stk[Len(stk)] # <<>>
  PROVE  IsPopped(Popped(stk), stk, Len(stk), Len(stk[Len(stk)]))
<1> DEFINE n == Len(stk)
           u == stk[n]
           k == Len(u)
           s == Popped(stk)
<1>1. n \in 1 .. Len(stk) /\ n \in Nat
  BY EmptySeq
<1>2. u \in Seq(Saved) /\ u # <<>> /\ k \in Nat /\ k >= 1
  BY <1>1, EmptySeq
<1>3. /\ Front(u) \in Seq(Saved) /\ Len(Front(u)) = k - 1
      /\ \A j \in 1 .. k - 1 : Front(u)[j] = u[j]
  <2>1. Front(u) = SubSeq(u, 1, k - 1)
    BY DEF Front
  <2>2. \A j \in 1 .. k - 1 : u[j] \in Saved
    BY <1>2
  <2> HIDE DEF u, k
  <2>3. k - 1 \in Int /\ 1 \in Int
    BY <1>2
  <2>4. /\ SubSeq(u, 1, k - 1) \in Seq(Saved)
        /\ Len(SubSeq(u, 1, k - 1)) = IF 1 <= k - 1 THEN (k - 1) - 1 + 1 ELSE 0
        /\ \A i \in 1 .. (k - 1) - 1 + 1 : SubSeq(u, 1, k - 1)[i] = u[1 + i - 1]
    BY ONLY <2>2, <2>3, SubSeqProperties
  <2> QED
    BY <1>2, <2>1, <2>4
<1>4. s = [stk EXCEPT ![n] = Front(u)]
  BY DEF Popped
<1>5. /\ s \in Seq(Seq(Saved)) /\ Len(s) = n /\ s[n] = Front(u)
      /\ \A i \in 1 .. n : i # n => s[i] = stk[i]
  <2> HIDE DEF u
  <2> QED
    BY <1>1, <1>3, <1>4
<1>6. \A i \in 1 .. n : Len(stk[i]) \in Nat
  OBVIOUS
<1> HIDE DEF s
<1>7. \A i \in 1 .. n : Len(s[i]) <= Len(stk[i])
  BY <1>2, <1>3, <1>5, <1>6
<1>8. Place(stk, n, k)
  BY <1>1, <1>2 DEF Place
<1>9. ASSUME NEW i \in Nat, NEW j \in Nat, Place(s, i, j)
      PROVE  Place(stk, i, j) /\ s[i][j] = stk[i][j] /\ Earlier(i, j, n, k)
  <2>1. CASE i = n
    <3>1. j \in 1 .. k - 1
      BY <1>2, <1>3, <1>5, <1>9, <2>1 DEF Place
    <3> QED
      BY <1>1, <1>2, <1>3, <1>5, <2>1, <3>1 DEF Place, Earlier
  <2>2. CASE i # n
    <3>1. i \in 1 .. n /\ s[i] = stk[i] /\ i < n
      BY <1>1, <1>5, <1>9, <2>2 DEF Place
    <3> QED
      BY <1>5, <1>9, <3>1 DEF Place, Earlier
  <2> QED
    BY <2>1, <2>2
<1> QED
  BY <1>1, <1>2, <1>5, <1>7, <1>8, <1>9 DEF s, IsPopped

\* A saved variable is taken from the stack.
LEMMA PoppedFollows ==
  ASSUME NEW m, Kept(m), m.stk # <<>>, m.stk[Len(m.stk)] # <<>>
  PROVE  LET r == [m EXCEPT !.stk = Popped(m.stk)]
         IN  Follows(m, r) /\ r.stk = Popped(m.stk) /\ r.vars = m.vars /\ r.dead = m.dead
<1> DEFINE s == Popped(m.stk)
           r == [m EXCEPT !.stk = s]
<1>1. m \in Machine /\ m.stk \in Seq(Seq(Saved))
  BY MachineHas, NameAssumption DEF Kept
<1>2. /\ s \in Seq(Seq(Saved)) /\ Len(s) = Len(m.stk)
      /\ \A i \in 1 .. Len(m.stk) : Len(s[i]) <= Len(m.stk[i])
      /\ \A i, j \in Nat : Place(s, i, j) => Place(m.stk, i, j) /\ s[i][j] = m.stk[i][j]
  <2>1. IsPopped(s, m.stk, Len(m.stk), Len(m.stk[Len(m.stk)]))
    BY <1>1, PoppedIs
  <2> HIDE DEF s
  <2> QED
    BY ONLY <2>1 DEF IsPopped
<1> HIDE DEF s
<1>3. /\ r \in Machine /\ r.vars = m.vars /\ r.stk = s /\ r.dead = m.dead /\ r.cmds = m.cmds
  BY <1>1, <1>2 DEF Machine
<1> HIDE DEF r
<1>4. Bounded(s)
  <2>1. \A i \in 1 .. Len(m.stk) : Len(s[i]) \in Nat /\ Len(m.stk[i]) \in Nat
    BY <1>1, <1>2
  <2> QED
    BY <1>2, <2>1 DEF Kept, Bounded
<1>5. Ownership(m.vars, s, m.dead)
  BY <1>2, OwnFewer DEF Kept
<1>6. AllFine(m.vars, s)
  BY <1>2 DEF Kept, AllFine
<1>7. Follows(m, r)
  BY <1>2, <1>3, <1>4, <1>5, <1>6 DEF Follows, Kept, Told, PathOf
<1> QED
  BY <1>3, <1>7 DEF r, s

\* One turn of poplocalvars: the variable is what it was when it was saved, and the table
\* of commands is told of the old PATH.
LEMMA RestoredFollows ==
  ASSUME NEW a, Kept(a), a.stk # <<>>, a.stk[Len(a.stk)] # <<>>,
         NEW l, l = a.stk[Len(a.stk)][Len(a.stk[Len(a.stk)])], l.name # "-"
  PROVE  Follows(a, Restored([a EXCEPT !.stk = Popped(a.stk)], l))
<1> DEFINE m == [a EXCEPT !.stk = Popped(a.stk)]
           n == l.name
           N == Len(a.stk)
           k == Len(a.stk[Len(a.stk)])
           r == Restored(m, l)
<1>1. /\ Follows(a, m) /\ m.stk = Popped(a.stk) /\ m.vars = a.vars /\ m.dead = a.dead
  BY PoppedFollows
<1>2. /\ a.stk \in Seq(Seq(Saved)) /\ m \in Machine /\ Kept(m)
  BY <1>1, MachineHas, NameAssumption DEF Kept, Follows
<1>3. /\ Place(a.stk, N, k) /\ N \in Nat /\ k \in Nat
      /\ \A i, j \in Nat : Place(m.stk, i, j) =>
           Place(a.stk, i, j) /\ m.stk[i][j] = a.stk[i][j] /\ Earlier(i, j, N, k)
  <2>1. IsPopped(Popped(a.stk), a.stk, N, k)
    BY <1>2, PoppedIs
  <2>2. m.stk = Popped(a.stk)
    BY <1>1
  <2> HIDE DEF m, N, k
  <2> QED
    BY ONLY <2>1, <2>2 DEF IsPopped
<1>4. /\ l \in Saved /\ l.flags \in SUBSET Flag /\ l.text \in Text /\ n \in Name
      /\ l.text.val \in Value \cup {None}
  <2>1. /\ l \in Saved /\ l.flags \in SUBSET Flag /\ l.text \in Text
        /\ l.name \in Name \cup {"-"}
    BY <1>2, <1>3, PlaceType
  <2> QED
    BY <2>1 DEF Text
<1>5. Fine(n, l.flags)
  BY <1>3 DEF Kept, AllFine
<1>6. m.vars \in [Name -> Var] /\ m.vars[n].flags \in SUBSET Flag /\ m.cmds \in Cmds
      /\ m.dead \in SUBSET (Name \X (1 .. Blocks))
  <2> HIDE DEF m
  <2> QED
    BY <1>2, <1>4, MachineHas
<1> HIDE DEF m, N, k
<1>7. CASE l.flags = {"UNSET"}
  <2> DEFINE marks == m.vars[n].flags \ {"STRFIXED", "READONLY"}
             c == [m EXCEPT !.vars[n].flags = marks]
  <2>1. r = setvareq(c, n, None, {"UNSET"})
    BY <1>7 DEF Restored, unsetvar
  <2>2. marks \in SUBSET Flag /\ ("TEXTFIXED" \in m.vars[n].flags => "TEXTFIXED" \in marks)
    BY <1>6
  <2>3. Fine(n, marks)
    BY <1>5, <1>7 DEF Fine
  <2>4. AsMarked(m, n, marks, c)
    <3> HIDE DEF marks, n
    <3> QED
      BY <1>2, <1>4, <2>2, <2>3, MarkFollows
  <2> HIDE DEF c, r
  <2>5. AsSet(c, n, setvareq(c, n, None, {"UNSET"}))
    <3>1. Kept(c) /\ {"UNSET"} \in SUBSET Flag
      BY <2>4 DEF AsMarked, Follows, Flag
    <3>2. None \in Value \cup {None} /\ "READONLY" \notin {"UNSET"}
      OBVIOUS
    <3> DEFINE u == {"UNSET"}
    <3>3. u \in SUBSET Flag /\ "READONLY" \notin u
      BY <3>1, <3>2
    <3> HIDE DEF n, u
    <3>4. AsSet(c, n, setvareq(c, n, None, u))
      BY ONLY <1>4, <3>1, <3>2, <3>3, SetFollows
    <3> QED
      BY <3>4 DEF u
  <2>6. Follows(a, r)
    BY <1>1, <2>1, <2>4, <2>5, FollowsOn DEF AsMarked, AsSet
  <2> QED
    BY <2>6 DEF r, m
<1>8. CASE l.flags # {"UNSET"}
  <2> DEFINE f == ckfree(func(m, n, l.text.val), n)
             w == [here |-> TRUE, flags |-> l.flags, text |-> l.text]
  <2>1. r = [f EXCEPT !.vars[n] = w]
    BY <1>8 DEF Restored
  <2>2. /\ f \in Machine /\ f.stk = m.stk /\ f.err = m.err
        /\ f.vars = [m.vars EXCEPT ![n].text = NoText]
        /\ f.cmds = (IF n = "PATH" THEN changepath(m.cmds, l.text.val) ELSE m.cmds)
        /\ f.dead = m.dead \cup (IF Owned(m.vars[n]) THEN {<<n, m.vars[n].text.block>>} ELSE {})
    <3> DEFINE c == IF n = "PATH" THEN changepath(m.cmds, l.text.val) ELSE m.cmds
               g == func(m, n, l.text.val)
    <3>1. Freed(m, n, c, ckfree(g, n))
      <4>1. g = func(m, n, l.text.val)
            /\ c = IF n = "PATH" THEN changepath(m.cmds, l.text.val) ELSE m.cmds
        OBVIOUS
      <4> HIDE DEF c, g, n
      <4> QED
        BY <1>2, <1>4, <4>1, FreeIs
    <3> QED
      BY <3>1 DEF Freed
  <2>3. w \in Var /\ w.text = l.text /\ w.flags = l.flags /\ w.here
    BY <1>4 DEF Var
  <2> HIDE DEF f, w, r
  <2>4. [f.vars EXCEPT ![n] = w] = [m.vars EXCEPT ![n] = w]
        /\ [m.vars EXCEPT ![n] = w] \in [Name -> Var]
    BY <1>4, <1>6, <2>2, <2>3
  <2>5. r = [f EXCEPT !.vars = [m.vars EXCEPT ![n] = w]]
    BY <2>1, <2>2, <2>4 DEF Machine
  <2>6. /\ r \in Machine /\ r.vars = [m.vars EXCEPT ![n] = w] /\ r.stk = m.stk
        /\ r.dead = f.dead /\ r.cmds = f.cmds
    BY <2>2, <2>4, <2>5 DEF Machine
  <2>7. /\ Unshared(a.vars, a.stk) /\ Stacked(a.stk) /\ Harmless(a.vars, a.stk, a.dead)
        /\ l = a.stk[N][k]
    BY DEF Kept, Ownership, N, k
  <2>8. Holds(a.stk, n, l.text.block)
    BY <1>3, <2>7 DEF Holds
  <2>9. <<n, w.text.block>> \notin f.dead \/ w.text.block = 0
    <3>1. SUFFICES ASSUME <<n, l.text.block>> \in f.dead, l.text.block # 0
                   PROVE  FALSE
      BY <2>3
    <3>2. l.text.block \in 1 .. Blocks
      BY <1>4, <3>1, BlocksType DEF Text
    <3>3. CASE <<n, l.text.block>> \in m.dead
      BY <1>1, <1>4, <2>7, <2>8, <3>2, <3>3 DEF Harmless
    <3>4. CASE Owned(m.vars[n]) /\ l.text.block = m.vars[n].text.block
      BY <1>1, <1>4, <2>7, <2>8, <3>4 DEF Unshared
    <3> QED
      BY <2>2, <3>1, <3>3, <3>4
  <2>10. Owned(w) => ~ Holds(m.stk, n, w.text.block)
    <3> SUFFICES ASSUME Owned(w), NEW i \in Nat, NEW j \in Nat, Place(m.stk, i, j),
                        m.stk[i][j].name = n, m.stk[i][j].text.block = w.text.block
                 PROVE  FALSE
      BY DEF Holds
    <3>1. Owned(l)
      BY <2>3 DEF Owned
    <3>2. Place(a.stk, i, j) /\ m.stk[i][j] = a.stk[i][j] /\ Earlier(i, j, N, k)
      BY <1>3
    <3>3. a.stk[i][j].text.block # l.text.block
      BY <1>3, <2>7, <3>1, <3>2 DEF Stacked
    <3> QED
      BY <2>3, <3>2, <3>3
  <2>11. Ownership(r.vars, r.stk, r.dead)
    <3>1. Ownership(m.vars, m.stk, m.dead)
      BY <1>2 DEF Kept
    <3>2. f.dead \subseteq m.dead \cup (IF Owned(m.vars[n]) THEN {<<n, m.vars[n].text.block>>}
                                                            ELSE {})
      BY <2>2
    <3> HIDE DEF n
    <3>3. Ownership([m.vars EXCEPT ![n] = w], m.stk, f.dead)
      BY ONLY <1>4, <1>6, <2>3, <2>9, <2>10, <3>1, <3>2, OwnWrite
    <3> QED
      BY <2>6, <3>3
  <2>12. AllFine(r.vars, r.stk)
    <3>1. r.vars[n] = w /\ \A x \in Name : x # n => r.vars[x] = m.vars[x]
      BY <1>4, <1>6, <2>6
    <3> HIDE DEF n
    <3> QED
      BY <1>2, <1>5, <2>3, <2>6, <3>1, NameAssumption DEF AllFine, Kept
  <2>13. ASSUME NEW d, Told(m, d)
         PROVE  Told(r, d)
    <3>1. r.vars[n] = w /\ \A x \in Name : x # n => r.vars[x] = m.vars[x]
      BY <1>4, <1>6, <2>6
    <3>2. CASE n = "PATH"
      <4>1. r.cmds = changepath(m.cmds, l.text.val) /\ PathOf(r) = l.text.val
        BY <2>2, <2>3, <2>6, <3>1, <3>2 DEF PathOf
      <4> QED
        BY <1>4, <1>6, <2>13, <4>1, ChangepathTrue DEF Told
    <3>3. CASE n # "PATH"
      <4>1. r.cmds = m.cmds /\ PathOf(r) = PathOf(m)
        BY <2>2, <2>6, <3>1, <3>3, NameAssumption DEF PathOf
      <4> QED
        BY <2>13, <4>1 DEF Told
    <3> QED
      BY <3>2, <3>3
  <2>14. Follows(m, r)
    BY <1>2, <2>6, <2>11, <2>12, <2>13 DEF Follows, Kept
  <2>15. Follows(a, r)
    BY <1>1, <2>14, FollowsOn
  <2> QED
    BY <2>15 DEF r, m
<1> QED
  BY <1>7, <1>8 DEF m

-----------------------------------------------------------------------------
(* The inductive invariant.                                                *)

\* The types, the bounds of the stack, who owns which text, the marks PATH keeps, and,
\* when cd cannot fail half-way, that the table of commands is true.
Inv ==
  /\ vartab \in [Name -> Var] /\ stack \in Seq(Seq(Saved)) /\ optlist \in BOOLEAN
  /\ cmds \in Cmds /\ cwd \in Value /\ curdir \in Value /\ stop \in 0 .. Len(stack)
  /\ dead = {}
  /\ Bounded(stack)
  /\ Ownership(vartab, stack, dead)
  /\ AllFine(vartab, stack)
  /\ Unprotectable => Trusted(cmds, pathval, cwd)

\* What a call starts from.
LEMMA HereIs ==
  ASSUME Inv
  PROVE  /\ Kept(Here) /\ Here.vars = vartab /\ Here.stk = stack /\ Here.cmds = cmds
         /\ Here.err = FALSE /\ Here.dead = dead /\ PathOf(Here) = pathval
<1>1. /\ Here.vars = vartab /\ Here.stk = stack /\ Here.cmds = cmds
      /\ Here.err = FALSE /\ Here.dead = dead
  BY DEF Here
<1>2. Here \in Machine
  BY DEF Inv, Here, Machine
<1>3. Kept(Here)
  BY <1>1, <1>2 DEF Inv, Kept
<1> QED
  BY <1>1, <1>3 DEF PathOf, pathval

\* Of what a call freed nothing is still in use.
LEMMA NothingStillUsed ==
  ASSUME NEW m, Kept(m)
  PROVE  StillUsed(m) = {}
<1> SUFFICES ASSUME NEW d \in m.dead, d[2] \in Used(m, d[1])
             PROVE  FALSE
  BY DEF StillUsed
<1>1. m \in Machine /\ m.dead \in SUBSET (Name \X (1 .. Blocks))
  BY MachineHas, NameAssumption DEF Kept
<1>2. d[1] \in Name /\ d[2] \in 1 .. Blocks /\ d = <<d[1], d[2]>>
  BY <1>1
<1>3. m.vars[d[1]].text.block # d[2] /\ ~ Holds(m.stk, d[1], d[2])
  BY <1>2 DEF Kept, Ownership, Harmless
<1> QED
  BY <1>1, <1>2, <1>3, UsedIs

\* The invariant holds in any state that is like what a call left.
LEMMA KeptIsInv ==
  ASSUME Inv, NEW m, Kept(m), Unprotectable => Trusted(cmds', PathOf(m), cwd'),
         vartab' = m.vars, stack' = m.stk, dead' = StillUsed(m), cmds' \in Cmds,
         cwd' \in Value, curdir' \in Value, optlist' \in BOOLEAN, stop' \in 0 .. Len(m.stk)
  PROVE  Inv'
<1>1. dead' = {}
  BY NothingStillUsed
<1>2. /\ m.vars \in [Name -> Var] /\ m.stk \in Seq(Seq(Saved))
  BY MachineHas, NameAssumption DEF Kept
<1>3. Ownership(m.vars, m.stk, {})
  BY DEF Kept, Ownership, Harmless
<1>4. pathval' = PathOf(m)
  BY DEF pathval, PathOf
<1> QED
  BY <1>1, <1>2, <1>3, <1>4 DEF Inv, Kept

\* A call that is done keeps the invariant.
LEMMA DoneKeeps ==
  ASSUME Inv, NEW m, Kept(m), Len(stack) <= Len(m.stk), \A w : Told(Here, w) => Told(m, w),
         Done(m), optlist' \in BOOLEAN, cwd' = cwd, curdir' = curdir
  PROVE  Inv'
<1>1. /\ vartab' = m.vars /\ stack' = m.stk /\ cmds' = m.cmds /\ dead' = StillUsed(m)
  BY DEF Done
<1>2. m.stk \in Seq(Seq(Saved)) /\ m.cmds \in Cmds
  BY MachineHas, NameAssumption DEF Kept
<1>3. stop' \in 0 .. Len(m.stk)
  <2>1. Len(m.stk) \in Nat /\ Len(stack) \in Nat
    BY <1>2 DEF Inv
  <2>2. stop' \in 0 .. Len(stack) \/ stop' = Len(m.stk)
    BY DEF Done
  <2> QED
    BY <2>1, <2>2
<1>4. Unprotectable => Trusted(cmds', PathOf(m), cwd')
  <2>1. Unprotectable => Told(Here, cwd)
    BY HereIs DEF Told, Inv
  <2>2. Unprotectable => Told(m, cwd)
    BY <2>1
  <2> QED
    BY <1>1, <2>2 DEF Told
<1>5. cwd' \in Value /\ curdir' \in Value
  BY DEF Inv
<1> QED
  BY <1>1, <1>2, <1>3, <1>4, <1>5, KeptIsInv

\* So does one that follows what was there.
LEMMA FollowsKeeps ==
  ASSUME Inv, NEW m, Follows(Here, m), Done(m), optlist' \in BOOLEAN, cwd' = cwd, curdir' = curdir
  PROVE  Inv'
<1>1. Kept(m) /\ Len(m.stk) = Len(stack)
  BY HereIs DEF Follows
<1>3. Len(m.stk) \in Nat
  BY <1>1, MachineHas, NameAssumption DEF Kept
<1>2. \A w : Told(Here, w) => Told(m, w)
  BY DEF Follows
<1> QED
  BY <1>1, <1>2, <1>3, DoneKeeps

\* Of setvareq, with a value or without one.
LEMMA SetKeeps ==
  ASSUME Inv, NEW n \in Name, NEW val \in Value \cup {None}, NEW given \in SUBSET Flag,
         Unprotectable /\ n \in {"PWD", "OLDPWD"} => "READONLY" \notin given,
         NEW m, m = setvareq(Here, n, val, given)
  PROVE  Follows(Here, m)
<1>1. Kept(Here)
  BY HereIs
<1>2. PICK h : h = Here
  OBVIOUS
<1>3. AsSet(h, n, setvareq(h, n, val, given))
  BY <1>1, <1>2, SetFollows
<1> QED
  BY <1>2, <1>3 DEF AsSet

-----------------------------------------------------------------------------
(* The actions keep it.                                                    *)

\* Assignments and unset.
LEMMA AssignKeeps ==
  ASSUME Inv, NEW n \in Name, NEW v \in Value, Assign(n, v) \/ unsetcmd(n)
  PROVE  Inv'
<1>1. optlist' \in BOOLEAN /\ cwd' = cwd /\ curdir' = curdir
  BY DEF Assign, unsetcmd, Unmoved, Inv
<1>2. CASE Assign(n, v)
  <2>1. PICK m : m = setvareq(Here, n, v, {})
    OBVIOUS
  <2>2. Done(m)
    BY <1>2, <2>1 DEF Assign
  <2>3. Follows(Here, m)
    BY <2>1, SetKeeps
  <2> QED
    BY <1>1, <2>2, <2>3, FollowsKeeps
<1>3. CASE unsetcmd(n)
  <2>1. PICK m : m = setvareq(Here, n, None, {"UNSET"})
    OBVIOUS
  <2>2. Done(m)
    BY <1>3, <2>1 DEF unsetcmd, unsetvar
  <2>3. {"UNSET"} \in SUBSET Flag
    BY DEF Flag
  <2>4. Follows(Here, m)
    BY <2>1, <2>3, SetKeeps
  <2> QED
    BY <1>1, <2>2, <2>4, FollowsKeeps
<1> QED
  BY <1>2, <1>3

\* export and readonly.
LEMMA ExportKeeps ==
  ASSUME Inv, NEW n \in Name, NEW v \in Value \cup {None},
         NEW flag \in {"EXPORT", "READONLY"}, flag = "READONLY" => n \in Protectable,
         exportcmd(n, v, flag)
  PROVE  Inv'
<1>1. optlist' \in BOOLEAN /\ cwd' = cwd /\ curdir' = curdir
  BY DEF exportcmd, Unmoved, Inv
<1>2. PICK m : m = Marked(Here, n, v, flag)
  OBVIOUS
<1>3. Done(m)
  BY <1>2 DEF exportcmd
<1>4. Unprotectable /\ n \in {"PWD", "OLDPWD"} => flag # "READONLY"
  BY DEF Unprotectable
<1>5. Follows(Here, m)
  <2>1. CASE v # None
    <3>1. m = setvareq(Here, n, v, {flag})
      BY <1>2, <2>1 DEF Marked
    <3>2. {flag} \in SUBSET Flag
      BY DEF Flag
    <3>3. Unprotectable /\ n \in {"PWD", "OLDPWD"} => "READONLY" \notin {flag}
      BY <1>4
    <3> QED
      BY <3>1, <3>2, <3>3, SetKeeps
  <2>2. CASE v = None /\ ~ Here.vars[n].here
    <3>1. m = setvareq(Here, n, None, {flag, "UNSET"})
      BY <1>2, <2>2 DEF Marked
    <3>2. {flag, "UNSET"} \in SUBSET Flag
      BY DEF Flag
    <3>3. Unprotectable /\ n \in {"PWD", "OLDPWD"} => "READONLY" \notin {flag, "UNSET"}
      BY <1>4
    <3> QED
      BY <3>1, <3>2, <3>3, SetKeeps
  <2>3. CASE v = None /\ Here.vars[n].here
    <3>1. PICK h : h = Here
      OBVIOUS
    <3>2. PICK marks : marks = h.vars[n].flags \cup {flag}
      OBVIOUS
    <3>3. m = [h EXCEPT !.vars[n].flags = marks]
      BY <1>2, <2>3, <3>1, <3>2 DEF Marked
    <3>4. Kept(h) /\ h.vars[n].flags \in SUBSET Flag /\ Fine(n, h.vars[n].flags)
      BY <3>1, HereIs, MachineHas DEF Kept, AllFine
    <3>5. marks \in SUBSET Flag /\ Fine(n, marks)
      BY <1>4, <3>2, <3>4 DEF Flag, Fine
    <3>6. AsMarked(h, n, marks, m)
      BY <3>2, <3>3, <3>4, <3>5, MarkFollows
    <3> QED
      BY <3>1, <3>6 DEF AsMarked
  <2> QED
    BY <2>1, <2>2, <2>3, HereIs, MachineHas DEF Kept
<1> QED
  BY <1>1, <1>3, <1>5, FollowsKeeps

\* local, with a name or with a dash.
LEMMA LocalKeeps ==
  ASSUME Inv, NEW n \in Name, NEW v \in Value \cup {None}, localcmd(n, v) \/ LocalDash
  PROVE  Inv'
<1>1. optlist' \in BOOLEAN /\ cwd' = cwd /\ curdir' = curdir
  BY DEF localcmd, LocalDash, Unmoved, Inv
<1>2. PICK h : h = Here
  OBVIOUS
<1>3. Kept(h) /\ h.stk = stack
  BY <1>2, HereIs
<1>4. h.stk # <<>> /\ Len(h.stk[Len(h.stk)]) < MaxLocals
  BY <1>3 DEF localcmd, LocalDash, Room, Last
<1>5. CASE localcmd(n, v)
  <2>1. PICK m : m = mklocal(h, n, v, {})
    OBVIOUS
  <2>2. Done(m)
    BY <1>2, <1>5, <2>1 DEF localcmd
  <2>3. Follows(h, m)
    BY <1>3, <1>4, <2>1, MklocalFollows
  <2> QED
    BY <1>1, <1>2, <2>2, <2>3, FollowsKeeps
<1>6. CASE LocalDash
  <2>1. PICK l : l = [name |-> "-", flags |-> {}, text |-> NoText, on |-> optlist]
    OBVIOUS
  <2>2. PICK m : m = Link(h, l)
    OBVIOUS
  <2>3. Done(m)
    BY <1>2, <1>6, <2>1, <2>2 DEF LocalDash
  <2>4. l \in Saved /\ l.text.block = 0 /\ Fine(l.name, l.flags)
    BY <2>1, BlocksType DEF Saved, Text, NoText, Fine, Inv
  <2>5. Follows(h, m)
    BY <1>3, <1>4, <2>2, <2>4, LinkFollows
  <2> QED
    BY <1>1, <1>2, <2>3, <2>5, FollowsKeeps
<1> QED
  BY <1>5, <1>6

\* A function begins with no local variables: m, with the stack s, is made of h.
AsPushed(h, m, s) ==
  /\ Kept(m) /\ m.stk = s /\ m.vars = h.vars /\ m.err = FALSE
  /\ \A w : Told(h, w) => Told(m, w)
  /\ s # <<>> /\ Len(stack) <= Len(m.stk) /\ Len(m.stk[Len(m.stk)]) < MaxLocals
LEMMA PushIs ==
  ASSUME Inv, Len(stack) < MaxScopes, NEW h, h = Here, NEW s, s = Append(stack, <<>>),
         NEW m, m = [h EXCEPT !.stk = s]
  PROVE  AsPushed(h, m, s)
<1>5. Kept(h) /\ h.stk = stack /\ h.err = FALSE /\ h \in Machine /\ stack \in Seq(Seq(Saved))
  BY HereIs DEF Kept, Inv
<1>6. /\ s \in Seq(Seq(Saved)) /\ Len(s) = Len(stack) + 1 /\ s[Len(s)] = <<>>
      /\ \A i \in 1 .. Len(stack) : s[i] = stack[i]
  <2>1. <<>> \in Seq(Saved)
    OBVIOUS
  <2> QED
    BY <1>5, <2>1, AppendProperties
<1>7. \A i, j \in Nat : Place(s, i, j) => Place(stack, i, j) /\ s[i][j] = stack[i][j]
  <2> SUFFICES ASSUME NEW i \in Nat, NEW j \in Nat, Place(s, i, j)
               PROVE  Place(stack, i, j) /\ s[i][j] = stack[i][j]
    OBVIOUS
  <2>1. CASE i = Len(s)
    <3>1. j \in 1 .. 0
      BY <1>6, <2>1 DEF Place
    <3> QED
      BY <3>1
  <2>2. CASE i # Len(s)
    <3>1. i \in 1 .. Len(stack)
      BY <1>5, <1>6, <2>2 DEF Place
    <3> QED
      BY <1>6, <3>1 DEF Place
  <2> QED
    BY <2>1, <2>2
<1>8. Bounded(s)
  <2>1. Len(s) <= MaxScopes
    BY <1>5, <1>6
  <2>2. ASSUME NEW i \in 1 .. Len(s)
        PROVE  Len(s[i]) <= MaxLocals
    <3>1. CASE i = Len(s)
      <4>1. Len(s[i]) = 0
        BY <1>6, <3>1
      <4> QED
        BY <4>1
    <3>2. CASE i # Len(s)
      <4>1. i \in 1 .. Len(stack)
        BY <1>5, <1>6, <3>2
      <4> QED
        BY <1>6, <4>1 DEF Inv, Bounded
    <3> QED
      BY <3>1, <3>2
  <2> QED
    BY <2>1, <2>2 DEF Bounded
<1>9. /\ m \in Machine /\ m.stk = s /\ m.vars = h.vars /\ m.dead = h.dead /\ m.cmds = h.cmds
      /\ m.err = h.err
  BY <1>5, <1>6 DEF Machine
<1>10. Kept(m)
  <2>1. Ownership(h.vars, s, h.dead)
    <3>1. Ownership(h.vars, stack, h.dead)
      BY <1>5 DEF Kept
    <3> QED
      BY ONLY <1>7, <3>1, OwnFewer
  <2>2. AllFine(h.vars, s)
    BY <1>5, <1>7 DEF Kept, AllFine
  <2> QED
    BY <1>8, <1>9, <2>1, <2>2 DEF Kept
<1>11. \A w : Told(h, w) => Told(m, w)
  BY <1>9 DEF Told, PathOf
<1>12. Len(stack) <= Len(m.stk)
  BY <1>5, <1>6, <1>9
<1>13. s # <<>> /\ Len(m.stk[Len(m.stk)]) < MaxLocals
  <2>1. Len(m.stk[Len(m.stk)]) = 0 /\ Len(s) # 0
    BY <1>5, <1>6, <1>9
  <2> QED
    BY <2>1, BoundAssumption
<1> QED
  BY ONLY <1>5, <1>9, <1>10, <1>11, <1>12, <1>13 DEF AsPushed

\* A function begins, with an assignment in front of it or without.
LEMMA PushKeeps ==
  ASSUME Inv, NEW n \in Name, NEW v \in Value \cup {None}, pushlocalvars(n, v)
  PROVE  Inv'
<1>1. optlist' \in BOOLEAN /\ cwd' = cwd /\ curdir' = curdir
  BY DEF pushlocalvars, Unmoved, Inv
<1>2. PICK h : h = Here
  OBVIOUS
<1>3. PICK s : s = Append(stack, <<>>)
  OBVIOUS
<1>4. PICK m : m = [h EXCEPT !.stk = s]
  OBVIOUS
<1>5. h.stk = stack
  BY <1>2, HereIs
<1>6. /\ Kept(m) /\ Len(stack) <= Len(m.stk) /\ m.stk = s /\ s # <<>>
      /\ Len(m.stk[Len(m.stk)]) < MaxLocals /\ \A w : Told(h, w) => Told(m, w)
  <2>1. Len(stack) < MaxScopes
    BY DEF pushlocalvars
  <2>2. AsPushed(h, m, s)
    BY ONLY Inv, <1>2, <1>3, <1>4, <2>1, PushIs
  <2> QED
    BY ONLY <2>2 DEF AsPushed
<1>7. CASE v = None
  <2>1. Done(m)
    BY <1>2, <1>3, <1>4, <1>5, <1>7 DEF pushlocalvars
  <2> QED
    BY <1>1, <1>2, <1>6, <2>1, DoneKeeps
<1>8. CASE v # None
  <2>1. PICK r : r = mklocal(m, n, v, {"EXPORT"})
    OBVIOUS
  <2>2. Done(r)
    BY <1>2, <1>3, <1>4, <1>5, <1>8, <2>1 DEF pushlocalvars
  <2>3. Follows(m, r)
    BY <1>6, <2>1, MklocalFollows
  <2>4. Kept(r) /\ Len(stack) <= Len(r.stk) /\ \A w : Told(h, w) => Told(r, w)
    BY <1>6, <2>3 DEF Follows
  <2> QED
    BY <1>1, <1>2, <2>2, <2>4, DoneKeeps
<1> QED
  BY <1>7, <1>8

\* A scope ends.
LEMMA PopKeeps ==
  ASSUME Inv, Return \/ PopLocal \/ PopScope
  PROVE  Inv'
<1>1. stack \in Seq(Seq(Saved)) /\ Len(stack) \in Nat /\ stop \in 0 .. Len(stack)
  BY DEF Inv
<1>2. PICK h : h = Here
  OBVIOUS
<1>3. /\ Kept(h) /\ h.stk = stack /\ h.vars = vartab /\ h.dead = dead /\ h.cmds = cmds
      /\ PathOf(h) = pathval
  BY <1>2, HereIs
<1>4. CASE Return
  <2>1. stop' \in 0 .. Len(stack)
    <3>1. Len(stack) # 0
      BY <1>1, <1>4, EmptySeq DEF Return
    <3> QED
      BY <1>1, <1>4, <3>1 DEF Return
  <2>2. UNCHANGED <<vartab, stack, dead, cmds, optlist, cwd, curdir>>
    BY <1>4 DEF Return, Unmoved
  <2> QED
    BY <2>1, <2>2 DEF Inv, pathval
<1>5. CASE PopLocal
  <2>1. stack # <<>> /\ stack[Len(stack)] # <<>>
    BY <1>1, <1>5 DEF PopLocal, Running, Last
  <2>2. PICK l : l = stack[Len(stack)][Len(stack[Len(stack)])]
    OBVIOUS
  <2>3. PICK m : m = [h EXCEPT !.stk = Popped(h.stk)]
    OBVIOUS
  <2>4. PICK r : r = IF l.name = "-" THEN m ELSE Restored(m, l)
    OBVIOUS
  <2>5. /\ vartab' = r.vars /\ cmds' = r.cmds /\ stack' = r.stk /\ dead' = StillUsed(r)
        /\ optlist' = IF l.name = "-" THEN l.on ELSE optlist
        /\ cwd' = cwd /\ curdir' = curdir /\ stop' = stop
    <3>1. m = [Here EXCEPT !.stk[Len(stack)] = Front(@)]
      BY <1>2, <1>3, <2>3 DEF Popped, Here
    <3>2. l = Last(Last(stack))
      BY <2>2 DEF Last
    <3> QED
      BY <1>5, <2>4, <3>1, <3>2 DEF PopLocal
  <2>6. Follows(h, r)
    <3>1. CASE l.name = "-"
      <4>1. r = m
        BY <2>4, <3>1
      <4> QED
        BY <1>3, <2>1, <2>3, <4>1, PoppedFollows
    <3>2. CASE l.name # "-"
      <4>1. l = h.stk[Len(h.stk)][Len(h.stk[Len(h.stk)])]
        BY <1>3, <2>2
      <4>2. r = Restored([h EXCEPT !.stk = Popped(h.stk)], l)
        BY <2>3, <2>4, <3>2
      <4>3. Follows(h, Restored([h EXCEPT !.stk = Popped(h.stk)], l))
        BY ONLY <1>3, <2>1, <3>2, <4>1, RestoredFollows
      <4> QED
        BY <4>2, <4>3
    <3> QED
      BY <3>1, <3>2
  <2>7. Kept(r) /\ Len(r.stk) = Len(stack)
    BY <1>3, <2>6 DEF Follows
  <2>8. Unprotectable => Trusted(cmds', PathOf(r), cwd')
    <3>1. Unprotectable => Told(h, cwd)
      BY <1>3 DEF Told, Inv
    <3> QED
      BY <2>5, <2>6, <3>1 DEF Told, Follows
  <2>9. optlist' \in BOOLEAN
    <3>1. l \in Saved
      <4>1. Place(stack, Len(stack), Len(stack[Len(stack)]))
        <5>1. IsPopped(Popped(stack), stack, Len(stack), Len(stack[Len(stack)]))
          BY <1>1, <2>1, PoppedIs
        <5> QED
          BY ONLY <5>1 DEF IsPopped
      <4> QED
        BY <1>1, <2>2, <4>1, PlaceType
    <3>2. l.on \in BOOLEAN
      BY <3>1 DEF Saved
    <3> QED
      BY <2>5, <3>2 DEF Inv
  <2>10. r.cmds \in Cmds
    BY <2>7, MachineHas, NameAssumption DEF Kept
  <2>11. cwd' \in Value /\ curdir' \in Value /\ stop' \in 0 .. Len(r.stk)
    BY <2>5, <2>7 DEF Inv
  <2> QED
    BY <2>5, <2>7, <2>8, <2>9, <2>10, <2>11, KeptIsInv
<1>6. CASE PopScope
  <2>1. stack # <<>> /\ Len(stack) # 0 /\ stop # Len(stack)
    BY <1>1, <1>6 DEF PopScope, Running
  <2>2. PICK s : s = Front(stack)
    OBVIOUS
  <2>3. /\ s \in Seq(Seq(Saved)) /\ Len(s) = Len(stack) - 1
        /\ \A i \in 1 .. Len(s) : s[i] = stack[i]
    <3>0. PICK k : k = Len(stack) - 1
      OBVIOUS
    <3>1. k \in Nat /\ Len(stack) = k + 1
      <4>1. Len(stack) \in Nat /\ Len(stack) # 0
        BY <1>1, <2>1
      <4> QED
        BY ONLY <3>0, <4>1
    <3>2. s = SubSeq(stack, 1, k)
      BY <2>2, <3>0 DEF Front
    <3>3. \A i \in 1 .. k : stack[i] \in Seq(Saved)
      BY <1>1, <3>1
    <3>4. k \in Int /\ 1 \in Int
      BY <3>1
    <3>5. /\ SubSeq(stack, 1, k) \in Seq(Seq(Saved))
          /\ Len(SubSeq(stack, 1, k)) = IF 1 <= k THEN k - 1 + 1 ELSE 0
          /\ \A i \in 1 .. k - 1 + 1 : SubSeq(stack, 1, k)[i] = stack[1 + i - 1]
      BY ONLY <3>3, <3>4, SubSeqProperties
    <3>6. Len(s) = k
      BY ONLY <3>1, <3>2, <3>5
    <3>7. ASSUME NEW i \in 1 .. Len(s)
          PROVE  s[i] = stack[i]
      <4>1. i \in 1 .. k - 1 + 1 /\ 1 + i - 1 = i
        BY <3>1, <3>6
      <4> QED
        BY <3>2, <3>5, <4>1
    <3>8. s \in Seq(Seq(Saved))
      BY ONLY <3>2, <3>5
    <3>9. Len(s) = Len(stack) - 1
      BY ONLY <3>0, <3>6
    <3>10. \A i \in 1 .. Len(s) : s[i] = stack[i]
      BY ONLY <3>7
    <3> QED
      BY ONLY <3>8, <3>9, <3>10
  <2>4. \A i, j \in Nat : Place(s, i, j) => Place(stack, i, j) /\ s[i][j] = stack[i][j]
    <3>1. Len(s) \in Nat /\ Len(stack) \in Nat /\ Len(s) <= Len(stack)
      <4>1. \A k \in Nat, n \in Nat : k = n - 1 => k <= n
        OBVIOUS
      <4>2. Len(s) \in Nat
        BY <2>3
      <4> QED
        BY ONLY <1>1, <2>3, <4>1, <4>2
    <3>2. ASSUME NEW i \in Nat, NEW j \in Nat, Place(s, i, j)
          PROVE  Place(stack, i, j) /\ s[i][j] = stack[i][j]
      <4>1. i \in 1 .. Len(s) /\ j \in 1 .. Len(s[i])
        BY ONLY <3>2 DEF Place
      <4>2. s[i] = stack[i]
        BY ONLY <2>3, <4>1
      <4>3. i \in 1 .. Len(stack)
        BY ONLY <3>1, <4>1, i \in Nat
      <4> QED
        BY ONLY <4>1, <4>2, <4>3 DEF Place
    <3> QED
      BY ONLY <3>2
  <2>5. PICK m : m = [h EXCEPT !.stk = s]
    OBVIOUS
  <2>6. h \in Machine
    BY <1>3 DEF Kept
  <2>7. /\ m \in Machine /\ m.stk = s /\ m.vars = h.vars /\ m.dead = h.dead /\ m.cmds = h.cmds
    BY <2>3, <2>5, <2>6 DEF Machine
  <2>8. Kept(m)
    <3>1. Ownership(h.vars, s, h.dead)
      BY <1>3, <2>4, OwnFewer DEF Kept
    <3>2. AllFine(h.vars, s)
      BY <1>3, <2>4 DEF Kept, AllFine
    <3>3. Bounded(s)
      BY <1>1, <2>3 DEF Inv, Bounded
    <3> QED
      BY <2>7, <3>1, <3>2, <3>3 DEF Kept
  <2>9. /\ vartab' = vartab /\ stack' = s /\ dead' = dead /\ cmds' = cmds /\ stop' = stop
        /\ cwd' = cwd /\ curdir' = curdir /\ optlist' = optlist
    BY <1>6, <2>2 DEF PopScope, Unmoved
  <2>10. /\ Ownership(vartab, s, dead) /\ AllFine(vartab, s) /\ Bounded(s)
    BY <1>3, <2>7, <2>8 DEF Kept
  <2>11. stop \in 0 .. Len(s)
    BY <1>1, <2>1, <2>3
  <2> QED
    BY <2>3, <2>9, <2>10, <2>11 DEF Inv, pathval
<1> QED
  BY <1>4, <1>5, <1>6

\* cd, which tells the table of commands only when it does not fail.
LEMMA CdKeeps ==
  ASSUME Inv, NEW d \in Directory, docd(d)
  PROVE  Inv'
<1>1. d \in Value /\ {"EXPORT"} \in SUBSET Flag /\ "READONLY" \notin {"EXPORT"}
  BY ValueAssumption DEF Flag
<1>2. PICK h : h = Here
  OBVIOUS
<1>3. PICK here : here = curdir
  OBVIOUS
<1>4. PICK old : old = setvareq(h, "OLDPWD", here, {"EXPORT"})
  OBVIOUS
<1>5. PICK new : new = setvareq(old, "PWD", d, {"EXPORT"})
  OBVIOUS
<1>6. PICK m : m = IF old.err THEN old ELSE new
  OBVIOUS
<1>7. /\ vartab' = m.vars /\ dead' = StillUsed(m) /\ cwd' = d
      /\ cmds' = (IF m.err THEN cmds ELSE hashcd(cmds))
      /\ curdir' = (IF old.err THEN curdir ELSE d)
      /\ stack' = stack /\ stop' = stop /\ optlist' = optlist
  BY <1>2, <1>3, <1>4, <1>5, <1>6 DEF docd
<1>8. Kept(h) /\ h.cmds = cmds /\ PathOf(h) = pathval /\ h.stk = stack /\ h.err = FALSE
  BY <1>2, HereIs
<1>9. here \in Value /\ "OLDPWD" \in Name /\ "PWD" \in Name /\ "OLDPWD" # "PATH" /\ "PWD" # "PATH"
  BY <1>3, NameAssumption DEF Inv
<1>10. AsSet(h, "OLDPWD", old)
  <2>1. AsSet(h, "OLDPWD", setvareq(h, "OLDPWD", here, {"EXPORT"}))
    <3> DEFINE given == {"EXPORT"}
               n == "OLDPWD"
    <3>1. given \in SUBSET Flag /\ "READONLY" \notin given /\ n \in Name
      BY <1>1, <1>9
    <3> HIDE DEF given, n
    <3>2. AsSet(h, n, setvareq(h, n, here, given))
      BY <1>8, <1>9, <3>1, SetFollows
    <3> QED
      BY <3>2 DEF given, n
  <2> QED
    BY <1>4, <2>1
<1>11. AsSet(old, "PWD", new)
  <2>1. AsSet(old, "PWD", setvareq(old, "PWD", d, {"EXPORT"}))
    <3> DEFINE given == {"EXPORT"}
               n == "PWD"
    <3>1. given \in SUBSET Flag /\ "READONLY" \notin given /\ n \in Name
      BY <1>1, <1>9
    <3>2. Kept(old)
      BY <1>10 DEF AsSet, Follows
    <3> HIDE DEF given, n
    <3>3. AsSet(old, n, setvareq(old, n, d, given))
      BY <1>1, <3>1, <3>2, SetFollows
    <3> QED
      BY <3>3 DEF given, n
  <2> QED
    BY <1>5, <2>1
<1>12. /\ Kept(old) /\ old.stk = h.stk /\ PathOf(old) = PathOf(h)
       /\ Kept(new) /\ new.stk = old.stk /\ PathOf(new) = PathOf(old)
  BY <1>9, <1>10, <1>11 DEF AsSet, Follows
<1>13. Kept(m) /\ m.stk = stack /\ PathOf(m) = pathval
  BY <1>6, <1>8, <1>12
<1>14. ASSUME Unprotectable
       PROVE  cmds' = hashcd(cmds)
  <2>1. "READONLY" \notin h.vars["OLDPWD"].flags
    BY <1>8, <1>9, <1>14 DEF Kept, AllFine, Fine
  <2>2. old.err = FALSE
    BY <1>8, <1>10, <2>1 DEF AsSet
  <2>3. "READONLY" \notin old.vars["PWD"].flags
    BY <1>9, <1>12, <1>14 DEF Kept, AllFine, Fine
  <2>4. new.err = FALSE
    BY <1>11, <2>2, <2>3 DEF AsSet
  <2> QED
    BY <1>6, <1>7, <2>2, <2>4
<1>15. cmds \in Cmds /\ hashcd(cmds) \in Cmds
  BY CommandTypes DEF Inv
<1>16. Unprotectable => Trusted(cmds', PathOf(m), cwd')
  <2> SUFFICES ASSUME Unprotectable
               PROVE  Trusted(hashcd(cmds), pathval, d)
    BY <1>7, <1>13, <1>14
  <2>1. Trusted(cmds, pathval, cwd) /\ cwd \in Value
    BY DEF Inv
  <2>2. pathval \in Value \cup {None}
    BY MachineHas, NameAssumption, <1>8 DEF Kept, PathOf
  <2>3. PICK g : g = cmds
    OBVIOUS
  <2> QED
    BY <1>1, <1>15, <2>1, <2>2, HashcdTrue
<1>17. /\ cmds' \in Cmds /\ cwd' \in Value /\ curdir' \in Value /\ optlist' \in BOOLEAN
       /\ stop' \in 0 .. Len(m.stk)
  BY <1>1, <1>7, <1>13, <1>15 DEF Inv
<1> QED
  BY <1>7, <1>13, <1>16, <1>17, KeptIsInv

\* find_command leaves a table of commands, whatever the table was.
LEMMA FindTypes ==
  ASSUME NEW h \in Cmds, NEW c \in Command, NEW act, NEW p \in Value \cup {None}, NEW w
  PROVE  find_command(h, c, act, p, w).h \in Cmds
<1> DEFINE e == h.tab[c]
           barred == act \cap Bits(e)
           keep == "altpath" \notin act /\ barred = {}
           known == IF barred = {} THEN e ELSE Missing
           prev == IF ~known.rehash THEN -1
                   ELSE IF known.type = "builtin" THEN h.builtinloc ELSE known.index
           stops == Stops(p, w, c, prev)
           i == Min(stops)
           f == IF At(p, i) = "%builtin" THEN BuiltinEntry ELSE Normal(i)
           r == find_command(h, c, act, p, w)
<1>1. \/ r = Answer(h, Missing)
      \/ r = Answer(h, known)
      \/ r = Found(h, c, BuiltinEntry, keep)
      \/ stops = {} /\ r = Answer(IF keep THEN addcmdentry(h, c, Missing) ELSE h, Missing)
      \/ stops # {} /\ r = Found(h, c, f, keep)
  <2> DEFINE last == Searched(h, c, p, w, known, keep)
  <2>1. \/ r = Answer(h, Missing)
        \/ r = Answer(h, known)
        \/ r = Found(h, c, BuiltinEntry, keep)
        \/ r = last
    <3> HIDE DEF last, known, keep, e
    <3> QED
      BY DEF find_command, last, known, keep, e
  <2>2. last = IF stops = {} THEN Answer(IF keep THEN addcmdentry(h, c, Missing) ELSE h, Missing)
               ELSE Found(h, c, f, keep)
    BY DEF Searched
  <2> HIDE DEF last, r, known, keep, stops, f
  <2> QED
    BY <2>1, <2>2
<1>2. \A g \in Entry : addcmdentry(h, c, g) \in Cmds
  BY CommandTypes
<1>3. Missing \in Entry /\ BuiltinEntry \in Entry
  BY DEF Missing, BuiltinEntry, Entry
<1>4. stops # {} => f \in Entry
  <2>1. stops \subseteq Nat
    BY PlaceOfBuiltinsIs DEF Stops
  <2>2. stops # {} => i \in Nat
    <3> HIDE DEF stops
    <3> QED
      BY <2>1, LeastOf
  <2> HIDE DEF i, stops
  <2>3. i \in Nat => Normal(i) \in Entry
    BY DEF Normal, Entry
  <2> QED
    BY <1>3, <2>2, <2>3
<1> HIDE DEF r, known, keep, stops, f
<1>5. r.h \in Cmds
  BY <1>1, <1>2, <1>3, <1>4 DEF Answer, Found
<1> QED
  BY <1>5 DEF r

\* What a name is taken for changes the table, and not what it knows.
LEMMA TakenIs ==
  ASSUME Inv, NEW c \in Command, NEW act
  PROVE  /\ Taken(c, act).h \in Cmds
         /\ Unprotectable => Trusted(Taken(c, act).h, pathval, cwd)
         /\ Unprotectable /\ "regbltin" \notin act =>
              Meant(Taken(c, act).ans, PathFor(act))
                = Resolve(Functions, c, act, PathFor(act), cwd)
<1> DEFINE first == (act \ {"altpath"}) \cup {"regbltin"}
           g == find_command(cmds, c, first, pathval, cwd)
           r == find_command(g.h, c, act, PathFor(act), cwd)
<1>1. /\ cmds \in Cmds /\ pathval \in Value \cup {None} /\ FirstPath \in Value
  BY HereIs, MachineHas, NameAssumption, ValueAssumption DEF Inv, Kept, PathOf
<1>2. /\ PathFor(act) \in Value \cup {None}
      /\ "altpath" \notin act => PathFor(act) = pathval
  BY <1>1 DEF PathFor
<1>3. Taken(c, act) = r
  BY DEF Taken
<1>4. "altpath" \notin first
  OBVIOUS
<1> HIDE DEF first
<1>5. g.h \in Cmds
  BY <1>1, FindTypes
<1> HIDE DEF g
<1>6. r.h \in Cmds
  BY <1>2, <1>5, FindTypes
<1> HIDE DEF r
<1>7. ASSUME Unprotectable
      PROVE  /\ Trusted(r.h, pathval, cwd)
             /\ "regbltin" \notin act =>
                  Meant(r.ans, PathFor(act)) = Resolve(Functions, c, act, PathFor(act), cwd)
  <2>1. Trusted(cmds, pathval, cwd)
    BY <1>7 DEF Inv
  <2>2. FindsRight(cmds, c, first, pathval, pathval, cwd, g)
    BY <1>1, <1>4, <2>1, FindIs DEF g
  <2>3. Trusted(g.h, pathval, cwd) /\ FunctionsOf(g.h) = FunctionsOf(cmds)
    BY <2>2 DEF FindsRight
  <2>4. FindsRight(g.h, c, act, pathval, PathFor(act), cwd, r)
    BY <1>1, <1>2, <1>5, <2>3, FindIs DEF r
  <2>5. FunctionsOf(cmds) = Functions
    BY DEF FunctionsOf, Functions
  <2> QED
    BY <2>3, <2>4, <2>5 DEF FindsRight
<1> QED
  BY <1>3, <1>6, <1>7

\* The actions on the table of commands alone.
LEMMA TabledKeeps ==
  ASSUME Inv, NEW h, Tabled(h), h \in Cmds, Unprotectable => Trusted(h, pathval, cwd)
  PROVE  Inv'
<1>1. /\ cmds' = h
      /\ UNCHANGED <<vartab, stack, dead, stop, optlist, cwd, curdir>>
  BY DEF Tabled, Unmoved
<1>2. pathval' = pathval
  BY <1>1 DEF pathval
<1> QED
  BY <1>1, <1>2 DEF Inv

\* hash and type look a name up as well.
LEMMA HashKeeps ==
  ASSUME Inv, NEW c \in Command, typecmd(c) \/ Hash(c)
  PROVE  Inv'
<1>1. cmds \in Cmds /\ pathval \in Value \cup {None}
  BY HereIs, MachineHas, NameAssumption DEF Inv, Kept, PathOf
<1>2. PICK w : w = cwd
  OBVIOUS
<1>3. PICK path : path = pathval
  OBVIOUS
<1>4. ASSUME NEW g \in Cmds, Unprotectable => Trusted(g, path, w)
      PROVE  /\ find_command(g, c, {}, path, w).h \in Cmds
             /\ Unprotectable => Trusted(find_command(g, c, {}, path, w).h, path, w)
  <2>1. find_command(g, c, {}, path, w).h \in Cmds
    BY <1>1, <1>3, <1>4, FindTypes
  <2>2. ASSUME Unprotectable
        PROVE  Trusted(find_command(g, c, {}, path, w).h, path, w)
    <3>1. FindsRight(g, c, {}, path, path, w, find_command(g, c, {}, path, w))
      BY <1>1, <1>3, <1>4, <2>2, FindIs
    <3> QED
      BY <3>1 DEF FindsRight
  <2> QED
    BY <2>1, <2>2
<1>5. CASE typecmd(c)
  <2>1. PICK h : h = IF cmds.tab[c] # Missing THEN cmds
                     ELSE find_command(cmds, c, {}, path, w).h
    OBVIOUS
  <2>2. Tabled(h)
    BY <1>2, <1>3, <1>5, <2>1 DEF typecmd
  <2>3. PICK g : g = cmds
    OBVIOUS
  <2>4. g \in Cmds /\ (Unprotectable => Trusted(g, path, w))
    BY <1>1, <1>2, <1>3, <2>3 DEF Inv
  <2>5. h \in Cmds /\ (Unprotectable => Trusted(h, path, w))
    BY <1>4, <2>1, <2>3, <2>4
  <2> QED
    BY <1>2, <1>3, <2>2, <2>5, TabledKeeps
<1>6. CASE Hash(c)
  <2>1. PICK g : g = IF Movable(cmds, c) THEN addcmdentry(cmds, c, Missing) ELSE cmds
    OBVIOUS
  <2>2. PICK h : h = find_command(g, c, {}, path, w).h
    OBVIOUS
  <2>3. Tabled(h)
    BY <1>2, <1>3, <1>6, <2>1, <2>2 DEF Hash, hashcmd
  <2>4. g \in Cmds /\ (Unprotectable => Trusted(g, path, w))
    <3>1. Missing \in Entry
      BY DEF Missing, Entry
    <3>2. addcmdentry(cmds, c, Missing) \in Cmds
      BY <1>1, <3>1, CommandTypes
    <3>3. Trusted(cmds, path, w) => Trusted(addcmdentry(cmds, c, Missing), path, w)
      BY <1>1, <3>1, PlainTrue, AddTrue
    <3> QED
      BY <1>1, <1>2, <1>3, <2>1, <3>2, <3>3 DEF Inv
  <2>5. h \in Cmds /\ (Unprotectable => Trusted(h, path, w))
    BY <1>4, <2>2, <2>4
  <2> QED
    BY <1>2, <1>3, <2>3, <2>5, TabledKeeps
<1> QED
  BY <1>5, <1>6

-----------------------------------------------------------------------------
(* The theorems.                                                           *)

\* The invariant holds at the start.
LEMMA InitIsInv == Init => Inv
<1> SUFFICES ASSUME Init
             PROVE  Inv
  OBVIOUS
<1>1. 0 \in 0 .. Blocks /\ 1 \in 0 .. Blocks
  BY BlocksType
<1>2. FirstPath \in Value /\ Home \in Value
  BY ValueAssumption
<1>3. vartab \in [Name -> Var]
  <2> DEFINE p == [here |-> TRUE, flags |-> {"STRFIXED", "TEXTFIXED"},
                   text |-> [block |-> 0, val |-> FirstPath]]
             q == [here |-> TRUE, flags |-> {"EXPORT"}, text |-> [block |-> 1, val |-> Home]]
  <2>1. p \in Var
    BY <1>1, <1>2 DEF Var, Text, Flag
  <2>2. q \in Var
    BY <1>1, <1>2 DEF Var, Text, Flag
  <2>3. Gone \in Var
    BY <1>1 DEF Var, Text, Gone, NoText
  <2>4. vartab = [n \in Name |-> IF n = "PATH" THEN p ELSE IF n = "PWD" THEN q ELSE Gone]
    BY DEF Init
  <2> HIDE DEF p, q
  <2> QED
    BY <2>1, <2>2, <2>3, <2>4
<1>4. /\ stack \in Seq(Seq(Saved)) /\ optlist \in BOOLEAN /\ cwd \in Value /\ curdir \in Value
      /\ stop \in 0 .. Len(stack) /\ dead = {}
  <2>1. /\ stack = <<>> /\ optlist = FALSE /\ cwd = Home /\ curdir = Home /\ stop = 0 /\ dead = {}
    BY DEF Init
  <2>2. <<>> \in Seq(Seq(Saved)) /\ Len(<<>>) = 0
    OBVIOUS
  <2>3. stop \in 0 .. Len(stack)
    <3>1. Len(stack) = 0
      BY <2>1, <2>2
    <3>2. 0 \in 0 .. 0
      OBVIOUS
    <3> QED
      BY <2>1, <3>1, <3>2
  <2> QED
    BY <1>2, <2>1, <2>2, <2>3
<1>5. NoCommands \in [Command -> Entry]
  BY DEF NoCommands, Missing, Entry
<1>6. cmds \in Cmds
  <2>1. PlaceOfBuiltins(FirstPath) \in Int
    BY <1>2, PlaceOfBuiltinsIs
  <2> QED
    BY <1>5, <2>1 DEF Init, Cmds
<1>7. \A i, j : ~ Place(stack, i, j)
  <2>1. stack = <<>>
    BY DEF Init
  <2>2. Len(stack) = 0
    BY <2>1
  <2> QED
    BY <2>2 DEF Place
<1>8. Bounded(stack)
  <2>1. stack = <<>> /\ Len(stack) = 0
    BY DEF Init
  <2> QED
    BY <2>1 DEF Bounded
<1>9. Ownership(vartab, stack, dead)
  BY <1>4, <1>7 DEF Ownership, Unshared, Stacked, Harmless, Holds
<1>10. /\ vartab["PATH"].here /\ vartab["PATH"].flags = {"STRFIXED", "TEXTFIXED"}
       /\ pathval = FirstPath
       /\ \A n \in Name : n # "PATH" => vartab[n].flags \in {{}, {"EXPORT"}}
  BY NameAssumption DEF Init, Gone, pathval
<1>11. AllFine(vartab, stack)
  BY <1>7, <1>10 DEF AllFine, Fine
<1>12. Trusted(cmds, pathval, cwd)
  <2>1. cmds.builtinloc = PlaceOfBuiltins(pathval) /\ \A c \in Command : cmds.tab[c] = Missing
    BY <1>10 DEF Init, NoCommands
  <2> QED
    BY <2>1, PlainTrue DEF Trusted
<1> QED
  BY <1>3, <1>4, <1>6, <1>8, <1>9, <1>11, <1>12 DEF Inv

\* Every step keeps it.
LEMMA NextKeepsInv == Inv /\ [Next]_vars => Inv'
<1> SUFFICES ASSUME Inv, [Next]_vars
             PROVE  Inv'
  OBVIOUS
<1>1. CASE OfVariables
  <2>0. None \in Value \cup {None}
    OBVIOUS
  <2>1. ASSUME NEW n \in Name, NEW v \in Value,
               \/ Assign(n, v) \/ exportcmd(n, v, "EXPORT")
               \/ localcmd(n, v) \/ pushlocalvars(n, v)
        PROVE  Inv'
    BY <2>1, AssignKeeps, ExportKeeps, LocalKeeps, PushKeeps
  <2>2. ASSUME NEW n \in Name, NEW v \in Value, n \in Protectable, exportcmd(n, v, "READONLY")
        PROVE  Inv'
    BY <2>2, ExportKeeps
  <2>3. ASSUME NEW n \in Name, exportcmd(n, None, "EXPORT") \/ localcmd(n, None)
        PROVE  Inv'
    BY <2>0, <2>3, ExportKeeps, LocalKeeps
  <2>4. ASSUME NEW n \in Protectable, exportcmd(n, None, "READONLY")
        PROVE  Inv'
    <3>1. n \in Name
      BY NameAssumption
    <3> QED
      BY <2>0, <2>4, <3>1, ExportKeeps
  <2>5. ASSUME NEW n \in Unsettable, unsetcmd(n)
        PROVE  Inv'
    <3>1. n \in Name /\ Home \in Value
      BY NameAssumption, ValueAssumption
    <3> QED
      BY <2>5, <3>1, AssignKeeps
  <2>6. ASSUME pushlocalvars("PATH", None)
        PROVE  Inv'
    BY <2>0, <2>6, NameAssumption, PushKeeps
  <2>7. ASSUME setcmd
        PROVE  Inv'
    <3>1. PICK h : h = Here
      OBVIOUS
    <3>2. Kept(h) /\ h.stk = stack /\ Done(h)
      BY <2>7, <3>1, HereIs DEF setcmd
    <3>3. optlist' \in BOOLEAN /\ cwd' = cwd /\ curdir' = curdir
      BY <2>7 DEF setcmd, Inv
    <3>4. Len(stack) <= Len(h.stk)
      <4>1. h.stk \in Seq(Seq(Saved))
        BY <3>2, MachineHas, NameAssumption DEF Kept
      <4>2. Len(h.stk) \in Nat
        BY <4>1
      <4> QED
        BY <3>2, <4>2
    <3> QED
      BY <3>1, <3>2, <3>3, <3>4, DoneKeeps
  <2>8. ASSUME LocalDash
        PROVE  Inv'
    BY <2>0, <2>8, NameAssumption, LocalKeeps
  <2>9. ASSUME Return \/ PopLocal \/ PopScope
        PROVE  Inv'
    BY <2>9, PopKeeps
  <2> QED
    BY <1>1, <2>1, <2>2, <2>3, <2>4, <2>5, <2>6, <2>7, <2>8, <2>9 DEF OfVariables
<1>2. CASE OfCommands
  <2>0. cmds \in Cmds /\ (Unprotectable => Trusted(cmds, pathval, cwd))
    BY DEF Inv
  <2>1. ASSUME NEW d \in Directory, docd(d)
        PROVE  Inv'
    BY <2>1, CdKeeps
  <2>2. ASSUME NEW c \in Command, NEW act \in Acts, LookUp(c, act)
        PROVE  Inv'
    <3>1. PICK h : h = Taken(c, act).h
      OBVIOUS
    <3>2. Tabled(h)
      BY <2>2, <3>1 DEF LookUp
    <3>3. h \in Cmds /\ (Unprotectable => Trusted(h, pathval, cwd))
      BY <3>1, TakenIs
    <3> QED
      BY <3>2, <3>3, TabledKeeps
  <2>3. ASSUME NEW c \in Command, typecmd(c) \/ Hash(c)
        PROVE  Inv'
    BY <2>3, HashKeeps
  <2>4. ASSUME NEW c \in Command, Define(c)
        PROVE  Inv'
    <3>1. PICK h : h = defun(cmds, c)
      OBVIOUS
    <3>2. Tabled(h)
      BY <2>4, <3>1 DEF Define
    <3>3. PICK g : g = cmds
      OBVIOUS
    <3>4. h \in Cmds
      <4>1. [type |-> "function", index |-> -1, rehash |-> FALSE] \in Entry
        BY DEF Entry
      <4> QED
        BY <2>0, <3>1, <4>1, CommandTypes DEF defun
    <3>5. Unprotectable => Trusted(h, pathval, cwd)
      BY <2>0, <3>1, FunctionTrue
    <3> QED
      BY <3>2, <3>4, <3>5, TabledKeeps
  <2>5. ASSUME NEW c \in Command, Undefine(c)
        PROVE  Inv'
    <3>1. PICK h : h = unsetfunc(cmds, c)
      OBVIOUS
    <3>2. Tabled(h)
      BY <2>5, <3>1 DEF Undefine
    <3>4. h \in Cmds
      <4>1. Missing \in Entry
        BY DEF Missing, Entry
      <4> QED
        BY <2>0, <3>1, <4>1, CommandTypes DEF unsetfunc
    <3>5. Unprotectable => Trusted(h, pathval, cwd)
      BY <2>0, <3>1, FunctionTrue
    <3> QED
      BY <3>2, <3>4, <3>5, TabledKeeps
  <2>6. ASSUME HashR
        PROVE  Inv'
    <3>1. PICK h : h = clearcmdentry(cmds)
      OBVIOUS
    <3>2. Tabled(h)
      BY <2>6, <3>1 DEF HashR
    <3>4. h \in Cmds
      BY <2>0, <3>1, CommandTypes
    <3>5. Unprotectable => Trusted(h, pathval, cwd)
      BY <2>0, <3>1, ClearTrue
    <3> QED
      BY <3>2, <3>4, <3>5, TabledKeeps
  <2> QED
    BY <1>2, <2>1, <2>2, <2>3, <2>4, <2>5, <2>6 DEF OfCommands
<1>3. CASE UNCHANGED vars
  BY <1>3 DEF vars, Inv, pathval
<1> QED
  BY <1>1, <1>2, <1>3 DEF Next

\* The invariant holds always, whatever a user makes readonly or unsets.
THEOREM InvariantTheorem == Spec => []Inv
BY InitIsInv, NextKeepsInv, PTL DEF Spec

\* The variables have their types; among them, that unwindlocalvars never has a depth to
\* reach that is above the stack.
THEOREM TypeTheorem == Spec => []TypeOK
<1>1. Inv => TypeOK
  BY DEF Inv, TypeOK, Cmds
<1> QED
  BY <1>1, InvariantTheorem, PTL

\* No text is freed while the table of variables or a saved variable still points to it
\* (setvareq, mklocal, poplocalvars).
THEOREM TextsTheorem == Spec => []TextsAreLive
<1>1. Inv => TextsAreLive
  BY DEF Inv, TextsAreLive
<1> QED
  BY <1>1, InvariantTheorem, PTL

\* The table of commands is cleared or marked often enough: any command is taken for what
\* a search of PATH finds now (find_command, changepath, hashcd), as long as no user makes
\* PWD or OLDPWD readonly, for then cd fails after it changed the directory.
THEOREM LookupTheorem ==
  ASSUME Unprotectable
  PROVE  Spec => []LookupIsSearch
<1>1. Inv => LookupIsSearch
  <2> SUFFICES ASSUME Inv, NEW c \in Command, NEW act \in Acts
               PROVE  Meant(Taken(c, act).ans, PathFor(act))
                        = Resolve(Functions, c, act, PathFor(act), cwd)
    BY DEF LookupIsSearch
  <2>1. "regbltin" \notin act
    BY DEF Acts
  <2> QED
    BY <2>1, TakenIs
<1> QED
  BY <1>1, InvariantTheorem, PTL

-----------------------------------------------------------------------------
(* The marks of variables that some scope will put back.                   *)

\* n is saved in the stack, or below place i, j of it.
SavedIn(stk, n) == \E i, j \in Nat : Place(stk, i, j) /\ stk[i][j].name = n
SavedBelow(stk, n, i, j) ==
  \E x, y \in Nat : Place(stk, x, y) /\ Earlier(x, y, i, j) /\ stk[x][y].name = n

\* A variable that is saved is marked as in use, and none is for another reason but
\* PATH, and a readonly one which local refused to set.
Tight(n, flags, saved) ==
  /\ saved => "STRFIXED" \in flags
  /\ "STRFIXED" \in flags /\ "READONLY" \notin flags => n = "PATH" \/ saved

\* What is not there has no marks; what is there cannot be taken for it when saved.
Shaped(v) == (~ v.here => v = Gone) /\ (v.here => v.flags # {"UNSET"})

Scoped(t, stk) ==
  /\ \A n \in Name : Shaped(t[n]) /\ Tight(n, t[n].flags, SavedIn(stk, n))
  /\ \A i, j \in Nat : Place(stk, i, j) /\ stk[i][j].name \in Name =>
       Tight(stk[i][j].name, stk[i][j].flags, SavedBelow(stk, stk[i][j].name, i, j))

\* Option a is off.
NoAllExport == ~ AllExport

\* What setvareq leaves of variable v.
Goes(v, given) ==
  "UNSET" \in given /\ given \cap {"EXPORT", "READONLY", "STRFIXED"} = {} /\ "STRFIXED" \notin v.flags
NewFlags(v, given) == given \cup (v.flags \ {"TEXTFIXED", "UNSET"})
NewVar(v, val, given, w) ==
  IF Goes(v, given) THEN w = Gone
  ELSE w.here /\ w.flags = NewFlags(v, given) /\ w.text.val = val

\* What setvareq makes of m: r.
AsShape(m, n, val, given, r) ==
  /\ r.stk = m.stk /\ r.err = m.err
  /\ \E w \in Var : r.vars = [m.vars EXCEPT ![n] = w] /\ NewVar(m.vars[n], val, given, w)

\* setvareq changes the one variable, as its marks say.
LEMMA SetShape ==
  ASSUME NoAllExport, NEW m \in Machine, Bounded(m.stk), NEW n \in Name, NEW val \in Value \cup {None},
         NEW given \in SUBSET Flag, "READONLY" \notin m.vars[n].flags
  PROVE  AsShape(m, n, val, given, setvareq(m, n, val, given))
<1> DEFINE v == m.vars[n]
           r == setvareq(m, n, val, given)
           g == IF v.here THEN func(m, n, val) ELSE m
           c == IF v.here /\ n = "PATH" THEN changepath(m.cmds, val) ELSE m.cmds
           f == ckfree(g, n)
           b == ckmalloc(f, n)
           new == [here |-> TRUE, flags |-> NewFlags(v, given), text |-> [block |-> b, val |-> val]]
<1>1. m.vars \in [Name -> Var] /\ v \in Var /\ v.flags \in SUBSET Flag
  BY MachineHas
<1>2. Freed(m, n, c, f)
  <2>1. (g = m /\ c = m.cmds)
        \/ (g = func(m, n, val) /\ c = IF n = "PATH" THEN changepath(m.cmds, val) ELSE m.cmds)
    OBVIOUS
  <2> HIDE DEF g, c
  <2> QED
    BY <2>1, FreeIs
<1>3. f \in Machine /\ f.stk = m.stk /\ f.err = m.err /\ f.vars = [m.vars EXCEPT ![n].text = NoText]
  BY <1>2 DEF Freed
<1>4. b \in 1 .. Blocks
  <2>1. f.vars[n].text.block = 0
    BY <1>1, <1>3 DEF NoText, Var
  <2> HIDE DEF f
  <2> QED
    BY <1>3, <2>1, AllocIs
<1>5. Gone \in Var /\ new \in Var
  <2>1. Gone \in Var
    BY BlocksType DEF Var, Text, Gone, NoText
  <2>2. [block |-> b, val |-> val] \in Text
    <3> HIDE DEF b
    <3> QED
      BY <1>4, BlocksType DEF Text
  <2>3. NewFlags(v, given) \in SUBSET Flag
    BY <1>1 DEF NewFlags
  <2> HIDE DEF b, v
  <2> QED
    BY <2>1, <2>2, <2>3 DEF Var
<1>6. ((given \cup (IF AllExport THEN {"EXPORT"} ELSE {}))
         \cap {"EXPORT", "READONLY", "STRFIXED", "UNSET"}) \cup (v.flags \cap {"STRFIXED"}) = {"UNSET"}
      <=> Goes(v, given)
  BY DEF Goes, NoAllExport
<1>7. r = IF Goes(v, given) THEN [f EXCEPT !.vars[n] = Gone]
          ELSE [f EXCEPT !.dead = @ \ {<<n, b>>}, !.vars[n] = new]
  <2>1. given \cup (IF AllExport THEN {"EXPORT"} ELSE {}) = given
    BY DEF NoAllExport
  <2> HIDE DEF f, b
  <2> QED
    BY <1>6, <2>1 DEF setvareq, NewFlags, f, b
<1> HIDE DEF f, b, r, g, c
<1>8. \A w \in Var : [f.vars EXCEPT ![n] = w] = [m.vars EXCEPT ![n] = w]
  BY <1>1, <1>3
<1>9. CASE Goes(v, given)
  <2>1. r.vars = [f.vars EXCEPT ![n] = Gone] /\ r.stk = f.stk /\ r.err = f.err
    BY <1>3, <1>7, <1>9 DEF Machine
  <2> QED
    BY <1>3, <1>5, <1>8, <1>9, <2>1 DEF r, NewVar, AsShape
<1>10. CASE ~ Goes(v, given)
  <2> HIDE DEF new
  <2>1. r.vars = [f.vars EXCEPT ![n] = new] /\ r.stk = f.stk /\ r.err = f.err
    BY <1>3, <1>7, <1>10 DEF Machine
  <2>2. NewVar(v, val, given, new)
    BY <1>10 DEF NewVar, new
  <2> QED
    BY <1>3, <1>5, <1>8, <2>1, <2>2 DEF r, AsShape
<1> QED
  BY <1>9, <1>10

-----------------------------------------------------------------------------
(* The variables as scopes.                                                *)

EnvOf(t) == [n \in Name |-> Shown(t[n].flags, t[n].text.val)]
OptionsOf(s) == IF "-" \in NamesOf(s) THEN {s[FirstOf(s, "-")].on} ELSE {}
LocalsOf(s) == [n \in NamesOf(s) \ {"-"} |-> ShownSaved(s[FirstOf(s, n)])]
ScopeOf(s) == [vars |-> LocalsOf(s), option |-> OptionsOf(s)]
ScopesOf(stk) == [i \in 1 .. Len(stk) |-> ScopeOf(stk[i])]
OptionAfter(s, on) == IF "-" \in NamesOf(s) THEN s[FirstOf(s, "-")].on ELSE on

\* The first place of a name.
LEMMA FirstIs ==
  ASSUME NEW s \in Seq(Saved), NEW n \in NamesOf(s)
  PROVE  /\ FirstOf(s, n) \in 1 .. Len(s) /\ s[FirstOf(s, n)].name = n
         /\ \A j \in 1 .. Len(s) : s[j].name = n => FirstOf(s, n) <= j
         /\ s[FirstOf(s, n)] \in Saved
<1> DEFINE S == {j \in DOMAIN s : s[j].name = n}
<1>1. DOMAIN s = 1 .. Len(s) /\ Len(s) \in Nat
  OBVIOUS
<1>2. S \subseteq Nat /\ S # {}
  BY <1>1 DEF NamesOf
<1>3. Min(S) \in S /\ \A j \in S : Min(S) <= j
  BY <1>2, LeastOf
<1> QED
  BY <1>1, <1>3 DEF FirstOf

\* It is the only one that is first.
LEMMA FirstWhen ==
  ASSUME NEW s \in Seq(Saved), NEW n, NEW i \in 1 .. Len(s), s[i].name = n,
         \A j \in 1 .. Len(s) : s[j].name = n => i <= j
  PROVE  FirstOf(s, n) = i /\ n \in NamesOf(s)
<1>1. n \in NamesOf(s)
  BY DEF NamesOf
<1>2. /\ FirstOf(s, n) \in 1 .. Len(s) /\ s[FirstOf(s, n)].name = n
      /\ \A j \in 1 .. Len(s) : s[j].name = n => FirstOf(s, n) <= j
  BY <1>1, FirstIs
<1>3. i <= FirstOf(s, n) /\ FirstOf(s, n) <= i /\ Len(s) \in Nat
  BY <1>2
<1> QED
  BY <1>1, <1>2, <1>3

\* One more saved variable: the first of each name stays the first.
LEMMA FirstAppended ==
  ASSUME NEW s \in Seq(Saved), NEW l \in Saved
  PROVE  LET u == Append(s, l)
         IN  /\ u \in Seq(Saved) /\ NamesOf(u) = NamesOf(s) \cup {l.name}
             /\ \A n \in NamesOf(s) : u[FirstOf(u, n)] = s[FirstOf(s, n)]
             /\ l.name \notin NamesOf(s) => u[FirstOf(u, l.name)] = l
<1> DEFINE u == Append(s, l)
<1>1. /\ u \in Seq(Saved) /\ Len(u) = Len(s) + 1 /\ Len(s) \in Nat
      /\ u[Len(s) + 1] = l /\ \A i \in 1 .. Len(s) : u[i] = s[i]
  BY AppendProperties
<1> HIDE DEF u
<1>2. DOMAIN u = 1 .. Len(s) + 1 /\ DOMAIN s = 1 .. Len(s)
  BY <1>1
<1>3. NamesOf(u) = NamesOf(s) \cup {l.name}
  <2>1. \A i \in DOMAIN s : i \in DOMAIN u /\ u[i] = s[i]
    BY <1>1, <1>2
  <2>2. \A i \in DOMAIN u : i \in DOMAIN s \/ u[i] = l
    BY <1>1, <1>2
  <2>3. Len(s) + 1 \in DOMAIN u /\ u[Len(s) + 1] = l
    BY <1>1, <1>2
  <2> QED
    BY <2>1, <2>2, <2>3 DEF NamesOf
<1>4. ASSUME NEW n \in NamesOf(s)
      PROVE  u[FirstOf(u, n)] = s[FirstOf(s, n)]
  <2> DEFINE i == FirstOf(s, n)
  <2>1. /\ i \in 1 .. Len(s) /\ s[i].name = n
        /\ \A j \in 1 .. Len(s) : s[j].name = n => i <= j
    BY FirstIs
  <2> HIDE DEF i
  <2>2. i \in 1 .. Len(u) /\ u[i] = s[i]
    BY <1>1, <2>1
  <2>3. \A j \in 1 .. Len(u) : u[j].name = n => i <= j
    BY <1>1, <2>1
  <2>4. FirstOf(u, n) = i
    BY <1>1, <2>1, <2>2, <2>3, FirstWhen
  <2> QED
    BY <2>2, <2>4 DEF i
<1>5. ASSUME l.name \notin NamesOf(s)
      PROVE  u[FirstOf(u, l.name)] = l
  <2>1. \A j \in 1 .. Len(s) : s[j].name # l.name
    BY <1>2, <1>5 DEF NamesOf
  <2>2. \A j \in 1 .. Len(u) : u[j].name = l.name => Len(s) + 1 <= j
    BY <1>1, <2>1
  <2>3. Len(s) + 1 \in 1 .. Len(u)
    BY <1>1
  <2>4. FirstOf(u, l.name) = Len(s) + 1
    BY <1>1, <2>2, <2>3, FirstWhen
  <2> QED
    BY <1>1, <2>4
<1> QED
  BY <1>1, <1>3, <1>4, <1>5 DEF u

\* The scope has one more local variable, if it was not local before.
LEMMA ScopeAppended ==
  ASSUME NEW s \in Seq(Saved), NEW l \in Saved, l.name \in Name
  PROVE  /\ ScopeOf(Append(s, l)) =
              [vars |-> [n \in DOMAIN LocalsOf(s) \cup {l.name} |->
                           IF n \in DOMAIN LocalsOf(s) THEN LocalsOf(s)[n] ELSE ShownSaved(l)],
               option |-> OptionsOf(s)]
         /\ \A f \in [Name -> Promise!Variable] : ShownSaved(l) \in Promise!Variable =>
              Overlay(Append(s, l), f) = Overlay(s, [f EXCEPT ![l.name] = ShownSaved(l)])
         /\ \A on : OptionAfter(Append(s, l), on) = OptionAfter(s, on)
<1> DEFINE u == Append(s, l)
<1>1. /\ u \in Seq(Saved) /\ NamesOf(u) = NamesOf(s) \cup {l.name}
      /\ \A n \in NamesOf(s) : u[FirstOf(u, n)] = s[FirstOf(s, n)]
      /\ l.name \notin NamesOf(s) => u[FirstOf(u, l.name)] = l
  BY FirstAppended
<1>2. l.name # "-"
  BY NameAssumption
<1> HIDE DEF u
<1>3. OptionsOf(u) = OptionsOf(s)
  BY <1>1, <1>2 DEF OptionsOf
<1>4. LocalsOf(u) = [n \in DOMAIN LocalsOf(s) \cup {l.name} |->
                       IF n \in DOMAIN LocalsOf(s) THEN LocalsOf(s)[n] ELSE ShownSaved(l)]
  <2>1. DOMAIN LocalsOf(s) = NamesOf(s) \ {"-"} /\ DOMAIN LocalsOf(u) = NamesOf(u) \ {"-"}
    BY DEF LocalsOf
  <2>2. DOMAIN LocalsOf(u) = DOMAIN LocalsOf(s) \cup {l.name}
    BY <1>1, <1>2, <2>1
  <2>3. \A n \in NamesOf(s) \ {"-"} : LocalsOf(u)[n] = LocalsOf(s)[n]
    BY <1>1 DEF LocalsOf
  <2>4. l.name \notin NamesOf(s) => LocalsOf(u)[l.name] = ShownSaved(l)
    BY <1>1, <1>2 DEF LocalsOf
  <2>5. LocalsOf(u) = [n \in DOMAIN LocalsOf(u) |-> LocalsOf(u)[n]]
    BY DEF LocalsOf
  <2> QED
    BY <1>2, <2>1, <2>2, <2>3, <2>4, <2>5
<1>5. ASSUME NEW f \in [Name -> Promise!Variable]
      PROVE  Overlay(u, f) = Overlay(s, [f EXCEPT ![l.name] = ShownSaved(l)])
  <2>1. ASSUME NEW n \in Name
        PROVE  Overlay(u, f)[n] = Overlay(s, [f EXCEPT ![l.name] = ShownSaved(l)])[n]
    BY <1>1, <2>1 DEF Overlay
  <2> QED
    BY <2>1 DEF Overlay
<1>6. \A on : OptionAfter(u, on) = OptionAfter(s, on)
  BY <1>1, <1>2 DEF OptionAfter
<1> QED
  BY <1>3, <1>4, <1>5, <1>6 DEF u, ScopeOf

\* The scope has saved the options.
LEMMA ScopeDashed ==
  ASSUME NEW s \in Seq(Saved), NEW l \in Saved, l.name = "-"
  PROVE  /\ ScopeOf(Append(s, l)) =
              [vars |-> LocalsOf(s),
               option |-> IF OptionsOf(s) = {} THEN {l.on} ELSE OptionsOf(s)]
         /\ \A f : Overlay(Append(s, l), f) = Overlay(s, f)
         /\ \A on : OptionAfter(Append(s, l), on) = OptionAfter(s, l.on)
<1> DEFINE u == Append(s, l)
<1>1. /\ u \in Seq(Saved) /\ NamesOf(u) = NamesOf(s) \cup {l.name}
      /\ \A n \in NamesOf(s) : u[FirstOf(u, n)] = s[FirstOf(s, n)]
      /\ l.name \notin NamesOf(s) => u[FirstOf(u, l.name)] = l
  BY FirstAppended
<1> HIDE DEF u
<1>2. OptionsOf(u) = IF OptionsOf(s) = {} THEN {l.on} ELSE OptionsOf(s)
  BY <1>1 DEF OptionsOf
<1>3. LocalsOf(u) = LocalsOf(s)
  BY <1>1 DEF LocalsOf
<1>4. \A f : Overlay(u, f) = Overlay(s, f)
  BY <1>1, NameAssumption DEF Overlay
<1>5. \A on : OptionAfter(u, on) = OptionAfter(s, l.on)
  BY <1>1 DEF OptionAfter
<1> QED
  BY <1>2, <1>3, <1>4, <1>5 DEF u, ScopeOf

\* No local variables.
LEMMA ScopeEmpty ==
  /\ ScopeOf(<<>>) = Promise!Bare
  /\ \A f \in [Name -> Promise!Variable] : Overlay(<<>>, f) = f
  /\ \A on : OptionAfter(<<>>, on) = on
<1>1. NamesOf(<<>>) = {}
  BY DEF NamesOf
<1>2. LocalsOf(<<>>) = <<>>
  <2>1. LocalsOf(<<>>) = [n \in {} |-> ShownSaved(<<>>[FirstOf(<<>>, n)])]
    BY <1>1 DEF LocalsOf
  <2> QED
    BY <2>1
<1> QED
  BY <1>1, <1>2 DEF ScopeOf, OptionsOf, Overlay, OptionAfter, Promise!Bare

\* A function is left: its local variables are what they were.
LEMMA OverlayIs ==
  ASSUME NEW s \in Seq(Saved), NEW f \in [Name -> Promise!Variable]
  PROVE  /\ Overlay(s, f) = [n \in Name |-> IF n \in DOMAIN LocalsOf(s) THEN LocalsOf(s)[n] ELSE f[n]]
         /\ \A on \in BOOLEAN : OptionAfter(s, on) =
              IF OptionsOf(s) = {} THEN on ELSE TRUE \in OptionsOf(s)
<1>1. \A n \in Name : n \in DOMAIN LocalsOf(s) <=> n \in NamesOf(s)
  BY NameAssumption DEF LocalsOf
<1>2. \A n \in Name : n \in NamesOf(s) => LocalsOf(s)[n] = ShownSaved(s[FirstOf(s, n)])
  BY NameAssumption DEF LocalsOf
<1>3. "-" \in NamesOf(s) => s[FirstOf(s, "-")].on \in BOOLEAN
  BY FirstIs DEF Saved
<1>4. Overlay(s, f) = [n \in Name |-> IF n \in DOMAIN LocalsOf(s) THEN LocalsOf(s)[n] ELSE f[n]]
  BY <1>1, <1>2 DEF Overlay
<1>5. ASSUME NEW on \in BOOLEAN
      PROVE  OptionAfter(s, on) = IF OptionsOf(s) = {} THEN on ELSE TRUE \in OptionsOf(s)
  <2>1. CASE "-" \in NamesOf(s)
    <3> DEFINE b == s[FirstOf(s, "-")].on
    <3>1. OptionAfter(s, on) = b /\ OptionsOf(s) = {b}
      BY <2>1 DEF OptionAfter, OptionsOf
    <3>2. b \in BOOLEAN
      BY <1>3, <2>1
    <3> HIDE DEF b
    <3>3. CASE b = TRUE
      <4>1. TRUE \in OptionsOf(s) /\ OptionsOf(s) # {}
        BY <3>1, <3>3
      <4> QED
        BY <3>1, <3>3, <4>1
    <3>4. CASE b = FALSE
      <4>1. OptionsOf(s) = {FALSE}
        BY <3>1, <3>4
      <4>2. (TRUE \in {FALSE}) = FALSE
        OBVIOUS
      <4>3. (TRUE \in OptionsOf(s)) = FALSE
        BY ONLY <4>1, <4>2, Zenon
      <4>4. OptionAfter(s, on) = FALSE
        BY <3>1, <3>4
      <4>5. OptionsOf(s) # {}
        BY <4>1
      <4>6. (IF OptionsOf(s) = {} THEN on ELSE TRUE \in OptionsOf(s)) = (TRUE \in OptionsOf(s))
        BY ONLY <4>5, Zenon
      <4> QED
        BY ONLY <4>3, <4>4, <4>6, Zenon
    <3> QED
      BY <3>2, <3>3, <3>4
  <2>2. CASE "-" \notin NamesOf(s)
    BY <2>2 DEF OptionAfter, OptionsOf
  <2> QED
    BY <2>1, <2>2
<1> QED
  BY <1>4, <1>5

-----------------------------------------------------------------------------
(* What a state shows.                                                     *)

View ==
  /\ Running => /\ ShownEnv = EnvOf(vartab) /\ ShownScopes = ScopesOf(stack)
                /\ ShownOption = optlist
  /\ ~ Running => /\ stack # <<>>
                  /\ ShownEnv = Overlay(Last(stack), EnvOf(vartab))
                  /\ ShownScopes = ScopesOf(Front(stack))
                  /\ ShownOption = OptionAfter(Last(stack), optlist)

\* The variables have values and marks.
LEMMA EnvType ==
  ASSUME NEW t \in [Name -> Var]
  PROVE  EnvOf(t) \in [Name -> Promise!Variable]
<1>1. ASSUME NEW n \in Name
      PROVE  Shown(t[n].flags, t[n].text.val) \in Promise!Variable
  <2>1. t[n] \in Var
    OBVIOUS
  <2>2. t[n].text.val \in Value \cup {None}
    BY <2>1 DEF Var, Text
  <2> QED
    BY <2>2 DEF Shown, Promise!Variable
<1> QED
  BY <1>1 DEF EnvOf

\* The stack without its last scope.
LEMMA FrontIs ==
  ASSUME NEW stk \in Seq(Seq(Saved)), stk # <<>>
  PROVE  /\ Front(stk) \in Seq(Seq(Saved)) /\ Len(Front(stk)) = Len(stk) - 1
         /\ \A i \in 1 .. Len(stk) - 1 : Front(stk)[i] = stk[i]
         /\ Last(stk) = stk[Len(stk)] /\ Last(stk) \in Seq(Saved)
         /\ Len(stk) \in Nat /\ Len(stk) > 0
<1>0. Len(stk) \in Nat /\ Len(stk) > 0
  BY EmptySeq
<1>1. Last(stk) = stk[Len(stk)] /\ stk[Len(stk)] \in Seq(Saved)
  BY <1>0 DEF Last
<1>2. PICK k : k = Len(stk) - 1
  OBVIOUS
<1>3. k \in Nat /\ k \in Int /\ 1 \in Int
  BY <1>0, <1>2
<1>4. \A i \in 1 .. k : stk[i] \in Seq(Saved)
  BY <1>0, <1>2
<1>5. /\ SubSeq(stk, 1, k) \in Seq(Seq(Saved))
      /\ Len(SubSeq(stk, 1, k)) = IF 1 <= k THEN k - 1 + 1 ELSE 0
      /\ \A i \in 1 .. k - 1 + 1 : SubSeq(stk, 1, k)[i] = stk[1 + i - 1]
  BY ONLY <1>3, <1>4, SubSeqProperties
<1>6. Front(stk) = SubSeq(stk, 1, k)
  BY <1>2 DEF Front
<1>7. Len(SubSeq(stk, 1, k)) = k
  BY ONLY <1>3, <1>5
<1>8. \A i \in 1 .. k : SubSeq(stk, 1, k)[i] = stk[i]
  <2>1. \A i \in 1 .. k : i \in 1 .. k - 1 + 1 /\ 1 + i - 1 = i
    BY ONLY <1>3
  <2> QED
    BY ONLY <1>5, <2>1
<1> QED
  BY <1>0, <1>1, <1>2, <1>5, <1>6, <1>7, <1>8

\* Scopes are left one by one.
LEMMA ScopesFront ==
  ASSUME NEW stk \in Seq(Seq(Saved)), stk # <<>>
  PROVE  /\ Len(ScopesOf(stk)) = Len(stk) /\ ScopesOf(stk) # <<>>
         /\ SubSeq(ScopesOf(stk), 1, Len(stk) - 1) = ScopesOf(Front(stk))
         /\ ScopesOf(stk)[Len(stk)] = ScopeOf(Last(stk))
<1> DEFINE S == {ScopeOf(stk[i]) : i \in 1 .. Len(stk)}
           q == ScopesOf(stk)
<1>1. /\ Front(stk) \in Seq(Seq(Saved)) /\ Len(Front(stk)) = Len(stk) - 1
      /\ \A i \in 1 .. Len(stk) - 1 : Front(stk)[i] = stk[i]
      /\ Last(stk) = stk[Len(stk)] /\ Len(stk) \in Nat /\ Len(stk) > 0
  BY FrontIs
<1>2. q \in [1 .. Len(stk) -> S]
  BY DEF ScopesOf
<1>3. /\ q \in Seq(S) /\ Len(q) = Len(stk) /\ \A i \in 1 .. Len(stk) : q[i] = ScopeOf(stk[i])
  <2>1. q \in Seq(S)
    <3>1. PICK n \in Nat : n = Len(stk)
      BY <1>1
    <3>2. q \in [1 .. n -> S]
      BY <1>2, <3>1
    <3> HIDE DEF q, S
    <3> QED
      BY ONLY <3>2, n \in Nat, SeqDef
  <2>2. \A i \in 1 .. Len(stk) : q[i] = ScopeOf(stk[i])
    BY DEF ScopesOf
  <2>3. DOMAIN q = 1 .. Len(stk)
    BY DEF ScopesOf
  <2> HIDE DEF q, S
  <2>4. Len(q) = Len(stk)
    BY <1>1, <2>1, <2>3, LenProperties
  <2> QED
    BY <2>1, <2>2, <2>4
<1>4. q # <<>>
  <2> HIDE DEF q, S
  <2> QED
    BY <1>1, <1>3
<1> HIDE DEF q, S
<1>5. PICK k : k = Len(stk) - 1
  OBVIOUS
<1>6. k \in Nat /\ k \in Int /\ 1 \in Int /\ Len(stk) = k + 1
  BY <1>1, <1>5
<1>7. \A i \in 1 .. k : q[i] \in S
  BY <1>3, <1>6
<1>8. /\ SubSeq(q, 1, k) \in Seq(S)
      /\ Len(SubSeq(q, 1, k)) = IF 1 <= k THEN k - 1 + 1 ELSE 0
      /\ \A i \in 1 .. k - 1 + 1 : SubSeq(q, 1, k)[i] = q[1 + i - 1]
  BY ONLY <1>6, <1>7, SubSeqProperties
<1>9. Len(SubSeq(q, 1, k)) = k
  BY ONLY <1>6, <1>8
<1>10. \A i \in 1 .. k : SubSeq(q, 1, k)[i] = ScopeOf(Front(stk)[i])
  <2>1. \A i \in 1 .. k : i \in 1 .. k - 1 + 1 /\ 1 + i - 1 = i /\ i \in 1 .. Len(stk)
    BY ONLY <1>6
  <2>2. \A i \in 1 .. k : Front(stk)[i] = stk[i]
    BY <1>1, <1>5
  <2> QED
    BY ONLY <1>3, <1>8, <2>1, <2>2
<1>11. SubSeq(q, 1, k) = [i \in 1 .. k |-> ScopeOf(Front(stk)[i])]
  <2>1. DOMAIN SubSeq(q, 1, k) = 1 .. k
    BY ONLY <1>8, <1>9, LenProperties
  <2>2. SubSeq(q, 1, k) \in [1 .. k -> S]
    BY ONLY <1>8, <1>9, LenProperties
  <2> QED
    BY ONLY <1>10, <2>2
<1>12. ScopesOf(Front(stk)) = [i \in 1 .. k |-> ScopeOf(Front(stk)[i])]
  BY <1>1, <1>5 DEF ScopesOf
<1>13. SubSeq(q, 1, Len(stk) - 1) = ScopesOf(Front(stk))
  BY <1>5, <1>11, <1>12
<1>14. q[Len(stk)] = ScopeOf(Last(stk))
  BY <1>1, <1>3
<1> QED
  BY <1>3, <1>4, <1>13, <1>14 DEF q

\* What is shown before and after is a Leave of the promise.
LEMMA LeaveIs ==
  ASSUME NEW stk \in Seq(Seq(Saved)), stk # <<>>, NEW f \in [Name -> Promise!Variable],
         NEW on \in BOOLEAN,
         ShownEnv = f, ShownScopes = ScopesOf(stk), ShownOption = on,
         ShownEnv' = Overlay(Last(stk), f), ShownScopes' = ScopesOf(Front(stk)),
         ShownOption' = OptionAfter(Last(stk), on)
  PROVE  Promise!Leave
<1>1. /\ Len(ScopesOf(stk)) = Len(stk) /\ ScopesOf(stk) # <<>>
      /\ SubSeq(ScopesOf(stk), 1, Len(stk) - 1) = ScopesOf(Front(stk))
      /\ ScopesOf(stk)[Len(stk)] = ScopeOf(Last(stk))
  BY ScopesFront
<1>2. Last(stk) \in Seq(Saved)
  BY FrontIs
<1>3. /\ Overlay(Last(stk), f) = [n \in Name |-> IF n \in DOMAIN LocalsOf(Last(stk))
                                               THEN LocalsOf(Last(stk))[n] ELSE f[n]]
      /\ OptionAfter(Last(stk), on) =
           IF OptionsOf(Last(stk)) = {} THEN on ELSE TRUE \in OptionsOf(Last(stk))
  BY <1>2, OverlayIs
<1>4. Promise!Inner = ScopeOf(Last(stk))
  BY <1>1 DEF Promise!Inner
<1>5. Promise!Inner.vars = LocalsOf(Last(stk)) /\ Promise!Inner.option = OptionsOf(Last(stk))
  BY <1>4 DEF ScopeOf
<1> QED
  BY <1>1, <1>3, <1>5 DEF Promise!Leave

\* What the invariant shows.
LEMMA ViewIs == Inv => View
<1> SUFFICES ASSUME Inv
             PROVE  View
  OBVIOUS
<1>1. stack \in Seq(Seq(Saved)) /\ vartab \in [Name -> Var] /\ stop \in 0 .. Len(stack)
  BY DEF Inv
<1>2. ShownEnv = Overlay(Popping, EnvOf(vartab)) /\ EnvOf(vartab) \in [Name -> Promise!Variable]
  BY <1>1, EnvType DEF ShownEnv, EnvOf
<1>3. ShownOption = OptionAfter(Popping, optlist)
  BY DEF ShownOption, OptionAfter
<1>4. ShownScopes = [i \in 1 .. Depth |-> ScopeOf(stack[i])]
  BY DEF ShownScopes, ScopeOf, LocalsOf, OptionsOf
<1>5. CASE Running
  <2>1. Popping = <<>> /\ Depth = Len(stack)
    BY <1>5 DEF Popping, Depth
  <2>2. ShownScopes = ScopesOf(stack)
    BY <1>4, <2>1 DEF ScopesOf
  <2>3. ShownEnv = EnvOf(vartab) /\ ShownOption = optlist
    BY <1>2, <1>3, <2>1, ScopeEmpty
  <2> QED
    BY <1>5, <2>2, <2>3 DEF View
<1>6. CASE ~ Running
  <2>1. Popping = Last(stack) /\ Depth = Len(stack) - 1
    BY <1>6 DEF Popping, Depth
  <2>2. stack # <<>>
    <3>1. Len(stack) # 0
      BY <1>1, <1>6 DEF Running
    <3> QED
      BY <3>1
  <2>3. /\ Len(Front(stack)) = Len(stack) - 1 /\ Len(stack) \in Nat
        /\ \A i \in 1 .. Len(stack) - 1 : Front(stack)[i] = stack[i]
    BY <1>1, <2>2, FrontIs
  <2>4. ShownScopes = ScopesOf(Front(stack))
    BY <1>4, <2>1, <2>3 DEF ScopesOf
  <2> QED
    BY <1>2, <1>3, <1>6, <2>1, <2>2, <2>4 DEF View
<1> QED
  BY <1>5, <1>6

\* And so in the next state.
LEMMA NextViewIs == Inv' => View'
BY ViewIs, PTL

\* Functions are left, or not yet, and nothing else happens.
LEMMA LeaveShown ==
  ASSUME Inv, Inv', EnvOf(vartab') = EnvOf(vartab), stack' = stack, optlist' = optlist, Running
  PROVE  [Promise!Next]_Promise!vars
<1> DEFINE f == EnvOf(vartab)
<1>1. View /\ View'
  BY ViewIs, NextViewIs
<1>2. CASE Running'
  BY <1>1, <1>2 DEF View, Promise!vars
<1>3. CASE ~ Running'
  <2>1. stack \in Seq(Seq(Saved)) /\ f \in [Name -> Promise!Variable] /\ optlist \in BOOLEAN
    BY EnvType DEF Inv
  <2>2. stack # <<>> /\ ShownEnv' = Overlay(Last(stack), f) /\ ShownScopes' = ScopesOf(Front(stack))
        /\ ShownOption' = OptionAfter(Last(stack), optlist)
    BY <1>1, <1>3 DEF View
  <2>3. ShownEnv = f /\ ShownScopes = ScopesOf(stack) /\ ShownOption = optlist
    BY <1>1 DEF View
  <2> HIDE DEF f
  <2>4. Promise!Leave
    BY <2>1, <2>2, <2>3, LeaveIs
  <2> QED
    BY <2>4 DEF Promise!Next
<1> QED
  BY <1>2, <1>3

-----------------------------------------------------------------------------
(* What the calls show, and that the marks stay tight.                     *)

\* What setvareq shows of a variable v that is not readonly.
GivenShown(v, val, given) ==
  [val |-> val, export |-> ~ Goes(v, given) /\ ("EXPORT" \in given \/ "EXPORT" \in v.flags),
   readonly |-> "READONLY" \in given]

\* The marks setvareq leaves show what it was to set, and are still tight; those of a
\* local variable become so when it is saved.
LEMMA NewShown ==
  ASSUME NEW v \in Var, NEW n, NEW saved \in BOOLEAN, Shaped(v), Tight(n, v.flags, saved),
         "READONLY" \notin v.flags,
         NEW val, NEW given \in SUBSET Flag, "UNSET" \in given => val = None,
         "TEXTFIXED" \notin given,
         NEW w \in Var, NewVar(v, val, given, w)
  PROVE  /\ Shown(w.flags, w.text.val) = GivenShown(v, val, given)
         /\ Shaped(w)
         /\ IF "STRFIXED" \in given THEN Tight(n, w.flags, TRUE) ELSE Tight(n, w.flags, saved)
<1>1. CASE Goes(v, given)
  <2>1. w = Gone /\ val = None
    BY <1>1 DEF NewVar, Goes
  <2>2. w.flags = {} /\ w.text.val = None /\ ~ w.here
    BY <2>1 DEF Gone, NoText
  <2>3. Shown(w.flags, w.text.val) = GivenShown(v, val, given)
    BY <1>1, <2>1, <2>2 DEF Shown, GivenShown, Goes
  <2>4. Tight(n, w.flags, saved) /\ "STRFIXED" \notin given
    BY <1>1, <2>2 DEF Tight, Goes
  <2> QED
    BY <2>1, <2>2, <2>3, <2>4 DEF Shaped
<1>2. CASE ~ Goes(v, given)
  <2>1. w.here /\ w.flags = NewFlags(v, given) /\ w.text.val = val
    BY <1>2 DEF NewVar
  <2>2. /\ "EXPORT" \in w.flags <=> "EXPORT" \in given \/ "EXPORT" \in v.flags
        /\ "READONLY" \in w.flags <=> "READONLY" \in given
        /\ "STRFIXED" \in w.flags <=> "STRFIXED" \in given \/ "STRFIXED" \in v.flags
        /\ "UNSET" \in w.flags <=> "UNSET" \in given
    BY <2>1 DEF NewFlags
  <2>3. Shown(w.flags, w.text.val) = GivenShown(v, val, given)
    <3>1. ("EXPORT" \in w.flags) = (~ Goes(v, given) /\ ("EXPORT" \in given \/ "EXPORT" \in v.flags))
      BY <1>2, <2>2
    <3>2. ("READONLY" \in w.flags) = ("READONLY" \in given)
      BY <2>2
    <3> QED
      BY <2>1, <3>1, <3>2 DEF Shown, GivenShown
  <2>4. w.flags # {"UNSET"}
    BY <1>2, <2>2 DEF Goes
  <2>5. IF "STRFIXED" \in given THEN Tight(n, w.flags, TRUE) ELSE Tight(n, w.flags, saved)
    BY <2>2 DEF Tight
  <2> QED
    BY <2>1, <2>3, <2>4, <2>5 DEF Shaped
<1> QED
  BY <1>1, <1>2

\* One variable changes.
LEMMA EnvExcept ==
  ASSUME NEW t \in [Name -> Var], NEW n \in Name, NEW w \in Var
  PROVE  EnvOf([t EXCEPT ![n] = w]) = [EnvOf(t) EXCEPT ![n] = Shown(w.flags, w.text.val)]
BY DEF EnvOf

\* One variable changes, and nothing is saved.
LEMMA ScopedExcept ==
  ASSUME NEW t \in [Name -> Var], NEW stk, Scoped(t, stk), NEW n \in Name, NEW w \in Var,
         Shaped(w), Tight(n, w.flags, SavedIn(stk, n))
  PROVE  Scoped([t EXCEPT ![n] = w], stk)
<1>1. ASSUME NEW x \in Name
      PROVE  /\ Shaped([t EXCEPT ![n] = w][x])
             /\ Tight(x, [t EXCEPT ![n] = w][x].flags, SavedIn(stk, x))
  BY DEF Scoped
<1> QED
  BY <1>1 DEF Scoped

\* What is seen of r, which setvareq makes of m.
AsShown(m, n, val, given, r) ==
  /\ r.stk = m.stk /\ r.err = m.err /\ r.vars \in [Name -> Var]
  /\ EnvOf(r.vars) = [EnvOf(m.vars) EXCEPT ![n] = GivenShown(m.vars[n], val, given)]
  /\ Scoped(r.vars, r.stk)
  /\ \A x \in Name : x # n => r.vars[x] = m.vars[x]

\* setvareq of a variable that is not readonly.
LEMMA SetShows ==
  ASSUME NoAllExport, NEW m \in Machine, Bounded(m.stk), Scoped(m.vars, m.stk),
         NEW n \in Name, NEW val \in Value \cup {None},
         NEW given \in SUBSET {"EXPORT", "READONLY", "UNSET"}, "UNSET" \in given => val = None,
         "READONLY" \notin m.vars[n].flags
  PROVE  AsShown(m, n, val, given, setvareq(m, n, val, given))
<1>1. PICK r : r = setvareq(m, n, val, given)
  OBVIOUS
<1>2. m.vars \in [Name -> Var] /\ m.vars[n] \in Var
  BY MachineHas
<1>3. given \in SUBSET Flag /\ "STRFIXED" \notin given /\ "TEXTFIXED" \notin given
  BY DEF Flag
<1>4. /\ r.stk = m.stk /\ r.err = m.err
      /\ \E w \in Var : r.vars = [m.vars EXCEPT ![n] = w] /\ NewVar(m.vars[n], val, given, w)
  BY <1>1, <1>3, SetShape DEF AsShape
<1>5. PICK w \in Var : r.vars = [m.vars EXCEPT ![n] = w] /\ NewVar(m.vars[n], val, given, w)
  BY <1>4
<1>6. Shaped(m.vars[n]) /\ Tight(n, m.vars[n].flags, SavedIn(m.stk, n))
      /\ SavedIn(m.stk, n) \in BOOLEAN
  BY DEF Scoped, SavedIn
<1>7. /\ Shown(w.flags, w.text.val) = GivenShown(m.vars[n], val, given)
      /\ Shaped(w) /\ Tight(n, w.flags, SavedIn(m.stk, n))
  <2>1. PICK v \in Var : v = m.vars[n]
    BY <1>2
  <2>2. PICK saved \in BOOLEAN : saved = SavedIn(m.stk, n)
    BY <1>6
  <2>3. /\ Shaped(v) /\ Tight(n, v.flags, saved) /\ "READONLY" \notin v.flags
        /\ NewVar(v, val, given, w)
    BY <1>5, <1>6, <2>1, <2>2
  <2>4. /\ Shown(w.flags, w.text.val) = GivenShown(v, val, given)
        /\ Shaped(w)
        /\ IF "STRFIXED" \in given THEN Tight(n, w.flags, TRUE) ELSE Tight(n, w.flags, saved)
    BY ONLY <1>3, <2>3, v \in Var, w \in Var, saved \in BOOLEAN, NewShown,
            "UNSET" \in given => val = None
  <2> QED
    BY <1>3, <2>1, <2>2, <2>4
<1>8. EnvOf(r.vars) = [EnvOf(m.vars) EXCEPT ![n] = GivenShown(m.vars[n], val, given)]
  BY <1>2, <1>5, <1>7, EnvExcept
<1>9. Scoped(r.vars, r.stk)
  BY <1>2, <1>4, <1>5, <1>7, ScopedExcept
<1>10. r.vars \in [Name -> Var] /\ \A x \in Name : x # n => r.vars[x] = m.vars[x]
  BY <1>2, <1>5
<1> QED
  BY <1>1, <1>4, <1>8, <1>9, <1>10 DEF AsShown

\* A call that ends well, and what is seen of it.
LEMMA DoneShown ==
  ASSUME Inv, Inv', Running, NEW m, Done(m), ~ m.err
  PROVE  /\ ShownEnv = EnvOf(vartab) /\ ShownScopes = ScopesOf(stack) /\ ShownOption = optlist
         /\ ShownEnv' = EnvOf(m.vars) /\ ShownScopes' = ScopesOf(m.stk) /\ ShownOption' = optlist'
         /\ vartab' = m.vars /\ stack' = m.stk
<1>1. vartab' = m.vars /\ stack' = m.stk /\ stop' = Len(m.stk)
  BY DEF Done
<1>2. Running'
  BY <1>1 DEF Running
<1>3. View /\ View'
  BY ViewIs, NextViewIs
<1> QED
  BY <1>1, <1>2, <1>3 DEF View

\* A call that fails before it changed anything that shows.
LEMMA FailShown ==
  ASSUME Inv, Inv', Running, NEW m, Done(m), EnvOf(m.vars) = EnvOf(vartab), m.stk = stack,
         optlist' = optlist
  PROVE  [Promise!Next]_Promise!vars
BY LeaveShown DEF Done

\* A variable is pinned when its mark says so.
LEMMA PinnedIs ==
  ASSUME NEW n \in Name, ShownScopes = ScopesOf(stack), stack \in Seq(Seq(Saved))
  PROVE  Promise!Pinned(n) <=> n = "PATH" \/ SavedIn(stack, n)
<1>1. DOMAIN ShownScopes = 1 .. Len(stack)
  BY DEF ScopesOf
<1>2. ASSUME NEW i \in 1 .. Len(stack)
      PROVE  n \in DOMAIN ShownScopes[i].vars <=> \E j \in 1 .. Len(stack[i]) : stack[i][j].name = n
  <2>1. stack[i] \in Seq(Saved)
    OBVIOUS
  <2>2. DOMAIN stack[i] = 1 .. Len(stack[i])
    BY <2>1
  <2>3. ShownScopes[i] = ScopeOf(stack[i])
    BY DEF ScopesOf
  <2>4. DOMAIN ShownScopes[i].vars = NamesOf(stack[i]) \ {"-"}
    BY <2>3 DEF ScopeOf, LocalsOf
  <2> QED
    BY <2>2, <2>4, NameAssumption DEF NamesOf
<1>3. SavedIn(stack, n) <=> \E i \in 1 .. Len(stack) : \E j \in 1 .. Len(stack[i]) : stack[i][j].name = n
  <2>1. \A i \in 1 .. Len(stack) : i \in Nat /\ \A j \in 1 .. Len(stack[i]) : j \in Nat
    OBVIOUS
  <2> QED
    BY <2>1 DEF SavedIn, Place
<1> QED
  BY <1>1, <1>2, <1>3 DEF Promise!Pinned

-----------------------------------------------------------------------------
(* The actions are steps of the promise.                                   *)

\* What is proved of every action.
Keeps == [Promise!Next]_Promise!vars /\ Scoped(vartab, stack)'

\* What a variable shows is what its marks say.
LEMMA ShownHas ==
  ASSUME NEW flags, NEW val, NEW x, x = Shown(flags, val)
  PROVE  /\ x.val = val
         /\ x.export = ("EXPORT" \in flags) /\ x.readonly = ("READONLY" \in flags)
         /\ x.export <=> "EXPORT" \in flags
         /\ x.readonly <=> "READONLY" \in flags
<1>1. x.val = val /\ x.export = ("EXPORT" \in flags) /\ x.readonly = ("READONLY" \in flags)
  BY DEF Shown
<1> QED
  BY ONLY <1>1, Zenon

\* Another value is refused to a readonly variable.
LEMMA SetFails ==
  ASSUME Inv, Inv', Scoped(vartab, stack), Running, optlist' = optlist,
         NEW n \in Name, NEW val, NEW given, "READONLY" \in vartab[n].flags,
         Done(setvareq(Here, n, val, given))
  PROVE  Keeps
<1>1. PICK m : m = setvareq(Here, n, val, given)
  OBVIOUS
<1>2. m = Refused(Here)
  BY <1>1, HereIs DEF setvareq
<1>3. m.vars = vartab /\ m.stk = stack
  BY <1>2, HereIs, RefusedFollows
<1>4. Done(m)
  BY <1>1
<1>5. [Promise!Next]_Promise!vars
  BY <1>3, <1>4, FailShown
<1>6. vartab' = vartab /\ stack' = stack
  BY <1>3, <1>4 DEF Done
<1> QED
  BY <1>5, <1>6 DEF Keeps

\* One is set.
LEMMA SetDone ==
  ASSUME Inv, Inv', Scoped(vartab, stack), NoAllExport, Running, optlist' = optlist,
         NEW n \in Name, NEW val \in Value \cup {None},
         NEW given \in SUBSET {"EXPORT", "READONLY", "UNSET"}, "UNSET" \in given => val = None,
         "READONLY" \notin vartab[n].flags, Done(setvareq(Here, n, val, given))
  PROVE  /\ ShownEnv' = [ShownEnv EXCEPT ![n] = GivenShown(vartab[n], val, given)]
         /\ UNCHANGED <<ShownScopes, ShownOption>>
         /\ Scoped(vartab, stack)'
         /\ ShownEnv[n] = Shown(vartab[n].flags, vartab[n].text.val)
         /\ ShownEnv \in [Name -> Promise!Variable]
         /\ ShownScopes = ScopesOf(stack)
<1>1. PICK h : h = Here
  OBVIOUS
<1>2. /\ h \in Machine /\ Bounded(h.stk) /\ h.vars = vartab /\ h.stk = stack /\ h.err = FALSE
  BY <1>1, HereIs DEF Kept
<1>3. PICK m : m = setvareq(h, n, val, given)
  OBVIOUS
<1>4. /\ m.stk = h.stk /\ m.err = h.err
      /\ EnvOf(m.vars) = [EnvOf(h.vars) EXCEPT ![n] = GivenShown(h.vars[n], val, given)]
      /\ Scoped(m.vars, m.stk)
  <2>1. Scoped(h.vars, h.stk) /\ "READONLY" \notin h.vars[n].flags
    BY <1>2
  <2>2. AsShown(h, n, val, given, setvareq(h, n, val, given))
    BY <1>2, <2>1, SetShows
  <2> QED
    BY <1>3, <2>2 DEF AsShown
<1>5. Done(m) /\ ~ m.err
  BY <1>1, <1>2, <1>3, <1>4
<1>6. /\ ShownEnv = EnvOf(vartab) /\ ShownScopes = ScopesOf(stack) /\ ShownOption = optlist
      /\ ShownEnv' = EnvOf(m.vars) /\ ShownScopes' = ScopesOf(m.stk) /\ ShownOption' = optlist'
      /\ vartab' = m.vars /\ stack' = m.stk
  BY <1>5, DoneShown
<1>7. ShownEnv \in [Name -> Promise!Variable]
  BY <1>6, EnvType DEF Inv
<1>8. ShownEnv[n] = Shown(vartab[n].flags, vartab[n].text.val)
  BY <1>6 DEF EnvOf
<1> QED
  BY <1>2, <1>4, <1>6, <1>7, <1>8

\* name=value.
LEMMA AssignShows ==
  ASSUME Inv, Inv', Scoped(vartab, stack), NoAllExport, NEW n \in Name, NEW v \in Value, Assign(n, v)
  PROVE  Keeps
<1>1. Running /\ Done(setvareq(Here, n, v, {})) /\ optlist' = optlist
  BY DEF Assign, Unmoved
<1>2. CASE "READONLY" \in vartab[n].flags
  BY <1>1, <1>2, SetFails
<1>3. CASE "READONLY" \notin vartab[n].flags
  <2>1. /\ ShownEnv' = [ShownEnv EXCEPT ![n] = GivenShown(vartab[n], v, {})]
        /\ UNCHANGED <<ShownScopes, ShownOption>>
        /\ Scoped(vartab, stack)'
        /\ ShownEnv[n] = Shown(vartab[n].flags, vartab[n].text.val)
        /\ ShownEnv \in [Name -> Promise!Variable]
    BY <1>1, <1>3, SetDone
  <2>2. GivenShown(vartab[n], v, {}) = Promise!Given(n, v, FALSE) /\ ~ ShownEnv[n].readonly
    <3>1. /\ ShownEnv[n].export = ("EXPORT" \in vartab[n].flags)
          /\ ShownEnv[n].readonly <=> "READONLY" \in vartab[n].flags
      BY ONLY <2>1, ShownHas
    <3>2. (~ Goes(vartab[n], {}) /\ ("EXPORT" \in {} \/ "EXPORT" \in vartab[n].flags))
            = (FALSE \/ AllExport \/ ShownEnv[n].export)
      <4>1. ~ Goes(vartab[n], {}) /\ ~ AllExport
        BY DEF Goes, NoAllExport
      <4> QED
        BY <3>1, <4>1
    <3>3. ("READONLY" \in {}) = FALSE
      OBVIOUS
    <3> QED
      BY <1>3, <3>1, <3>2, <3>3 DEF GivenShown, Promise!Given
  <2>3. ShownEnv'[n].val = v
    BY <2>1 DEF GivenShown
  <2>4. Promise!Assign(n)
    BY <2>1, <2>2, <2>3 DEF Promise!Assign, Promise!Sets
  <2> QED
    BY <2>1, <2>4 DEF Keeps, Promise!Next
<1> QED
  BY <1>2, <1>3

\* unset.
LEMMA UnsetShows ==
  ASSUME Inv, Inv', Scoped(vartab, stack), NoAllExport, NEW n \in Name, unsetcmd(n)
  PROVE  Keeps
<1>1. Running /\ Done(setvareq(Here, n, None, {"UNSET"})) /\ optlist' = optlist
  BY DEF unsetcmd, unsetvar, Unmoved
<1>2. CASE "READONLY" \in vartab[n].flags
  BY <1>1, <1>2, SetFails
<1>3. CASE "READONLY" \notin vartab[n].flags
  <2>1. /\ ShownEnv' = [ShownEnv EXCEPT ![n] = GivenShown(vartab[n], None, {"UNSET"})]
        /\ UNCHANGED <<ShownScopes, ShownOption>>
        /\ Scoped(vartab, stack)'
        /\ ShownEnv[n] = Shown(vartab[n].flags, vartab[n].text.val)
        /\ ShownScopes = ScopesOf(stack)
    <3>1. {"UNSET"} \in SUBSET {"EXPORT", "READONLY", "UNSET"} /\ None \in Value \cup {None}
      OBVIOUS
    <3> QED
      BY <1>1, <1>3, <3>1, SetDone
  <2>2. Promise!Pinned(n) <=> "STRFIXED" \in vartab[n].flags
    <3>1. Promise!Pinned(n) <=> n = "PATH" \/ SavedIn(stack, n)
      BY <2>1, PinnedIs DEF Inv
    <3>2. n = "PATH" => "STRFIXED" \in vartab[n].flags
      BY DEF Inv, AllFine, Fine
    <3> QED
      BY <1>3, <3>1, <3>2 DEF Scoped, Tight
  <2>3. GivenShown(vartab[n], None, {"UNSET"}) =
          [Promise!Absent EXCEPT !.export = Promise!Pinned(n) /\ ShownEnv[n].export]
    <3>1. ShownEnv[n].export = ("EXPORT" \in vartab[n].flags)
      BY <2>1 DEF Shown
    <3>2. Goes(vartab[n], {"UNSET"}) <=> "STRFIXED" \notin vartab[n].flags
      BY DEF Goes
    <3>3. (~ Goes(vartab[n], {"UNSET"}) /\ ("EXPORT" \in {"UNSET"} \/ "EXPORT" \in vartab[n].flags))
            = (Promise!Pinned(n) /\ ShownEnv[n].export)
      BY <2>2, <3>1, <3>2
    <3>4. ("READONLY" \in {"UNSET"}) = FALSE
      OBVIOUS
    <3>5. GivenShown(vartab[n], None, {"UNSET"}) =
            [val |-> None, export |-> Promise!Pinned(n) /\ ShownEnv[n].export, readonly |-> FALSE]
      BY ONLY <3>3, <3>4, Zenon DEF GivenShown
    <3>6. PICK b : b = (Promise!Pinned(n) /\ ShownEnv[n].export)
      OBVIOUS
    <3>7. PICK c : c = FALSE
      OBVIOUS
    <3>8. \A x : x = [val |-> None, export |-> c, readonly |-> c]
            => [x EXCEPT !.export = b] = [val |-> None, export |-> b, readonly |-> c]
      OBVIOUS
    <3>9. Promise!Absent = [val |-> None, export |-> c, readonly |-> c]
      BY <3>7 DEF Promise!Absent
    <3>10. [Promise!Absent EXCEPT !.export = b] = [val |-> None, export |-> b, readonly |-> FALSE]
      BY ONLY <3>7, <3>8, <3>9, Zenon
    <3> QED
      BY ONLY <3>5, <3>6, <3>10, Zenon
  <2>4. ~ ShownEnv[n].readonly
    BY ONLY <1>3, <2>1, ShownHas
  <2>5. Promise!Unset(n)
    BY <2>1, <2>3, <2>4 DEF Promise!Unset
  <2> QED
    BY <2>1, <2>5 DEF Keeps, Promise!Next
<1> QED
  BY <1>2, <1>3

\* A variable with another mark.
LEMMA OtherMark ==
  ASSUME NEW x, NEW val, NEW c, NEW d, x = [val |-> val, export |-> c, readonly |-> d], NEW b
  PROVE  /\ [x EXCEPT !.export = b] = [val |-> val, export |-> b, readonly |-> d]
         /\ [x EXCEPT !.readonly = b] = [val |-> val, export |-> c, readonly |-> b]
OBVIOUS

\* As its marks say.
LEMMA MarkShown ==
  ASSUME NEW flags, NEW val, NEW flag \in {"EXPORT", "READONLY"},
         NEW x, x = Shown(flags, val), NEW y, y = Shown(flags \cup {flag}, val)
  PROVE  /\ flag = "EXPORT" => y = [x EXCEPT !.export = TRUE]
         /\ flag = "READONLY" => y = [x EXCEPT !.readonly = TRUE]
<1>1. x = Shown(flags, val)
  OBVIOUS
<1>2. PICK c : c = ("EXPORT" \in flags)
  OBVIOUS
<1>3. PICK d : d = ("READONLY" \in flags)
  OBVIOUS
<1>4. PICK b : b = TRUE
  OBVIOUS
<1>5. x = [val |-> val, export |-> c, readonly |-> d]
  BY ONLY <1>1, <1>2, <1>3, Zenon DEF Shown
<1>6. /\ [x EXCEPT !.export = b] = [val |-> val, export |-> b, readonly |-> d]
      /\ [x EXCEPT !.readonly = b] = [val |-> val, export |-> c, readonly |-> b]
  BY <1>5, OtherMark
<1>7. CASE flag = "EXPORT"
  <2>1. ("EXPORT" \in flags \cup {flag}) = TRUE
        /\ ("READONLY" \in flags \cup {flag}) = ("READONLY" \in flags)
    BY <1>7
  <2>2. Shown(flags \cup {flag}, val) = [val |-> val, export |-> b, readonly |-> d]
    BY ONLY <2>1, <1>3, <1>4, Zenon DEF Shown
  <2> QED
    BY <1>4, <1>6, <1>7, <2>2
<1>8. CASE flag = "READONLY"
  <2>1. ("READONLY" \in flags \cup {flag}) = TRUE
        /\ ("EXPORT" \in flags \cup {flag}) = ("EXPORT" \in flags)
    BY <1>8
  <2>2. Shown(flags \cup {flag}, val) = [val |-> val, export |-> c, readonly |-> b]
    BY ONLY <2>1, <1>2, <1>4, Zenon DEF Shown
  <2> QED
    BY <1>4, <1>6, <1>8, <2>2
<1> QED
  BY <1>7, <1>8

\* A mark is put on a variable that is there: nothing else of it changes.
LEMMA MarkDone ==
  ASSUME Inv, Inv', Scoped(vartab, stack), Running, optlist' = optlist,
         NEW n \in Name, NEW flag \in {"EXPORT", "READONLY"}, vartab[n].here,
         Done([Here EXCEPT !.vars[n].flags = @ \cup {flag}])
  PROVE  /\ ShownEnv' = [ShownEnv EXCEPT ![n] = Shown(vartab[n].flags \cup {flag}, vartab[n].text.val)]
         /\ UNCHANGED <<ShownScopes, ShownOption>>
         /\ Scoped(vartab, stack)'
         /\ ShownEnv[n] = Shown(vartab[n].flags, vartab[n].text.val)
<1>1. PICK h : h = Here
  OBVIOUS
<1>2. /\ h \in Machine /\ h.vars = vartab /\ h.stk = stack /\ h.err = FALSE
      /\ vartab \in [Name -> Var]
  BY <1>1, HereIs DEF Kept, Inv
<1>3. PICK marks : marks = vartab[n].flags \cup {flag}
  OBVIOUS
<1>4. marks \in SUBSET Flag
  BY <1>2, <1>3, MachineHas DEF Flag
<1>5. PICK w : w = [vartab[n] EXCEPT !.flags = marks]
  OBVIOUS
<1>6. w \in Var /\ w.flags = marks /\ w.text = vartab[n].text /\ w.here = vartab[n].here
  BY <1>2, <1>4, <1>5 DEF Var
<1>7. PICK m : m = [h EXCEPT !.vars[n].flags = marks]
  OBVIOUS
<1>8. m.vars = [vartab EXCEPT ![n] = w] /\ m.stk = stack /\ m.err = FALSE
  BY <1>2, <1>5, <1>7 DEF Machine
<1>9. Done(m)
  <2>1. [Here EXCEPT !.vars[n].flags = @ \cup {flag}] = m
    BY <1>1, <1>2, <1>3, <1>7
  <2> QED
    BY <2>1
<1>10. /\ ShownEnv = EnvOf(vartab) /\ ShownScopes = ScopesOf(stack) /\ ShownOption = optlist
       /\ ShownEnv' = EnvOf(m.vars) /\ ShownScopes' = ScopesOf(m.stk) /\ ShownOption' = optlist'
       /\ vartab' = m.vars /\ stack' = m.stk
  BY <1>8, <1>9, DoneShown
<1>11. Shaped(w) /\ Tight(n, w.flags, SavedIn(stack, n))
  <2>1. ("UNSET" \in marks /\ marks # {"UNSET"}) \/ "UNSET" \notin marks
    BY <1>3
  <2>2. "STRFIXED" \in marks <=> "STRFIXED" \in vartab[n].flags
    BY <1>3
  <2>3. "READONLY" \in vartab[n].flags => "READONLY" \in marks
    BY <1>3
  <2>4. Tight(n, vartab[n].flags, SavedIn(stack, n))
    BY DEF Scoped
  <2>5. Tight(n, marks, SavedIn(stack, n))
    BY <2>2, <2>3, <2>4 DEF Tight
  <2> QED
    BY <1>6, <2>1, <2>5 DEF Shaped
<1>15. PICK t : t = vartab
  OBVIOUS
<1>16. t \in [Name -> Var] /\ m.vars = [t EXCEPT ![n] = w]
  BY <1>2, <1>8, <1>15
<1>12. Scoped(m.vars, stack)
  <2>1. PICK s : s = stack
    OBVIOUS
  <2>2. Scoped(t, s) /\ Shaped(w) /\ Tight(n, w.flags, SavedIn(s, n))
    BY <1>11, <1>15, <2>1
  <2>3. Scoped(m.vars, s)
    BY ONLY <1>6, <1>16, <2>2, n \in Name, ScopedExcept
  <2> QED
    BY <2>1, <2>3
<1>13. EnvOf(m.vars) = [EnvOf(vartab) EXCEPT ![n] = Shown(marks, vartab[n].text.val)]
  <2>1. EnvOf(m.vars) = [EnvOf(t) EXCEPT ![n] = Shown(w.flags, w.text.val)]
    <3>1. t \in [Name -> Var] /\ w \in Var /\ m.vars = [t EXCEPT ![n] = w]
      BY <1>6, <1>16
    <3> QED
      BY ONLY <3>1, n \in Name DEF EnvOf
  <2> QED
    BY <1>6, <1>15, <2>1
<1>14. EnvOf(vartab)[n] = Shown(vartab[n].flags, vartab[n].text.val)
  BY DEF EnvOf
<1> QED
  BY <1>3, <1>8, <1>10, <1>12, <1>13, <1>14

\* export and readonly.
LEMMA ExportShows ==
  ASSUME Inv, Inv', Scoped(vartab, stack), NoAllExport, NEW n \in Name,
         NEW v \in Value \cup {None}, NEW flag \in {"EXPORT", "READONLY"}, exportcmd(n, v, flag)
  PROVE  Keeps
<1>1. Running /\ Done(Marked(Here, n, v, flag)) /\ optlist' = optlist
  BY DEF exportcmd, Unmoved
<1>2. Here.vars = vartab
  BY HereIs
<1>3. CASE v # None
  <2>1. Done(setvareq(Here, n, v, {flag})) /\ v \in Value
    BY <1>1, <1>3 DEF Marked
  <2>2. CASE "READONLY" \in vartab[n].flags
    BY <1>1, <2>1, <2>2, SetFails
  <2>3. CASE "READONLY" \notin vartab[n].flags
    <3>1. /\ ShownEnv' = [ShownEnv EXCEPT ![n] = GivenShown(vartab[n], v, {flag})]
          /\ UNCHANGED <<ShownScopes, ShownOption>>
          /\ Scoped(vartab, stack)'
          /\ ShownEnv[n] = Shown(vartab[n].flags, vartab[n].text.val)
          /\ ShownEnv \in [Name -> Promise!Variable]
      <4>1. {flag} \in SUBSET {"EXPORT", "READONLY", "UNSET"} /\ "UNSET" \notin {flag}
        OBVIOUS
      <4> QED
        BY <1>1, <2>1, <2>3, <4>1, SetDone
    <3>2. /\ ShownEnv[n].export = ("EXPORT" \in vartab[n].flags)
          /\ ShownEnv[n].readonly <=> "READONLY" \in vartab[n].flags
      BY ONLY <3>1, ShownHas
    <3>3. ~ Goes(vartab[n], {flag}) /\ ~ AllExport
      BY DEF Goes, NoAllExport
    <3>4. ShownEnv'[n].val = v /\ ~ ShownEnv[n].readonly
      BY <2>3, <3>1, <3>2 DEF GivenShown
    <3>5. CASE flag = "EXPORT"
      <4>1. (~ Goes(vartab[n], {flag}) /\ ("EXPORT" \in {flag} \/ "EXPORT" \in vartab[n].flags))
              = (TRUE \/ AllExport \/ ShownEnv[n].export)
        BY <3>3, <3>5
      <4>2. ("READONLY" \in {flag}) = FALSE
        BY <3>5
      <4>3. GivenShown(vartab[n], v, {flag}) = Promise!Given(n, v, TRUE)
        BY <4>1, <4>2 DEF GivenShown, Promise!Given
      <4>4. Promise!Assign(n)
        BY <2>1, <3>1, <3>4, <4>3 DEF Promise!Assign, Promise!Sets
      <4> QED
        BY <3>1, <4>4 DEF Keeps, Promise!Next
    <3>6. CASE flag = "READONLY"
      <4>1. (~ Goes(vartab[n], {flag}) /\ ("EXPORT" \in {flag} \/ "EXPORT" \in vartab[n].flags))
              = (FALSE \/ AllExport \/ ShownEnv[n].export)
        BY <3>2, <3>3, <3>6
      <4>2. ("READONLY" \in {flag}) = TRUE
        BY <3>6
      <4>3. PICK b : b = (FALSE \/ AllExport \/ ShownEnv[n].export)
        OBVIOUS
      <4>4. GivenShown(vartab[n], v, {flag}) = [val |-> v, export |-> b, readonly |-> TRUE]
        BY ONLY <4>1, <4>2, <4>3, Zenon DEF GivenShown
      <4>5. Promise!Given(n, v, FALSE) = [val |-> v, export |-> b, readonly |-> FALSE]
        BY <4>3 DEF Promise!Given
      <4>6. [[val |-> v, export |-> b, readonly |-> FALSE] EXCEPT !.readonly = TRUE]
              = [val |-> v, export |-> b, readonly |-> TRUE]
        <5>1. PICK x : x = [val |-> v, export |-> b, readonly |-> FALSE]
          OBVIOUS
        <5>2. PICK d : d = TRUE
          OBVIOUS
        <5>3. PICK c : c = FALSE
          OBVIOUS
        <5>4. x = [val |-> v, export |-> b, readonly |-> c]
          BY ONLY <5>1, <5>3, Zenon
        <5>5. [x EXCEPT !.readonly = d] = [val |-> v, export |-> b, readonly |-> d]
          BY ONLY <5>4, OtherMark
        <5> QED
          BY ONLY <5>1, <5>2, <5>5, Zenon
      <4>7. GivenShown(vartab[n], v, {flag}) = [Promise!Given(n, v, FALSE) EXCEPT !.readonly = TRUE]
        BY ONLY <4>4, <4>5, <4>6, Zenon
      <4>8. Promise!ProtectAs(n)
        BY <2>1, <3>1, <3>4, <4>7 DEF Promise!ProtectAs
      <4> QED
        BY <3>1, <4>8 DEF Keeps, Promise!Next
    <3> QED
      BY <3>5, <3>6
  <2> QED
    BY <2>2, <2>3
<1>4. ASSUME /\ ShownEnv' = [ShownEnv EXCEPT ![n] = Shown(vartab[n].flags \cup {flag}, vartab[n].text.val)]
             /\ UNCHANGED <<ShownScopes, ShownOption>> /\ Scoped(vartab, stack)'
             /\ ShownEnv[n] = Shown(vartab[n].flags, vartab[n].text.val)
      PROVE  Keeps
  <2>1. CASE flag = "EXPORT"
    <3>2. [ShownEnv[n] EXCEPT !.export = TRUE] = Shown(vartab[n].flags \cup {flag}, vartab[n].text.val)
      <4>1. PICK f : f = vartab[n].flags
        OBVIOUS
      <4>2. PICK val : val = vartab[n].text.val
        OBVIOUS
      <4>3. PICK x : x = ShownEnv[n]
        OBVIOUS
      <4>4. PICK y : y = Shown(f \cup {flag}, val)
        OBVIOUS
      <4>5. x = Shown(f, val)
        BY ONLY <1>4, <4>1, <4>2, <4>3
      <4>6. y = [x EXCEPT !.export = TRUE]
        <5>1. /\ flag = "EXPORT" => y = [x EXCEPT !.export = TRUE]
              /\ flag = "READONLY" => y = [x EXCEPT !.readonly = TRUE]
          BY ONLY <4>4, <4>5, flag \in {"EXPORT", "READONLY"}, MarkShown
        <5> QED
          BY ONLY <2>1, <5>1, Zenon
      <4> QED
        BY ONLY <4>1, <4>2, <4>3, <4>4, <4>6
    <3>3. Promise!Export(n)
      BY <1>4, <3>2 DEF Promise!Export
    <3> QED
      BY <1>4, <3>3 DEF Keeps, Promise!Next
  <2>2. CASE flag = "READONLY"
    <3>2. [ShownEnv[n] EXCEPT !.readonly = TRUE] = Shown(vartab[n].flags \cup {flag}, vartab[n].text.val)
      <4>1. PICK f : f = vartab[n].flags
        OBVIOUS
      <4>2. PICK val : val = vartab[n].text.val
        OBVIOUS
      <4>3. PICK x : x = ShownEnv[n]
        OBVIOUS
      <4>4. PICK y : y = Shown(f \cup {flag}, val)
        OBVIOUS
      <4>5. x = Shown(f, val)
        BY ONLY <1>4, <4>1, <4>2, <4>3
      <4>6. y = [x EXCEPT !.readonly = TRUE]
        BY ONLY <2>2, <4>4, <4>5, flag \in {"EXPORT", "READONLY"}, MarkShown
      <4> QED
        BY ONLY <4>1, <4>2, <4>3, <4>4, <4>6
    <3>3. Promise!Protect(n)
      BY <1>4, <3>2 DEF Promise!Protect
    <3> QED
      BY <1>4, <3>3 DEF Keeps, Promise!Next
  <2> QED
    BY <2>1, <2>2
<1>5. CASE v = None /\ vartab[n].here
  <2>1. Done([Here EXCEPT !.vars[n].flags = @ \cup {flag}])
    BY <1>1, <1>2, <1>5 DEF Marked
  <2> QED
    BY <1>1, <1>4, <1>5, <2>1, MarkDone
<1>6. CASE v = None /\ ~ vartab[n].here
  <2>1. Done(setvareq(Here, n, None, {flag, "UNSET"}))
    BY <1>1, <1>2, <1>6 DEF Marked
  <2>2. vartab[n] = Gone
    BY <1>6 DEF Scoped, Shaped
  <2>3. vartab[n].flags = {} /\ vartab[n].text.val = None
    BY <2>2 DEF Gone, NoText
  <2>4. /\ ShownEnv' = [ShownEnv EXCEPT ![n] = GivenShown(vartab[n], None, {flag, "UNSET"})]
        /\ UNCHANGED <<ShownScopes, ShownOption>> /\ Scoped(vartab, stack)'
        /\ ShownEnv[n] = Shown(vartab[n].flags, vartab[n].text.val)
    <3>1. {flag, "UNSET"} \in SUBSET {"EXPORT", "READONLY", "UNSET"} /\ None \in Value \cup {None}
          /\ "READONLY" \notin vartab[n].flags
      BY <2>3
    <3> QED
      BY <1>1, <2>1, <3>1, SetDone
  <2>5. GivenShown(vartab[n], None, {flag, "UNSET"}) = Shown(vartab[n].flags \cup {flag}, vartab[n].text.val)
    <3>1. ~ Goes(vartab[n], {flag, "UNSET"})
      BY DEF Goes
    <3>2. (~ Goes(vartab[n], {flag, "UNSET"}) /\ ("EXPORT" \in {flag, "UNSET"} \/ "EXPORT" \in vartab[n].flags))
            = ("EXPORT" \in vartab[n].flags \cup {flag})
      BY <2>3, <3>1
    <3>3. ("READONLY" \in {flag, "UNSET"}) = ("READONLY" \in vartab[n].flags \cup {flag})
      BY <2>3
    <3> QED
      BY <2>3, <3>2, <3>3 DEF GivenShown, Shown
  <2> QED
    BY <1>4, <2>4, <2>5
<1> QED
  BY <1>3, <1>5, <1>6

\* set.
LEMMA SetcmdShows ==
  ASSUME Inv, Inv', Scoped(vartab, stack), setcmd
  PROVE  Keeps
<1>1. Running /\ Done(Here) /\ optlist' = ~ optlist
  BY DEF setcmd
<1>2. ~ Here.err /\ Here.vars = vartab /\ Here.stk = stack
  BY HereIs
<1>3. PICK m : m = Here
  OBVIOUS
<1>4. /\ ShownEnv = EnvOf(vartab) /\ ShownScopes = ScopesOf(stack) /\ ShownOption = optlist
      /\ ShownEnv' = EnvOf(m.vars) /\ ShownScopes' = ScopesOf(m.stk) /\ ShownOption' = optlist'
      /\ vartab' = m.vars /\ stack' = m.stk
  <2>1. Done(m) /\ ~ m.err
    BY <1>1, <1>2, <1>3
  <2> QED
    BY <1>1, <2>1, DoneShown
<1>5. ShownOption' = ~ ShownOption
  BY <1>1, <1>4
<1>6. Promise!SetOption
  BY <1>2, <1>3, <1>4, <1>5 DEF Promise!SetOption
<1>7. vartab' = vartab /\ stack' = stack
  BY <1>2, <1>3, <1>4
<1> QED
  BY <1>6, <1>7 DEF Keeps, Promise!Next

-----------------------------------------------------------------------------
(* Variables are saved.                                                    *)

\* What is saved after one more.
LEMMA LinkedSaved ==
  ASSUME NEW stk \in Seq(Seq(Saved)), stk # <<>>, NEW l \in Saved, NEW x
  PROVE  LET s == Linked(stk, l)
         IN  /\ SavedIn(s, x) <=> SavedIn(stk, x) \/ x = l.name
             /\ SavedBelow(s, x, Len(stk), LastPlace(stk)) <=> SavedIn(stk, x)
             /\ \A i, j \in Nat : Place(stk, i, j) => (SavedBelow(s, x, i, j) <=> SavedBelow(stk, x, i, j))
<1> DEFINE s == Linked(stk, l)
<1>1. Extends(s, stk, l)
  <2> HIDE DEF s
  <2> QED
    BY ONLY stk \in Seq(Seq(Saved)), stk # <<>>, l \in Saved, LinkPlaces DEF s
<1> HIDE DEF s
<1>2. /\ Len(stk) \in Nat /\ LastPlace(stk) \in Nat
      /\ Place(s, Len(stk), LastPlace(stk)) /\ s[Len(stk)][LastPlace(stk)] = l
      /\ \A i, j \in Nat :
           Place(s, i, j) => Place(stk, i, j) \/ (i = Len(stk) /\ j = LastPlace(stk))
      /\ \A i, j \in Nat :
           Place(stk, i, j) => /\ Place(s, i, j) /\ s[i][j] = stk[i][j]
                               /\ Earlier(i, j, Len(stk), LastPlace(stk))
  BY <1>1 DEF Extends
<1>3. PICK N, K : N = Len(stk) /\ K = LastPlace(stk)
  OBVIOUS
<1>4. \A i, j, a, b \in Nat : ~ (Earlier(i, j, a, b) /\ Earlier(a, b, i, j))
  BY DEF Earlier
<1>5. N \in Nat /\ K \in Nat /\ ~ Earlier(N, K, N, K)
  BY <1>2, <1>3, <1>4
<1>6. SavedIn(s, x) <=> SavedIn(stk, x) \/ x = l.name
  BY <1>2 DEF SavedIn
<1>7. SavedBelow(s, x, N, K) <=> SavedIn(stk, x)
  BY <1>2, <1>3, <1>5 DEF SavedIn, SavedBelow
<1>8. ASSUME NEW i \in Nat, NEW j \in Nat, Place(stk, i, j)
      PROVE  SavedBelow(s, x, i, j) <=> SavedBelow(stk, x, i, j)
  <2>1. ~ Earlier(N, K, i, j)
    BY <1>2, <1>3, <1>4, <1>5, <1>8
  <2> QED
    BY <1>2, <1>3, <2>1 DEF SavedBelow
<1> QED
  BY <1>3, <1>6, <1>7, <1>8 DEF s

\* The marks are still tight when a variable was saved.
LEMMA LinkedScoped ==
  ASSUME NEW stk \in Seq(Seq(Saved)), stk # <<>>, NEW l \in Saved, NEW old, Scoped(old, stk),
         l.name \in Name => Tight(l.name, l.flags, SavedIn(stk, l.name)),
         NEW t, \A n \in Name : Shaped(t[n]) /\ Tight(n, t[n].flags, SavedIn(stk, n) \/ n = l.name)
  PROVE  Scoped(t, Linked(stk, l))
<1> DEFINE s == Linked(stk, l)
<1>1. Extends(s, stk, l)
  <2> HIDE DEF s
  <2> QED
    BY ONLY stk \in Seq(Seq(Saved)), stk # <<>>, l \in Saved, LinkPlaces DEF s
<1>2. \A x : /\ SavedIn(s, x) <=> SavedIn(stk, x) \/ x = l.name
             /\ SavedBelow(s, x, Len(stk), LastPlace(stk)) <=> SavedIn(stk, x)
             /\ \A i, j \in Nat : Place(stk, i, j) => (SavedBelow(s, x, i, j) <=> SavedBelow(stk, x, i, j))
  <2> HIDE DEF s
  <2> QED
    BY ONLY stk \in Seq(Seq(Saved)), stk # <<>>, l \in Saved, LinkedSaved DEF s
<1> HIDE DEF s
<1>3. ASSUME NEW n \in Name
      PROVE  Shaped(t[n]) /\ Tight(n, t[n].flags, SavedIn(s, n))
  BY <1>2 DEF Tight
<1>4. ASSUME NEW i \in Nat, NEW j \in Nat, Place(s, i, j), s[i][j].name \in Name
      PROVE  Tight(s[i][j].name, s[i][j].flags, SavedBelow(s, s[i][j].name, i, j))
  <2>1. CASE Place(stk, i, j)
    <3>1. s[i][j] = stk[i][j]
      BY <1>1, <2>1 DEF Extends
    <3>2. Tight(stk[i][j].name, stk[i][j].flags, SavedBelow(stk, stk[i][j].name, i, j))
      BY <1>4, <2>1, <3>1 DEF Scoped
    <3> QED
      BY <1>2, <2>1, <3>1, <3>2 DEF Tight
  <2>2. CASE i = Len(stk) /\ j = LastPlace(stk)
    <3>1. s[i][j] = l
      BY <1>1, <2>2 DEF Extends
    <3> QED
      BY <1>2, <1>4, <2>2, <3>1 DEF Tight
  <2> QED
    BY <1>1, <1>4, <2>1, <2>2 DEF Extends
<1> QED
  BY <1>3, <1>4 DEF Scoped, s

\* The innermost scope has saved one more.
LEMMA LinkedShows ==
  ASSUME NEW stk \in Seq(Seq(Saved)), stk # <<>>, NEW l \in Saved
  PROVE  /\ Len(ScopesOf(stk)) = Len(stk) /\ ScopesOf(stk) # <<>>
         /\ ScopesOf(stk)[Len(stk)] = ScopeOf(Last(stk)) /\ Last(stk) \in Seq(Saved)
         /\ ScopesOf(Linked(stk, l)) = [ScopesOf(stk) EXCEPT ![Len(stk)] = ScopeOf(Append(Last(stk), l))]
<1>1. /\ Len(ScopesOf(stk)) = Len(stk) /\ ScopesOf(stk) # <<>>
      /\ ScopesOf(stk)[Len(stk)] = ScopeOf(Last(stk))
  BY ScopesFront
<1>2. Last(stk) = stk[Len(stk)] /\ Last(stk) \in Seq(Saved) /\ Len(stk) \in Nat /\ Len(stk) > 0
  BY FrontIs
<1>3. PICK k \in Nat : k = Len(stk)
  BY <1>2
<1>4. PICK u : u = Append(Last(stk), l)
  OBVIOUS
<1>5. Linked(stk, l) = [stk EXCEPT ![k] = u]
  BY <1>2, <1>3, <1>4 DEF Linked
<1>6. u \in Seq(Saved)
  BY <1>2, <1>4
<1>7. Len([stk EXCEPT ![k] = u]) = k
  BY <1>3, <1>6
<1>8. \A i \in 1 .. k : [stk EXCEPT ![k] = u][i] = IF i = k THEN u ELSE stk[i]
  BY <1>3
<1>9. ScopesOf([stk EXCEPT ![k] = u]) = [i \in 1 .. k |-> IF i = k THEN ScopeOf(u) ELSE ScopeOf(stk[i])]
  BY ONLY <1>7, <1>8 DEF ScopesOf
<1>10. [ScopesOf(stk) EXCEPT ![k] = ScopeOf(u)] = [i \in 1 .. k |-> IF i = k THEN ScopeOf(u) ELSE ScopeOf(stk[i])]
  BY ONLY <1>3 DEF ScopesOf
<1> QED
  BY <1>1, <1>2, <1>3, <1>4, <1>5, <1>9, <1>10

\* A function has begun.
LEMMA PushedShows ==
  ASSUME NEW stk \in Seq(Seq(Saved)), NEW u \in Seq(Saved)
  PROVE  ScopesOf(Append(stk, u)) = Append(ScopesOf(stk), ScopeOf(u))
<1>1. PICK k \in Nat : k = Len(stk)
  OBVIOUS
<1>2. Len(Append(stk, u)) = k + 1 /\ Append(stk, u)[k + 1] = u
      /\ \A i \in 1 .. k : Append(stk, u)[i] = stk[i]
  BY <1>1, AppendProperties
<1>3. ScopesOf(Append(stk, u)) = [i \in 1 .. k + 1 |-> IF i = k + 1 THEN ScopeOf(u) ELSE ScopeOf(stk[i])]
  <2>1. \A i \in 1 .. k + 1 : i = k + 1 \/ i \in 1 .. k
    OBVIOUS
  <2> QED
    BY ONLY <1>2, <2>1 DEF ScopesOf
<1> DEFINE S == {ScopeOf(stk[i]) : i \in 1 .. k} \cup {ScopeOf(u)}
           q == ScopesOf(stk)
<1>4. q \in [1 .. k -> S] /\ \A i \in 1 .. k : q[i] = ScopeOf(stk[i])
  BY <1>1 DEF ScopesOf
<1>5. q \in Seq(S)
  <2> HIDE DEF q, S
  <2> QED
    BY ONLY <1>4, k \in Nat, SeqDef
<1>6. Len(q) = k
  <2> HIDE DEF q, S
  <2> QED
    BY ONLY <1>4, <1>5, k \in Nat, LenProperties
<1>7. ScopeOf(u) \in S
  OBVIOUS
<1> HIDE DEF q, S
<1>8. PICK w : w = ScopeOf(u)
  OBVIOUS
<1>9. /\ Append(q, w) \in Seq(S) /\ Len(Append(q, w)) = k + 1 /\ Append(q, w)[k + 1] = w
      /\ \A i \in 1 .. k : Append(q, w)[i] = q[i]
  BY ONLY <1>5, <1>6, <1>7, <1>8, AppendProperties
<1>10. Append(q, w) = [i \in 1 .. k + 1 |-> IF i = k + 1 THEN w ELSE ScopeOf(stk[i])]
  <2>1. Append(q, w) \in [1 .. k + 1 -> S]
    BY ONLY <1>9, LenProperties
  <2>2. \A i \in 1 .. k + 1 : i = k + 1 \/ i \in 1 .. k
    OBVIOUS
  <2> QED
    BY ONLY <1>4, <1>9, <2>1, <2>2
<1> QED
  BY ONLY <1>3, <1>8, <1>10 DEF q

\* A variable of the promise, one that is not readonly.
Plain(val, export) == [val |-> val, export |-> export, readonly |-> FALSE]

\* What is seen of r, which mklocal makes of m.
AsLocal(m, n, val, flags, r) ==
  /\ Scoped(r.vars, r.stk)
  /\ r.err => r.stk = m.stk /\ EnvOf(r.vars) = EnvOf(m.vars)
  /\ ~ r.err =>
       /\ \E l \in Saved : l.name = n /\ ShownSaved(l) = EnvOf(m.vars)[n] /\ r.stk = Linked(m.stk, l)
       /\ val = None => EnvOf(r.vars) = EnvOf(m.vars)
       /\ val # None => /\ ~ EnvOf(m.vars)[n].readonly
                        /\ EnvOf(r.vars) = [EnvOf(m.vars) EXCEPT
                             ![n] = Plain(val, "EXPORT" \in flags \/ EnvOf(m.vars)[n].export)]

\* mklocal of a variable that is not there.
LEMMA NewLocalShows ==
  ASSUME NoAllExport, NEW m, Kept(m), ~ m.err, m.stk # <<>>, Scoped(m.vars, m.stk),
         NEW n \in Name, NEW val \in Value \cup {None}, NEW flags \in SUBSET {"EXPORT"},
         val = None => flags = {}, ~ m.vars[n].here
  PROVE  AsLocal(m, n, val, flags, mklocal(m, n, val, flags))
<1>1. PICK given : given = flags \cup {"STRFIXED"} \cup (IF val = None THEN {"UNSET"} ELSE {})
  OBVIOUS
<1>2. PICK new : new = setvareq(m, n, val, given)
  OBVIOUS
<1>3. PICK l : l = [name |-> n, flags |-> {"UNSET"}, text |-> NoText, on |-> FALSE]
  OBVIOUS
<1>4. PICK r : r = mklocal(m, n, val, flags)
  OBVIOUS
<1>5. r = Link(new, l)
  BY <1>1, <1>2, <1>3, <1>4 DEF mklocal
<1>6. /\ m \in Machine /\ Bounded(m.stk) /\ m.vars \in [Name -> Var] /\ m.stk \in Seq(Seq(Saved))
      /\ m.vars[n] \in Var
  BY MachineHas DEF Kept
<1>7. /\ given \in SUBSET Flag /\ "READONLY" \notin given /\ "STRFIXED" \in given
      /\ "TEXTFIXED" \notin given /\ ("UNSET" \in given <=> val = None)
  BY <1>1 DEF Flag
<1>8. PICK v \in Var : v = m.vars[n]
  BY <1>6
<1>9. /\ v = Gone /\ v.flags = {} /\ v.text.val = None /\ Shaped(v)
      /\ Tight(n, v.flags, SavedIn(m.stk, n))
  <2>1. Shaped(v) /\ Tight(n, v.flags, SavedIn(m.stk, n))
    BY <1>8 DEF Scoped
  <2>2. v = Gone
    BY <1>8, <2>1 DEF Shaped
  <2> QED
    BY <2>1, <2>2 DEF Gone, NoText
<1>10. ~ SavedIn(m.stk, n)
  BY <1>9 DEF Tight
<1>11. /\ new.stk = m.stk /\ new.err = m.err
       /\ \E w \in Var : new.vars = [m.vars EXCEPT ![n] = w] /\ NewVar(m.vars[n], val, given, w)
  <2>1. "READONLY" \notin m.vars[n].flags
    BY <1>8, <1>9
  <2>2. AsShape(m, n, val, given, setvareq(m, n, val, given))
    BY ONLY <1>6, <1>7, <2>1, NoAllExport, m \in Machine, n \in Name,
              val \in Value \cup {None}, SetShape
  <2> QED
    BY <1>2, <2>2 DEF AsShape
<1>12. PICK w \in Var : new.vars = [m.vars EXCEPT ![n] = w] /\ NewVar(v, val, given, w)
  BY <1>8, <1>11
<1>13. Shown(w.flags, w.text.val) = GivenShown(v, val, given) /\ Shaped(w) /\ Tight(n, w.flags, TRUE)
  <2>1. Shaped(v) /\ Tight(n, v.flags, FALSE) /\ "READONLY" \notin v.flags
    BY <1>9, <1>10 DEF Tight
  <2>2. /\ Shown(w.flags, w.text.val) = GivenShown(v, val, given)
        /\ Shaped(w)
        /\ IF "STRFIXED" \in given THEN Tight(n, w.flags, TRUE) ELSE Tight(n, w.flags, FALSE)
    <3>1. PICK saved \in BOOLEAN : saved = FALSE
      OBVIOUS
    <3>2. Tight(n, v.flags, saved) /\ ("UNSET" \in given => val = None)
      BY <1>7, <2>1, <3>1
    <3>3. /\ Shown(w.flags, w.text.val) = GivenShown(v, val, given)
          /\ Shaped(w)
          /\ IF "STRFIXED" \in given THEN Tight(n, w.flags, TRUE) ELSE Tight(n, w.flags, saved)
      BY ONLY <1>7, <1>12, <2>1, <3>2, v \in Var, w \in Var, saved \in BOOLEAN, NewShown
    <3> QED
      BY <1>7, <3>3
  <2> QED
    BY <1>7, <2>2
<1>14. /\ l \in Saved /\ l.name = n /\ l.flags = {"UNSET"}
  BY <1>3, BlocksType DEF Saved, Flag, Text, NoText
<1>15. new \in Machine
  <2>1. AsSet(m, n, setvareq(m, n, val, given))
    BY <1>7, SetFollows
  <2> QED
    BY <1>2, <2>1 DEF AsSet, Follows, Kept
<1>16. r.vars = new.vars /\ r.stk = Linked(m.stk, l) /\ r.err = FALSE
  <2>1. r = [new EXCEPT !.stk = Linked(new.stk, l)]
    BY <1>5, <1>11, <1>15 DEF Link, Linked, Machine
  <2>2. m.err = FALSE
    BY <1>6 DEF Machine
  <2> QED
    BY <1>11, <1>15, <2>1, <2>2 DEF Machine
<1>17. Scoped(r.vars, r.stk)
  <2>1. ASSUME NEW x \in Name
        PROVE  Shaped(new.vars[x]) /\ Tight(x, new.vars[x].flags, SavedIn(m.stk, x) \/ x = l.name)
    <3>1. CASE x = n
      BY <1>6, <1>12, <1>13, <1>14, <3>1 DEF Tight
    <3>2. CASE x # n
      <4>1. new.vars[x] = m.vars[x]
        BY <1>6, <1>12, <3>2
      <4> QED
        BY <1>14, <3>2, <4>1 DEF Scoped, Tight
    <3> QED
      BY <3>1, <3>2
  <2>2. Tight(l.name, l.flags, SavedIn(m.stk, l.name))
    BY <1>10, <1>14 DEF Tight
  <2>3. Scoped(new.vars, Linked(m.stk, l))
    BY <1>6, <1>14, <2>1, <2>2, LinkedScoped
  <2> QED
    BY <1>16, <2>3
<1>18. EnvOf(m.vars)[n] = Shown({}, None) /\ ShownSaved(l) = Shown({}, None)
       /\ EnvOf(m.vars) \in [Name -> Promise!Variable]
  <2>1. EnvOf(m.vars)[n] = Shown({}, None)
    BY <1>8, <1>9 DEF EnvOf
  <2>2. ShownSaved(l) = Shown({}, None)
    BY <1>14 DEF ShownSaved
  <2> QED
    BY <1>6, <2>1, <2>2, EnvType
<1>19. EnvOf(r.vars) = [EnvOf(m.vars) EXCEPT ![n] = GivenShown(v, val, given)]
  <2>1. EnvOf(new.vars) = [EnvOf(m.vars) EXCEPT ![n] = Shown(w.flags, w.text.val)]
    BY ONLY <1>6, <1>12, n \in Name DEF EnvOf
  <2> QED
    BY <1>13, <1>16, <2>1
<1>20. ~ Goes(v, given)
  BY <1>7 DEF Goes
<1>21. CASE val = None
  <2>1. GivenShown(v, val, given) = Shown({}, None)
    <3>1. (~ Goes(v, given) /\ ("EXPORT" \in given \/ "EXPORT" \in v.flags)) = ("EXPORT" \in {})
      BY <1>1, <1>9, <1>20, <1>21
    <3>2. ("READONLY" \in given) = ("READONLY" \in {})
      BY <1>7
    <3> QED
      BY ONLY <1>21, <3>1, <3>2, Zenon DEF GivenShown, Shown
  <2>2. EnvOf(r.vars) = EnvOf(m.vars)
    BY <1>18, <1>19, <2>1
  <2>3. AsLocal(m, n, val, flags, r)
    BY <1>14, <1>16, <1>17, <1>18, <1>21, <2>2 DEF AsLocal
  <2> QED
    BY <1>4, <2>3
<1>22. CASE val # None
  <2>1. ~ EnvOf(m.vars)[n].readonly /\ ~ EnvOf(m.vars)[n].export
    BY <1>18, ShownHas
  <2>2. GivenShown(v, val, given) = Plain(val, "EXPORT" \in flags \/ EnvOf(m.vars)[n].export)
    <3>1. (~ Goes(v, given) /\ ("EXPORT" \in given \/ "EXPORT" \in v.flags))
            = ("EXPORT" \in flags \/ EnvOf(m.vars)[n].export)
      BY <1>1, <1>9, <1>20, <1>22, <2>1
    <3>2. ("READONLY" \in given) = FALSE
      BY <1>7
    <3> QED
      BY ONLY <3>1, <3>2, Zenon DEF GivenShown, Plain
  <2>3. AsLocal(m, n, val, flags, r)
    BY <1>14, <1>16, <1>17, <1>18, <1>19, <1>22, <2>1, <2>2 DEF AsLocal
  <2> QED
    BY <1>4, <2>3
<1> QED
  BY <1>21, <1>22

\* Of a variable that is there, saved and then (unless it is readonly) set.
LEMMA OldLocalShows ==
  ASSUME NoAllExport, NEW m, Kept(m), ~ m.err, m.stk # <<>>, Len(m.stk[Len(m.stk)]) < MaxLocals,
         Scoped(m.vars, m.stk),
         NEW n \in Name, NEW val \in Value \cup {None}, NEW flags \in SUBSET {"EXPORT"},
         m.vars[n].here
  PROVE  AsLocal(m, n, val, flags, mklocal(m, n, val, flags))
<1>1. PICK lent : lent = Borrowed(m, n)
  OBVIOUS
<1>2. PICK l : l = [name |-> n, flags |-> m.vars[n].flags, text |-> m.vars[n].text, on |-> FALSE]
  OBVIOUS
<1>3. PICK old : old = Link(lent, l)
  OBVIOUS
<1>4. PICK set : set = IF val = None THEN old ELSE setvareq(old, n, val, flags)
  OBVIOUS
<1>5. PICK r : r = mklocal(m, n, val, flags)
  OBVIOUS
<1>6. r = IF set.err THEN Refused(lent) ELSE set
  BY <1>1, <1>2, <1>3, <1>4, <1>5 DEF mklocal
<1>7. /\ m \in Machine /\ m.vars \in [Name -> Var] /\ m.stk \in Seq(Seq(Saved))
      /\ m.vars[n] \in Var /\ m.err = FALSE
  BY MachineHas DEF Kept, Machine
<1>8. PICK v \in Var : v = m.vars[n]
  BY <1>7
<1>9. v.here /\ v.flags # {"UNSET"} /\ Tight(n, v.flags, SavedIn(m.stk, n)) /\ v.flags \in SUBSET Flag
      /\ v.text \in Text
  BY <1>8 DEF Scoped, Shaped, Var
<1>10. PICK w : w = [v EXCEPT !.flags = @ \cup {"STRFIXED", "TEXTFIXED"}]
  OBVIOUS
<1>11. w \in Var /\ w.flags = v.flags \cup {"STRFIXED", "TEXTFIXED"} /\ w.text = v.text /\ w.here
  <2>1. v.flags \cup {"STRFIXED", "TEXTFIXED"} \in SUBSET Flag
    BY <1>9 DEF Flag
  <2> QED
    BY <1>9, <1>10, <2>1 DEF Var
<1>12. lent.vars = [m.vars EXCEPT ![n] = w] /\ lent.stk = m.stk /\ lent.err = FALSE /\ lent \in Machine
  <2>1. lent = [m EXCEPT !.vars = [m.vars EXCEPT ![n] = w]]
    BY <1>1, <1>7, <1>8, <1>10 DEF Borrowed, Machine
  <2>2. [m.vars EXCEPT ![n] = w] \in [Name -> Var]
    BY <1>7, <1>11
  <2> QED
    BY <1>7, <2>1, <2>2 DEF Machine
<1>13. Shown(w.flags, w.text.val) = Shown(v.flags, v.text.val)
  <2>1. ("EXPORT" \in w.flags) = ("EXPORT" \in v.flags) /\ ("READONLY" \in w.flags) = ("READONLY" \in v.flags)
    BY <1>11
  <2> QED
    BY <1>11, <2>1 DEF Shown
<1>14. PICK f : f = EnvOf(m.vars)
  OBVIOUS
<1>15. f \in [Name -> Promise!Variable] /\ f[n] = Shown(v.flags, v.text.val)
  BY <1>7, <1>8, <1>14, EnvType DEF EnvOf
<1>16. EnvOf(lent.vars) = f
  <2>1. EnvOf(lent.vars) = [EnvOf(m.vars) EXCEPT ![n] = Shown(w.flags, w.text.val)]
    BY ONLY <1>7, <1>11, <1>12, n \in Name DEF EnvOf
  <2> QED
    BY <1>13, <1>14, <1>15, <2>1
<1>17. Shaped(w) /\ Tight(n, w.flags, TRUE)
  BY <1>11 DEF Shaped, Tight
<1>18. l \in Saved /\ l.name = n /\ l.flags = v.flags /\ l.text = v.text
  BY <1>2, <1>8, <1>9 DEF Saved
<1>19. ShownSaved(l) = f[n]
  BY <1>9, <1>15, <1>18 DEF ShownSaved
<1>20. old.vars = lent.vars /\ old.stk = Linked(m.stk, l) /\ old.err = FALSE
  <2>1. old = [lent EXCEPT !.stk = Linked(m.stk, l)]
    BY <1>3, <1>12 DEF Link, Linked, Machine
  <2> QED
    BY <1>12, <2>1 DEF Machine
<1>21. Scoped(old.vars, old.stk)
  <2>1. ASSUME NEW x \in Name
        PROVE  Shaped(lent.vars[x]) /\ Tight(x, lent.vars[x].flags, SavedIn(m.stk, x) \/ x = l.name)
    <3>1. CASE x = n
      BY <1>7, <1>12, <1>17, <1>18, <3>1 DEF Tight
    <3>2. CASE x # n
      <4>1. lent.vars[x] = m.vars[x]
        BY <1>7, <1>12, <3>2
      <4> QED
        BY <1>18, <3>2, <4>1 DEF Scoped, Tight
    <3> QED
      BY <3>1, <3>2
  <2>2. Tight(l.name, l.flags, SavedIn(m.stk, l.name))
    BY <1>9, <1>18
  <2>3. Scoped(lent.vars, Linked(m.stk, l))
    BY <1>7, <1>18, <2>1, <2>2, LinkedScoped
  <2> QED
    BY <1>20, <2>3
<1>22. CASE val = None
  <2>1. r = old
    BY <1>4, <1>6, <1>20, <1>22
  <2>2. AsLocal(m, n, val, flags, r)
    BY <1>14, <1>16, <1>18, <1>19, <1>20, <1>21, <1>22, <2>1 DEF AsLocal
  <2> QED
    BY <1>5, <2>2
<1>23. CASE val # None /\ "READONLY" \in v.flags
  <2>1. set = Refused(old)
    <3>1. "READONLY" \in old.vars[n].flags
      BY <1>7, <1>11, <1>12, <1>20, <1>23
    <3> QED
      BY <1>4, <1>23, <3>1 DEF setvareq
  <2>2. old \in Machine
    <3>1. \A s \in Seq(Seq(Saved)) : [lent EXCEPT !.stk = s] \in Machine
      BY <1>12 DEF Machine
    <3>2. Linked(m.stk, l) \in Seq(Seq(Saved))
      BY <1>7, <1>18, LinkPlaces
    <3>3. old = [lent EXCEPT !.stk = Linked(m.stk, l)]
      BY <1>3, <1>12 DEF Link, Linked, Machine
    <3> QED
      BY <3>1, <3>2, <3>3
  <2>3. set.err = TRUE
    BY <2>1, <2>2 DEF Refused, Machine
  <2>4. r.vars = lent.vars /\ r.stk = m.stk /\ r.err = TRUE
    <3>1. r = Refused(lent)
      BY <1>6, <2>3
    <3> QED
      BY <1>12, <3>1 DEF Refused, Machine
  <2>5. Scoped(lent.vars, m.stk)
    <3>1. Tight(n, w.flags, SavedIn(m.stk, n))
      BY <1>11, <1>23 DEF Tight
    <3>2. ASSUME NEW x \in Name
          PROVE  Shaped(lent.vars[x]) /\ Tight(x, lent.vars[x].flags, SavedIn(m.stk, x))
      <4>1. CASE x = n
        BY <1>7, <1>12, <1>17, <3>1, <4>1
      <4>2. CASE x # n
        <5>1. lent.vars[x] = m.vars[x]
          BY <1>7, <1>12, <4>2
        <5> QED
          BY <5>1 DEF Scoped
      <4> QED
        BY <4>1, <4>2
    <3> QED
      BY <3>2 DEF Scoped
  <2>6. AsLocal(m, n, val, flags, r)
    BY <1>14, <1>16, <2>4, <2>5 DEF AsLocal
  <2> QED
    BY <1>5, <2>6
<1>24. CASE val # None /\ "READONLY" \notin v.flags
  <2>1. Follows(m, old)
    <3>1. mklocal(m, n, None, flags) = old
      BY <1>1, <1>2, <1>3, <1>20 DEF mklocal
    <3>2. Follows(m, mklocal(m, n, None, flags))
      BY MklocalFollows
    <3> QED
      BY <3>1, <3>2
  <2>2. old \in Machine /\ Bounded(old.stk)
    BY <2>1 DEF Follows, Kept
  <2>3. old.vars[n] = w
    BY <1>7, <1>12, <1>20
  <2>4. AsShown(old, n, val, flags, set)
    <3>1. "READONLY" \notin old.vars[n].flags /\ flags \in SUBSET {"EXPORT", "READONLY", "UNSET"}
          /\ ("UNSET" \in flags => val = None)
      BY <1>11, <1>24, <2>3
    <3>2. AsShown(old, n, val, flags, setvareq(old, n, val, flags))
      BY ONLY <1>21, <2>2, <3>1, NoAllExport, n \in Name, val \in Value \cup {None}, SetShows
    <3> QED
      BY <1>4, <1>24, <3>2
  <2>5. set.stk = old.stk /\ set.err = FALSE /\ Scoped(set.vars, set.stk)
        /\ EnvOf(set.vars) = [f EXCEPT ![n] = GivenShown(w, val, flags)]
    BY <1>16, <1>20, <2>3, <2>4 DEF AsShown
  <2>6. f[n].export = ("EXPORT" \in v.flags) /\ (f[n].readonly <=> "READONLY" \in v.flags)
    BY ONLY <1>15, ShownHas
  <2>7. GivenShown(w, val, flags) = Plain(val, "EXPORT" \in flags \/ f[n].export)
    <3>1. ~ Goes(w, flags)
      BY DEF Goes
    <3>2. (~ Goes(w, flags) /\ ("EXPORT" \in flags \/ "EXPORT" \in w.flags))
            = ("EXPORT" \in flags \/ f[n].export)
      BY <1>11, <2>6, <3>1
    <3>3. ("READONLY" \in flags) = FALSE
      OBVIOUS
    <3> QED
      BY ONLY <3>2, <3>3, Zenon DEF GivenShown, Plain
  <2>8. r = set
    BY <1>6, <2>5
  <2>9. AsLocal(m, n, val, flags, r)
    BY <1>14, <1>18, <1>19, <1>20, <1>24, <2>5, <2>6, <2>7, <2>8 DEF AsLocal
  <2> QED
    BY <1>5, <2>9
<1> QED
  BY <1>8, <1>22, <1>23, <1>24

\* mklocal saves the variable as it is, and may set it; of a readonly one it sets
\* nothing.
LEMMA LocalIs ==
  ASSUME NoAllExport, NEW m, Kept(m), ~ m.err, m.stk # <<>>, Len(m.stk[Len(m.stk)]) < MaxLocals,
         Scoped(m.vars, m.stk),
         NEW n \in Name, NEW val \in Value \cup {None}, NEW flags \in SUBSET {"EXPORT"},
         val = None => flags = {}
  PROVE  AsLocal(m, n, val, flags, mklocal(m, n, val, flags))
BY NewLocalShows, OldLocalShows

\* local.
LEMMA LocalShows ==
  ASSUME Inv, Inv', Scoped(vartab, stack), NoAllExport, NEW n \in Name, NEW v \in Value \cup {None},
         localcmd(n, v)
  PROVE  Keeps
<1>1. PICK h : h = Here
  OBVIOUS
<1>2. PICK r : r = mklocal(h, n, v, {})
  OBVIOUS
<1>3. /\ Running /\ optlist' = optlist /\ Done(r) /\ stack # <<>>
      /\ Len(stack[Len(stack)]) < MaxLocals
  BY <1>1, <1>2 DEF localcmd, Room, Last, Unmoved
<1>4. Kept(h) /\ h.vars = vartab /\ h.stk = stack /\ h.err = FALSE /\ stack \in Seq(Seq(Saved))
  BY <1>1, HereIs DEF Inv
<1>5. AsLocal(h, n, v, {}, r)
  <2>1. /\ h.stk # <<>> /\ Len(h.stk[Len(h.stk)]) < MaxLocals /\ Scoped(h.vars, h.stk) /\ ~ h.err
    BY <1>3, <1>4
  <2> QED
    BY <1>2, <1>4, <2>1, LocalIs
<1>6. CASE r.err
  <2>1. Scoped(r.vars, r.stk) /\ r.stk = stack /\ EnvOf(r.vars) = EnvOf(vartab)
    BY <1>4, <1>5, <1>6 DEF AsLocal
  <2>2. vartab' = r.vars /\ stack' = r.stk
    BY <1>3 DEF Done
  <2> QED
    BY <1>3, <2>1, <2>2, FailShown DEF Keeps
<1>7. CASE ~ r.err
  <2>1. /\ ShownEnv = EnvOf(vartab) /\ ShownScopes = ScopesOf(stack) /\ ShownOption = optlist
        /\ ShownEnv' = EnvOf(r.vars) /\ ShownScopes' = ScopesOf(r.stk) /\ ShownOption' = optlist'
        /\ vartab' = r.vars /\ stack' = r.stk
    BY <1>3, <1>7, DoneShown
  <2>2. /\ Scoped(r.vars, r.stk)
        /\ \E l \in Saved : l.name = n /\ ShownSaved(l) = ShownEnv[n] /\ r.stk = Linked(stack, l)
        /\ v = None => ShownEnv' = ShownEnv
        /\ v # None => /\ ~ ShownEnv[n].readonly
                       /\ ShownEnv' = [ShownEnv EXCEPT ![n] = Plain(v, "EXPORT" \in {} \/ ShownEnv[n].export)]
    BY <1>4, <1>5, <1>7, <2>1 DEF AsLocal
  <2>3. PICK l \in Saved : l.name = n /\ ShownSaved(l) = ShownEnv[n] /\ r.stk = Linked(stack, l)
    BY <2>2
  <2>4. /\ Len(ShownScopes) = Len(stack) /\ ShownScopes # <<>>
        /\ ShownScopes[Len(stack)] = ScopeOf(Last(stack)) /\ Last(stack) \in Seq(Saved)
        /\ ShownScopes' = [ShownScopes EXCEPT ![Len(stack)] = ScopeOf(Append(Last(stack), l))]
    BY <1>3, <1>4, <2>1, <2>3, LinkedShows
  <2>5. PICK u : u = Last(stack)
    OBVIOUS
  <2>6. Promise!Inner = [vars |-> LocalsOf(u), option |-> OptionsOf(u)]
    BY <2>4, <2>5 DEF Promise!Inner, ScopeOf
  <2>7. ScopeOf(Append(u, l)) =
          [vars |-> [x \in DOMAIN LocalsOf(u) \cup {n} |->
                       IF x \in DOMAIN LocalsOf(u) THEN LocalsOf(u)[x] ELSE ShownSaved(l)],
           option |-> OptionsOf(u)]
    BY <2>3, <2>4, <2>5, ScopeAppended
  <2>8. [x \in DOMAIN LocalsOf(u) \cup {n} |->
                       IF x \in DOMAIN LocalsOf(u) THEN LocalsOf(u)[x] ELSE ShownSaved(l)]
          = [x \in DOMAIN LocalsOf(u) \cup {n} |->
                       IF x \in DOMAIN LocalsOf(u) THEN LocalsOf(u)[x] ELSE ShownEnv[x]]
    BY <2>3
  <2>9. Promise!Saving(Promise!Inner, n) = ScopeOf(Append(u, l))
    BY <2>6, <2>7, <2>8 DEF Promise!Saving
  <2>10. ShownScopes' = Promise!Innermost(Promise!Saving(Promise!Inner, n))
    BY <2>4, <2>5, <2>9 DEF Promise!Innermost
  <2>11. ShownOption' = ShownOption
    BY <1>3, <2>1
  <2>12. CASE v = None
    <3>1. Promise!Local(n)
      BY <2>2, <2>4, <2>10, <2>11, <2>12 DEF Promise!Local
    <3> QED
      BY <2>1, <2>2, <3>1 DEF Keeps, Promise!Next
  <2>13. CASE v # None
    <3>1. ShownEnv \in [Name -> Promise!Variable] /\ v \in Value
      BY <2>1, <2>13, EnvType DEF Inv
    <3>2. Plain(v, "EXPORT" \in {} \/ ShownEnv[n].export) = Promise!Given(n, v, FALSE)
      <4>1. ("EXPORT" \in {} \/ ShownEnv[n].export) = (FALSE \/ AllExport \/ ShownEnv[n].export)
        BY DEF NoAllExport
      <4> QED
        BY ONLY <4>1, Zenon DEF Plain, Promise!Given
    <3>3. ShownEnv' = [ShownEnv EXCEPT ![n] = Promise!Given(n, v, FALSE)]
      BY ONLY <2>2, <2>13, <3>2, Zenon
    <3>4. ShownEnv'[n].val = v
      BY <3>1, <3>3 DEF Promise!Given
    <3>5. Promise!Sets(n, FALSE)
      BY <2>2, <2>13, <3>1, <3>3, <3>4 DEF Promise!Sets
    <3>6. Promise!Local(n)
      BY <2>4, <2>10, <2>11, <3>5 DEF Promise!Local
    <3> QED
      BY <2>1, <2>2, <3>6 DEF Keeps, Promise!Next
  <2> QED
    BY <2>12, <2>13
<1> QED
  BY <1>6, <1>7

\* local -.
LEMMA LocalDashShows ==
  ASSUME Inv, Inv', Scoped(vartab, stack), LocalDash
  PROVE  Keeps
<1>1. PICK h : h = Here
  OBVIOUS
<1>2. PICK l : l = [name |-> "-", flags |-> {}, text |-> NoText, on |-> optlist]
  OBVIOUS
<1>3. PICK r : r = Link(h, l)
  OBVIOUS
<1>4. Running /\ optlist' = optlist /\ Done(r) /\ stack # <<>>
  BY <1>1, <1>2, <1>3 DEF LocalDash, Room, Unmoved
<1>5. Kept(h) /\ h.vars = vartab /\ h.stk = stack /\ h.err = FALSE /\ stack \in Seq(Seq(Saved))
  BY <1>1, HereIs DEF Inv
<1>6. l \in Saved /\ l.name = "-" /\ l.on = optlist /\ "-" \notin Name
  BY <1>2, BlocksType, NameAssumption DEF Saved, Text, NoText, Inv
<1>7. r.vars = vartab /\ r.stk = Linked(stack, l) /\ r.err = FALSE
  <2>1. r = [h EXCEPT !.stk = Linked(stack, l)]
    BY <1>3, <1>5 DEF Link, Linked, Kept, Machine
  <2>2. h \in Machine
    BY <1>5 DEF Kept
  <2> QED
    BY <1>5, <2>1, <2>2 DEF Machine
<1>8. /\ ShownEnv = EnvOf(vartab) /\ ShownScopes = ScopesOf(stack) /\ ShownOption = optlist
      /\ ShownEnv' = EnvOf(r.vars) /\ ShownScopes' = ScopesOf(r.stk) /\ ShownOption' = optlist'
      /\ vartab' = r.vars /\ stack' = r.stk
  <2>1. ~ r.err
    BY <1>7
  <2> QED
    BY <1>4, <2>1, DoneShown
<1>9. /\ Len(ShownScopes) = Len(stack) /\ ShownScopes # <<>>
      /\ ShownScopes[Len(stack)] = ScopeOf(Last(stack)) /\ Last(stack) \in Seq(Saved)
      /\ ShownScopes' = [ShownScopes EXCEPT ![Len(stack)] = ScopeOf(Append(Last(stack), l))]
  BY <1>4, <1>5, <1>6, <1>7, <1>8, LinkedShows
<1>10. PICK u : u = Last(stack)
  OBVIOUS
<1>11. ScopeOf(Append(u, l)) =
         [vars |-> LocalsOf(u), option |-> IF OptionsOf(u) = {} THEN {optlist} ELSE OptionsOf(u)]
  BY <1>6, <1>9, <1>10, ScopeDashed
<1>12. Promise!Inner = [vars |-> LocalsOf(u), option |-> OptionsOf(u)]
  BY <1>9, <1>10 DEF Promise!Inner, ScopeOf
<1>13. [Promise!Inner EXCEPT !.option = IF @ = {} THEN {ShownOption} ELSE @] = ScopeOf(Append(u, l))
  BY <1>8, <1>11, <1>12
<1>14. ShownScopes' = Promise!Innermost([Promise!Inner EXCEPT !.option = IF @ = {} THEN {ShownOption} ELSE @])
  BY <1>9, <1>10, <1>13 DEF Promise!Innermost
<1>15. Promise!LocalOptions
  BY <1>4, <1>7, <1>8, <1>9, <1>14 DEF Promise!LocalOptions
<1>16. Scoped(vartab', stack')
  <2>1. PICK t : t = vartab
    OBVIOUS
  <2>2. PICK s : s = stack
    OBVIOUS
  <2>3. Scoped(t, s) /\ s \in Seq(Seq(Saved)) /\ s # <<>>
    BY <1>4, <1>5, <2>1, <2>2
  <2>4. \A n \in Name : Shaped(t[n]) /\ Tight(n, t[n].flags, SavedIn(s, n) \/ n = l.name)
    BY <1>6, <2>3 DEF Scoped, Tight
  <2>5. Scoped(t, Linked(s, l))
    BY <1>6, <2>3, <2>4, LinkedScoped
  <2> QED
    BY <1>7, <1>8, <2>1, <2>2, <2>5
<1> QED
  BY <1>15, <1>16 DEF Keeps, Promise!Next

-----------------------------------------------------------------------------
(* Variables are put back.                                                 *)

\* A sequence is its front and its last element.
LEMMA FrontLast ==
  ASSUME NEW S, NEW u \in Seq(S), u # <<>>
  PROVE  /\ Front(u) \in Seq(S) /\ Last(u) \in S /\ u = Append(Front(u), Last(u))
         /\ Last(u) = u[Len(u)]
<1>1. Len(u) \in Nat /\ Len(u) # 0
  BY EmptySeq
<1>2. PICK k : k = Len(u) - 1
  OBVIOUS
<1>3. k \in Nat /\ k \in Int /\ 1 \in Int /\ Len(u) = k + 1
  BY <1>1, <1>2
<1>4. \A i \in 1 .. k : u[i] \in S
  BY <1>3
<1>5. /\ SubSeq(u, 1, k) \in Seq(S)
      /\ Len(SubSeq(u, 1, k)) = IF 1 <= k THEN k - 1 + 1 ELSE 0
      /\ \A i \in 1 .. k - 1 + 1 : SubSeq(u, 1, k)[i] = u[1 + i - 1]
  BY ONLY <1>3, <1>4, SubSeqProperties
<1>6. PICK f : f = Front(u)
  OBVIOUS
<1>7. f = SubSeq(u, 1, k)
  BY <1>2, <1>6 DEF Front
<1>8. Len(f) = k /\ f \in Seq(S)
  BY ONLY <1>3, <1>5, <1>7
<1>9. \A i \in 1 .. k : f[i] = u[i]
  <2>1. \A i \in 1 .. k : i \in 1 .. k - 1 + 1 /\ 1 + i - 1 = i
    BY ONLY <1>3
  <2> QED
    BY ONLY <1>5, <1>7, <2>1
<1>10. PICK l : l = u[k + 1]
  OBVIOUS
<1>11. l \in S /\ Last(u) = l
  BY <1>3, <1>10 DEF Last
<1>12. /\ Append(f, l) \in Seq(S) /\ Len(Append(f, l)) = k + 1 /\ Append(f, l)[k + 1] = l
       /\ \A i \in 1 .. k : Append(f, l)[i] = f[i]
  BY ONLY <1>8, <1>11, AppendProperties
<1>13. \A i \in 1 .. k + 1 : i \in 1 .. k \/ i = k + 1
  BY ONLY <1>3
<1>14. u = Append(f, l)
  <2>1. /\ Append(f, l) = [i \in 1 .. k + 1 |-> Append(f, l)[i]]
        /\ u = [i \in 1 .. k + 1 |-> u[i]]
    <3>1. Append(f, l) \in [1 .. k + 1 -> S] /\ u \in [1 .. k + 1 -> S]
      BY ONLY <1>3, <1>12, u \in Seq(S), LenProperties
    <3> QED
      BY ONLY <3>1
  <2>2. \A i \in 1 .. k + 1 : u[i] = Append(f, l)[i]
    BY ONLY <1>9, <1>10, <1>12, <1>13
  <2> QED
    BY ONLY <2>1, <2>2, Zenon
<1> QED
  BY <1>3, <1>6, <1>8, <1>10, <1>11, <1>14

\* A saved variable that is taken away was linked before.
LEMMA PoppedLinked ==
  ASSUME NEW stk \in Seq(Seq(Saved)), stk # <<>>, Last(stk) # <<>>
  PROVE  /\ Popped(stk) \in Seq(Seq(Saved)) /\ Popped(stk) # <<>> /\ Len(Popped(stk)) = Len(stk)
         /\ Last(Last(stk)) \in Saved
         /\ Last(Last(stk)) = stk[Len(stk)][Len(stk[Len(stk)])]
         /\ stk = Linked(Popped(stk), Last(Last(stk)))
         /\ Last(stk) = Append(Last(Popped(stk)), Last(Last(stk)))
         /\ Last(Popped(stk)) \in Seq(Saved)
         /\ ScopesOf(Front(stk)) = ScopesOf(Front(Popped(stk)))
<1>1. /\ Last(stk) = stk[Len(stk)] /\ Last(stk) \in Seq(Saved)
      /\ Len(stk) \in Nat /\ Len(stk) > 0
  BY FrontIs
<1>2. PICK k \in Nat : k = Len(stk)
  BY <1>1
<1>3. PICK u \in Seq(Saved) : u = Last(stk)
  BY <1>1
<1>4. PICK f \in Seq(Saved) : f = Front(u)
  BY <1>3, FrontLast
<1>5. PICK l \in Saved : l = Last(u)
  BY <1>3, FrontLast
<1>6. u = Append(f, l) /\ l = u[Len(u)]
  BY ONLY <1>3, <1>4, <1>5, Last(stk) # <<>>, u \in Seq(Saved), FrontLast
<1>7. PICK s : s = Popped(stk)
  OBVIOUS
<1>8. s = [stk EXCEPT ![k] = f]
  BY <1>1, <1>2, <1>3, <1>4, <1>7 DEF Popped
<1>9. /\ s \in Seq(Seq(Saved)) /\ Len(s) = k /\ s[k] = f
      /\ \A i \in 1 .. k : i # k => s[i] = stk[i]
  BY <1>1, <1>2, <1>8
<1>10. s # <<>> /\ Last(s) = f
  BY <1>1, <1>2, <1>9 DEF Last
<1>11. stk = Linked(s, l)
  <2>1. Linked(s, l) = [s EXCEPT ![k] = u]
    BY <1>6, <1>9 DEF Linked
  <2>2. stk[k] = u
    BY <1>1, <1>2, <1>3
  <2>3. [[stk EXCEPT ![k] = f] EXCEPT ![k] = u] = stk
    <3>1. stk \in [1 .. k -> Seq(Saved)]
      BY <1>2, LenProperties
    <3> QED
      BY ONLY <2>2, <3>1
  <2> QED
    BY <1>8, <2>1, <2>3
<1>12. ScopesOf(Front(stk)) = ScopesOf(Front(s))
  <2>1. /\ Len(Front(stk)) = Len(stk) - 1 /\ \A i \in 1 .. Len(stk) - 1 : Front(stk)[i] = stk[i]
    BY FrontIs
  <2>2. /\ Len(Front(s)) = Len(s) - 1 /\ \A i \in 1 .. Len(s) - 1 : Front(s)[i] = s[i]
    BY <1>9, <1>10, FrontIs
  <2>3. Len(Front(stk)) = k - 1 /\ Len(Front(s)) = k - 1
    BY <1>2, <1>9, <2>1, <2>2
  <2>4. \A i \in 1 .. k - 1 : Front(stk)[i] = Front(s)[i]
    <3>1. \A i \in 1 .. k - 1 : i \in 1 .. k /\ i # k
      OBVIOUS
    <3> QED
      BY ONLY <1>2, <1>9, <2>1, <2>2, <3>1
  <2> QED
    BY ONLY <2>3, <2>4 DEF ScopesOf
<1> QED
  BY <1>1, <1>2, <1>3, <1>5, <1>6, <1>7, <1>9, <1>10, <1>11, <1>12

\* The marks are tight when a variable is put back, its saved marks were.
LEMMA UnlinkedScoped ==
  ASSUME NEW s \in Seq(Seq(Saved)), s # <<>>, NEW l \in Saved, NEW old, Scoped(old, Linked(s, l)),
         NEW t, \A n \in Name : Shaped(t[n]) /\ Tight(n, t[n].flags, SavedIn(s, n))
  PROVE  Scoped(t, s)
<1> DEFINE stk == Linked(s, l)
<1>1. Extends(stk, s, l)
  <2> HIDE DEF stk
  <2> QED
    BY ONLY s \in Seq(Seq(Saved)), s # <<>>, l \in Saved, LinkPlaces DEF stk
<1>2. \A x : \A i, j \in Nat : Place(s, i, j) => (SavedBelow(stk, x, i, j) <=> SavedBelow(s, x, i, j))
  <2> HIDE DEF stk
  <2> QED
    BY ONLY s \in Seq(Seq(Saved)), s # <<>>, l \in Saved, LinkedSaved DEF stk
<1>3. Scoped(old, stk)
  OBVIOUS
<1> HIDE DEF stk
<1>4. ASSUME NEW i \in Nat, NEW j \in Nat, Place(s, i, j), s[i][j].name \in Name
      PROVE  Tight(s[i][j].name, s[i][j].flags, SavedBelow(s, s[i][j].name, i, j))
  <2>1. Place(stk, i, j) /\ stk[i][j] = s[i][j]
    BY <1>1, <1>4 DEF Extends
  <2>2. Tight(s[i][j].name, s[i][j].flags, SavedBelow(stk, s[i][j].name, i, j))
    BY <1>3, <1>4, <2>1 DEF Scoped
  <2> QED
    BY <1>2, <1>4, <2>2 DEF Tight
<1> QED
  BY <1>4 DEF Scoped

\* So were those of the variable that is put back.
LEMMA UnlinkedTight ==
  ASSUME NEW s \in Seq(Seq(Saved)), s # <<>>, NEW l \in Saved, NEW old, Scoped(old, Linked(s, l))
  PROVE  /\ l.name \in Name => Tight(l.name, l.flags, SavedIn(s, l.name))
         /\ \A n \in Name : n # l.name => Shaped(old[n]) /\ Tight(n, old[n].flags, SavedIn(s, n))
<1> DEFINE stk == Linked(s, l)
<1>1. Extends(stk, s, l)
  <2> HIDE DEF stk
  <2> QED
    BY ONLY s \in Seq(Seq(Saved)), s # <<>>, l \in Saved, LinkPlaces DEF stk
<1>2. \A x : /\ SavedIn(stk, x) <=> SavedIn(s, x) \/ x = l.name
             /\ SavedBelow(stk, x, Len(s), LastPlace(s)) <=> SavedIn(s, x)
  <2> HIDE DEF stk
  <2> QED
    BY ONLY s \in Seq(Seq(Saved)), s # <<>>, l \in Saved, LinkedSaved DEF stk
<1>3. Scoped(old, stk)
  OBVIOUS
<1> HIDE DEF stk
<1>4. /\ Len(s) \in Nat /\ LastPlace(s) \in Nat /\ Place(stk, Len(s), LastPlace(s))
      /\ stk[Len(s)][LastPlace(s)] = l
  BY <1>1 DEF Extends
<1>5. l.name \in Name => Tight(l.name, l.flags, SavedBelow(stk, l.name, Len(s), LastPlace(s)))
  BY <1>3, <1>4 DEF Scoped
<1>6. l.name \in Name => Tight(l.name, l.flags, SavedIn(s, l.name))
  BY <1>2, <1>5 DEF Tight
<1>7. ASSUME NEW n \in Name, n # l.name
      PROVE  Shaped(old[n]) /\ Tight(n, old[n].flags, SavedIn(s, n))
  BY <1>2, <1>3, <1>7 DEF Scoped, Tight
<1> QED
  BY <1>6, <1>7

\* One variable is put back, and what was saved last is gone.
LEMMA PutBack ==
  ASSUME NEW t \in [Name -> Var], NEW s \in Seq(Seq(Saved)), s # <<>>, NEW l \in Saved, l.name \in Name,
         Scoped(t, Linked(s, l)), NEW w \in Var, Shaped(w), Tight(l.name, w.flags, SavedIn(s, l.name))
  PROVE  Scoped([t EXCEPT ![l.name] = w], s)
<1>1. PICK n \in Name : n = l.name
  OBVIOUS
<1>2. PICK r : r = [t EXCEPT ![n] = w]
  OBVIOUS
<1>3. r[n] = w /\ \A x \in Name : x # n => r[x] = t[x]
  BY ONLY <1>2, t \in [Name -> Var]
<1>4. \A x \in Name : x # n => Shaped(t[x]) /\ Tight(x, t[x].flags, SavedIn(s, x))
  BY <1>1, UnlinkedTight
<1>5. \A x \in Name : Shaped(r[x]) /\ Tight(x, r[x].flags, SavedIn(s, x))
  BY ONLY <1>1, <1>3, <1>4, Shaped(w), Tight(l.name, w.flags, SavedIn(s, l.name))
<1>6. Scoped(r, s)
  BY <1>5, UnlinkedScoped
<1> QED
  BY <1>1, <1>2, <1>6

\* What is seen of r, in which l was put back, and s is what remains saved.
AsRestored(a, l, s, r) ==
  /\ r.stk = s
  /\ EnvOf(r.vars) = [EnvOf(a.vars) EXCEPT ![l.name] = ShownSaved(l)]
  /\ Scoped(r.vars, s)

\* When one variable is put back, and shows what was saved.
LEMMA PutBackShows ==
  ASSUME NEW a \in Machine, NEW s \in Seq(Seq(Saved)), s # <<>>, NEW l \in Saved, l.name \in Name,
         Scoped(a.vars, Linked(s, l)), NEW w \in Var, Shaped(w),
         Tight(l.name, w.flags, SavedIn(s, l.name)), Shown(w.flags, w.text.val) = ShownSaved(l),
         NEW r, r.stk = s, r.vars = [a.vars EXCEPT ![l.name] = w]
  PROVE  AsRestored(a, l, s, r)
<1>1. PICK t \in [Name -> Var] : t = a.vars
  BY MachineHas
<1>2. Scoped([t EXCEPT ![l.name] = w], s)
  BY <1>1, PutBack
<1>3. EnvOf([t EXCEPT ![l.name] = w]) = [EnvOf(t) EXCEPT ![l.name] = Shown(w.flags, w.text.val)]
  <2>1. PICK n \in Name : n = l.name
    OBVIOUS
  <2>2. EnvOf([t EXCEPT ![n] = w]) = [EnvOf(t) EXCEPT ![n] = Shown(w.flags, w.text.val)]
    BY ONLY t \in [Name -> Var], n \in Name DEF EnvOf
  <2> QED
    BY <2>1, <2>2
<1> QED
  BY <1>1, <1>2, <1>3 DEF AsRestored

\* A variable that was not there is taken away.
LEMMA NewRestored ==
  ASSUME NoAllExport, NEW a, Kept(a), NEW s \in Seq(Seq(Saved)), s # <<>>, Bounded(s),
         NEW l \in Saved, l.name \in Name, Scoped(a.vars, Linked(s, l)), l.flags = {"UNSET"}
  PROVE  AsRestored(a, l, s, Restored([a EXCEPT !.stk = s], l))
<1>1. PICK n \in Name : n = l.name
  OBVIOUS
<1>2. a \in Machine
  BY DEF Kept
<1>3. /\ a.vars \in [Name -> Var] /\ a.vars[n] \in Var /\ a.vars[n].flags \in SUBSET Flag
  BY <1>2, MachineHas
<1>4. PICK marks \in SUBSET Flag : marks = a.vars[n].flags \ {"STRFIXED", "READONLY"}
  BY <1>3
<1>5. PICK c : c = [[a EXCEPT !.stk = s] EXCEPT !.vars[n].flags = marks]
  OBVIOUS
<1>6. PICK v \in Var : v = [a.vars[n] EXCEPT !.flags = marks]
  BY <1>3 DEF Var
<1>7. /\ c \in Machine /\ c.stk = s
      /\ c.vars = [a.vars EXCEPT ![n] = v]
  BY ONLY <1>2, <1>3, <1>5, <1>6, s \in Seq(Seq(Saved)) DEF Machine
<1>8. c.vars[n] = v /\ v.flags = marks
  BY ONLY <1>3, <1>6, <1>7 DEF Var
<1>9. PICK given \in SUBSET Flag : given = {"UNSET"}
  BY DEF Flag
<1>10. PICK r : r = setvareq(c, n, None, given)
  OBVIOUS
<1>11. Restored([a EXCEPT !.stk = s], l) = r
  <2>1. Restored([a EXCEPT !.stk = s], l) = unsetvar(c, n)
    BY <1>1, <1>4, <1>5 DEF Restored
  <2> QED
    BY <2>1, <1>9, <1>10 DEF unsetvar
<1>12. AsShape(c, n, None, given, r)
  <2>1. "READONLY" \notin c.vars[n].flags /\ Bounded(c.stk) /\ None \in Value \cup {None}
    BY <1>4, <1>7, <1>8
  <2> QED
    BY ONLY <2>1, <1>7, <1>10, NoAllExport, SetShape
<1>13. PICK w \in Var : r.stk = s /\ r.vars = [c.vars EXCEPT ![n] = w] /\ NewVar(v, None, given, w)
  BY ONLY <1>7, <1>8, <1>12 DEF AsShape
<1>14. w = Gone
  <2>1. Goes(v, given)
    BY <1>4, <1>8, <1>9 DEF Goes
  <2> QED
    BY <1>13, <2>1 DEF NewVar
<1>15. r.vars = [a.vars EXCEPT ![n] = w]
  BY ONLY <1>3, <1>7, <1>13
<1>16. Tight(n, w.flags, SavedIn(s, n)) /\ Shaped(w)
  <2>1. Tight(n, {"UNSET"}, SavedIn(s, n))
    BY <1>1, UnlinkedTight
  <2>2. w.flags = {} /\ ~ w.here
    BY <1>14 DEF Gone
  <2> QED
    BY <1>14, <2>1, <2>2 DEF Tight, Shaped
<1>17. Shown(w.flags, w.text.val) = ShownSaved(l)
  BY <1>14 DEF Gone, NoText, ShownSaved
<1>18. AsRestored(a, l, s, r)
  BY ONLY <1>1, <1>2, <1>13, <1>15, <1>16, <1>17, s \in Seq(Seq(Saved)), s # <<>>, l \in Saved, l.name \in Name,
     Scoped(a.vars, Linked(s, l)), PutBackShows
<1> QED
  BY <1>11, <1>18

\* A variable that was there is what it was.
LEMMA OldRestored ==
  ASSUME NEW a, Kept(a), NEW s \in Seq(Seq(Saved)), s # <<>>,
         NEW l \in Saved, l.name \in Name, Scoped(a.vars, Linked(s, l)), l.flags # {"UNSET"}
  PROVE  AsRestored(a, l, s, Restored([a EXCEPT !.stk = s], l))
<1>1. PICK n \in Name : n = l.name
  OBVIOUS
<1>2. a \in Machine
  BY DEF Kept
<1>3. /\ a.vars \in [Name -> Var] /\ a.vars[n] \in Var
  BY <1>2, MachineHas
<1>4. PICK m : m = [a EXCEPT !.stk = s]
  OBVIOUS
<1>5. m \in Machine /\ m.vars = a.vars /\ m.stk = s
  BY ONLY <1>2, <1>4, s \in Seq(Seq(Saved)) DEF Machine
<1>6. l.flags \in SUBSET Flag /\ l.text \in Text /\ l.text.val \in Value \cup {None}
  BY DEF Saved, Text
<1>7. PICK w \in Var : w = [here |-> TRUE, flags |-> l.flags, text |-> l.text]
  BY <1>6 DEF Var
<1>8. PICK g : g = func(m, n, l.text.val)
  OBVIOUS
<1>9. PICK c : c = IF n = "PATH" THEN changepath(m.cmds, l.text.val) ELSE m.cmds
  OBVIOUS
<1>10. PICK f : f = ckfree(g, n)
  OBVIOUS
<1>11. Freed(m, n, c, f)
  BY <1>5, <1>6, <1>8, <1>9, <1>10, FreeIs
<1>12. PICK r : r = [f EXCEPT !.vars[n] = w]
  OBVIOUS
<1>13. Restored(m, l) = r
  BY <1>1, <1>7, <1>8, <1>10, <1>12 DEF Restored
<1>14. r.stk = s /\ r.vars = [a.vars EXCEPT ![n] = w]
  BY ONLY <1>3, <1>5, <1>11, <1>12 DEF Freed, Machine
<1>15. w.flags = l.flags /\ w.text = l.text /\ w.here = TRUE
  BY <1>7
<1>16. Tight(n, w.flags, SavedIn(s, n)) /\ Shaped(w)
  <2>1. Tight(n, l.flags, SavedIn(s, n))
    BY <1>1, UnlinkedTight
  <2> QED
    BY <1>15, <2>1 DEF Shaped
<1>17. Shown(w.flags, w.text.val) = ShownSaved(l)
  BY <1>15 DEF ShownSaved
<1>18. AsRestored(a, l, s, r)
  BY ONLY <1>1, <1>2, <1>14, <1>16, <1>17, s \in Seq(Seq(Saved)), s # <<>>, l \in Saved, l.name \in Name,
     Scoped(a.vars, Linked(s, l)), PutBackShows
<1> QED
  BY <1>4, <1>13, <1>18

\* The marks are as tight in a stack with the same places.
LEMMA SamePlaces ==
  ASSUME NEW t, NEW stk, NEW s, Scoped(t, stk),
         \A i, j \in Nat : Place(s, i, j) <=> Place(stk, i, j),
         \A i, j \in Nat : Place(s, i, j) => s[i][j] = stk[i][j]
  PROVE  Scoped(t, s)
<1>1. \A n : SavedIn(s, n) <=> SavedIn(stk, n)
  BY DEF SavedIn
<1>2. \A n : \A i, j \in Nat : SavedBelow(s, n, i, j) <=> SavedBelow(stk, n, i, j)
  BY DEF SavedBelow
<1>3. ASSUME NEW n \in Name
      PROVE  Shaped(t[n]) /\ Tight(n, t[n].flags, SavedIn(s, n))
  BY <1>1 DEF Scoped, Tight
<1>4. ASSUME NEW i \in Nat, NEW j \in Nat, Place(s, i, j), s[i][j].name \in Name
      PROVE  Tight(s[i][j].name, s[i][j].flags, SavedBelow(s, s[i][j].name, i, j))
  <2>1. Place(stk, i, j) /\ stk[i][j] = s[i][j]
    BY <1>4
  <2>2. Tight(s[i][j].name, s[i][j].flags, SavedBelow(stk, s[i][j].name, i, j))
    BY <1>4, <2>1 DEF Scoped
  <2> QED
    BY <1>2, <2>2 DEF Tight
<1> QED
  BY <1>3, <1>4 DEF Scoped

\* A scope with nothing saved more, at the end.
LEMMA EmptyScope ==
  ASSUME NEW stk \in Seq(Seq(Saved)), stk # <<>>, Last(stk) = <<>>
  PROVE  /\ \A i, j \in Nat : Place(Front(stk), i, j) <=> Place(stk, i, j)
         /\ \A i, j \in Nat : Place(Front(stk), i, j) => Front(stk)[i][j] = stk[i][j]
<1>1. PICK s : s = Front(stk)
  OBVIOUS
<1>2. PICK k \in Nat : k = Len(stk)
  BY FrontIs
<1>3. /\ Len(s) = k - 1 /\ k > 0 /\ stk[k] = <<>>
      /\ \A i \in 1 .. k - 1 : s[i] = stk[i]
  BY <1>1, <1>2, FrontIs
<1>4. ASSUME NEW i \in Nat, NEW j \in Nat
      PROVE  /\ Place(s, i, j) <=> Place(stk, i, j)
             /\ Place(s, i, j) => s[i][j] = stk[i][j]
  <2>1. CASE i \in 1 .. k - 1
    <3>1. s[i] = stk[i] /\ i \in 1 .. k
      BY <1>3, <2>1
    <3> QED
      BY <1>2, <1>3, <2>1, <3>1 DEF Place
  <2>2. CASE i = k
    <3>1. ~ Place(stk, i, j)
      <4>1. Len(stk[i]) = 0
        BY <1>3, <2>2
      <4> QED
        BY <4>1 DEF Place
    <3>2. ~ Place(s, i, j)
      BY <1>3, <2>2 DEF Place
    <3> QED
      BY <3>1, <3>2
  <2>3. CASE i \notin 1 .. k - 1 /\ i # k
    BY <1>2, <1>3, <2>3 DEF Place
  <2> QED
    BY <2>1, <2>2, <2>3
<1> QED
  BY <1>1, <1>4

\* A scope that is empty is left.
LEMMA PopScopeShows ==
  ASSUME Inv, Inv', Scoped(vartab, stack), PopScope
  PROVE  Keeps
<1>1. PICK s : s = Front(stack)
  OBVIOUS
<1>2. /\ ~ Running /\ Last(stack) = <<>> /\ stack' = s /\ vartab' = vartab /\ optlist' = optlist
  BY <1>1 DEF PopScope, Unmoved
<1>3. View /\ View' /\ stack \in Seq(Seq(Saved))
  BY ViewIs, NextViewIs DEF Inv
<1>4. stack # <<>>
  BY <1>2, <1>3 DEF View
<1>5. PICK f \in [Name -> Promise!Variable] : f = EnvOf(vartab)
  BY EnvType DEF Inv
<1>6. ShownEnv = f /\ ShownScopes = ScopesOf(s) /\ ShownOption = optlist
  <2>1. /\ ShownEnv = Overlay(Last(stack), EnvOf(vartab)) /\ ShownScopes = ScopesOf(Front(stack))
        /\ ShownOption = OptionAfter(Last(stack), optlist)
    BY <1>2, <1>3 DEF View
  <2> QED
    BY <1>1, <1>2, <1>5, <2>1, ScopeEmpty
<1>7. [Promise!Next]_Promise!vars
  <2>1. CASE Running'
    <3>1. ShownEnv' = EnvOf(vartab') /\ ShownScopes' = ScopesOf(stack') /\ ShownOption' = optlist'
      BY <1>3, <2>1 DEF View
    <3> QED
      BY <1>2, <1>5, <1>6, <3>1 DEF Promise!vars
  <2>2. CASE ~ Running'
    <3>1. /\ s # <<>> /\ ShownEnv' = Overlay(Last(s), f) /\ ShownScopes' = ScopesOf(Front(s))
          /\ ShownOption' = OptionAfter(Last(s), optlist)
      BY <1>2, <1>3, <1>5, <2>2 DEF View
    <3>2. s \in Seq(Seq(Saved)) /\ optlist \in BOOLEAN
      BY <1>1, <1>3, <1>4, FrontIs DEF Inv
    <3>3. Promise!Leave
      BY <1>6, <3>1, <3>2, LeaveIs
    <3> QED
      BY <3>3 DEF Promise!Next
  <2> QED
    BY <2>1, <2>2
<1>8. Scoped(vartab, s)
  <2>1. /\ \A i, j \in Nat : Place(Front(stack), i, j) <=> Place(stack, i, j)
        /\ \A i, j \in Nat : Place(Front(stack), i, j) => Front(stack)[i][j] = stack[i][j]
    BY <1>2, <1>3, <1>4, EmptyScope
  <2>2. /\ \A i, j \in Nat : Place(s, i, j) <=> Place(stack, i, j)
        /\ \A i, j \in Nat : Place(s, i, j) => s[i][j] = stack[i][j]
    BY ONLY <1>1, <2>1
  <2> QED
    BY ONLY Scoped(vartab, stack), <2>2, SamePlaces
<1> QED
  BY <1>2, <1>7, <1>8 DEF Keeps

\* A function returns.
LEMMA ReturnShows ==
  ASSUME Inv, Inv', Scoped(vartab, stack), Return
  PROVE  Keeps
<1>1. Running /\ vartab' = vartab /\ stack' = stack /\ optlist' = optlist
  BY DEF Return, Unmoved
<1>2. EnvOf(vartab') = EnvOf(vartab) /\ Scoped(vartab, stack)'
  BY <1>1
<1> QED
  BY <1>1, <1>2, LeaveShown DEF Keeps

\* One variable, or the options, are put back: nothing of it is seen, for the scope
\* counts as left.
LEMMA PopLocalShows ==
  ASSUME Inv, Inv', Scoped(vartab, stack), NoAllExport, PopLocal
  PROVE  Keeps
<1>1. View /\ View' /\ stack \in Seq(Seq(Saved))
  BY ViewIs, NextViewIs DEF Inv
<1>2. stack # <<>> /\ Last(stack) # <<>> /\ ~ Running
  BY <1>1 DEF PopLocal, View
<1>3. PICK s \in Seq(Seq(Saved)) : s = Popped(stack)
  BY <1>1, <1>2, PoppedLinked
<1>4. PICK l \in Saved : l = Last(Last(stack))
  BY <1>1, <1>2, PoppedLinked
<1>5. /\ s # <<>> /\ Len(s) = Len(stack) /\ l = stack[Len(stack)][Len(stack[Len(stack)])]
      /\ stack = Linked(s, l) /\ Last(stack) = Append(Last(s), l) /\ Last(s) \in Seq(Saved)
      /\ ScopesOf(Front(stack)) = ScopesOf(Front(s))
  BY <1>1, <1>2, <1>3, <1>4, PoppedLinked
<1>6. PICK h : h = Here
  OBVIOUS
<1>7. PICK m : m = [h EXCEPT !.stk = s]
  OBVIOUS
<1>8. /\ Kept(h) /\ h.stk = stack /\ h.vars = vartab
  BY <1>6, HereIs
<1>9. PICK r : r = IF l.name = "-" THEN m ELSE Restored(m, l)
  OBVIOUS
<1>10. /\ vartab' = r.vars /\ stack' = r.stk /\ stop' = stop
       /\ optlist' = IF l.name = "-" THEN l.on ELSE optlist
  <2>1. m = [Here EXCEPT !.stk[Len(stack)] = Front(@)]
    BY <1>3, <1>6, <1>7, <1>8 DEF Popped, Here
  <2> QED
    BY <1>4, <1>9, <2>1 DEF PopLocal
<1>11. Bounded(s)
  <2>1. stack[Len(stack)] # <<>>
    BY <1>2 DEF Last
  <2>2. Follows(h, [h EXCEPT !.stk = Popped(h.stk)]) /\ [h EXCEPT !.stk = Popped(h.stk)].stk = Popped(h.stk)
    BY <1>2, <1>8, <2>1, PoppedFollows
  <2> QED
    BY <1>3, <1>8, <2>2 DEF Follows, Kept
<1>12. PICK f \in [Name -> Promise!Variable] : f = EnvOf(vartab)
  BY EnvType DEF Inv
<1>13. PICK u \in Seq(Saved) : u = Last(s)
  BY <1>5
<1>14. /\ ShownEnv = Overlay(Append(u, l), f) /\ ShownScopes = ScopesOf(Front(s))
       /\ ShownOption = OptionAfter(Append(u, l), optlist)
  BY <1>1, <1>2, <1>5, <1>12, <1>13 DEF View
<1>15. ASSUME r.stk = s, Overlay(u, EnvOf(r.vars)) = Overlay(Append(u, l), f),
              OptionAfter(u, optlist') = OptionAfter(Append(u, l), optlist), Scoped(r.vars, s)
       PROVE  Keeps
  <2>1. stack' = s
    BY <1>10, <1>15
  <2>2. ~ Running'
    BY <1>2, <1>5, <1>10, <2>1 DEF Running
  <2>3. /\ ShownEnv' = Overlay(Last(stack'), EnvOf(vartab')) /\ ShownScopes' = ScopesOf(Front(stack'))
        /\ ShownOption' = OptionAfter(Last(stack'), optlist')
    BY <1>1, <2>2 DEF View
  <2>4. UNCHANGED <<ShownEnv, ShownScopes, ShownOption>>
    BY <1>10, <1>13, <1>14, <1>15, <2>1, <2>3
  <2>5. Scoped(vartab, stack)'
    BY <1>10, <1>15, <2>1
  <2> QED
    BY <2>4, <2>5 DEF Keeps, Promise!vars
<1>16. CASE l.name = "-"
  <2>1. r = m /\ optlist' = l.on
    BY <1>9, <1>10, <1>16
  <2>2. r.stk = s /\ r.vars = vartab
    <3>1. h \in Machine
      BY <1>8 DEF Kept
    <3> QED
      BY <1>7, <1>8, <2>1, <3>1 DEF Machine
  <2>3. /\ Overlay(Append(u, l), f) = Overlay(u, f)
        /\ OptionAfter(Append(u, l), optlist) = OptionAfter(u, l.on)
    BY <1>16, ScopeDashed
  <2>4. Scoped(r.vars, s)
    <3>1. PICK t : t = vartab
      OBVIOUS
    <3>2. Scoped(t, Linked(s, l)) /\ \A n \in Name : n # l.name
      BY <1>5, <1>16, <3>1, NameAssumption
    <3>3. \A n \in Name : Shaped(t[n]) /\ Tight(n, t[n].flags, SavedIn(s, n))
      BY <1>5, <3>2, UnlinkedTight
    <3>4. Scoped(t, s)
      BY <1>5, <3>2, <3>3, UnlinkedScoped
    <3> QED
      BY <2>2, <3>1, <3>4
  <2> QED
    BY <1>12, <1>15, <2>1, <2>2, <2>3, <2>4
<1>17. CASE l.name # "-"
  <2>1. l.name \in Name /\ r = Restored(m, l) /\ optlist' = optlist
    BY <1>9, <1>10, <1>17 DEF Saved
  <2>2. Scoped(h.vars, Linked(s, l))
    BY <1>5, <1>8
  <2>3. AsRestored(h, l, s, r)
    <3>1. CASE l.flags = {"UNSET"}
      BY <1>5, <1>7, <1>8, <1>11, <2>1, <2>2, <3>1, NewRestored
    <3>2. CASE l.flags # {"UNSET"}
      BY <1>5, <1>7, <1>8, <2>1, <2>2, <3>2, OldRestored
    <3> QED
      BY <3>1, <3>2
  <2>4. r.stk = s /\ EnvOf(r.vars) = [f EXCEPT ![l.name] = ShownSaved(l)] /\ Scoped(r.vars, s)
    BY <1>8, <1>12, <2>3 DEF AsRestored
  <2>5. ShownSaved(l) \in Promise!Variable
    <3>1. l.text.val \in Value \cup {None}
      BY DEF Saved, Text
    <3> QED
      BY <3>1 DEF ShownSaved, Shown, Promise!Variable
  <2>6. /\ Overlay(Append(u, l), f) = Overlay(u, [f EXCEPT ![l.name] = ShownSaved(l)])
        /\ OptionAfter(Append(u, l), optlist) = OptionAfter(u, optlist)
    BY <2>1, <2>5, ScopeAppended
  <2> QED
    BY <1>15, <2>1, <2>4, <2>6
<1> QED
  BY <1>16, <1>17

-----------------------------------------------------------------------------
(* Functions begin, and directories change.                                *)

\* A function that has begun has the places there were.
PlacedAs(s, stk) ==
  /\ s \in Seq(Seq(Saved)) /\ s # <<>> /\ Len(s) = Len(stk) + 1
  /\ Last(s) = <<>> /\ Front(s) = stk
  /\ \A i, j \in Nat : Place(s, i, j) <=> Place(stk, i, j)
  /\ \A i, j \in Nat : Place(s, i, j) => s[i][j] = stk[i][j]
  /\ \A l \in Saved : Linked(s, l) = Append(stk, Append(<<>>, l))
LEMMA PushedPlaces ==
  ASSUME NEW stk \in Seq(Seq(Saved)), NEW s, s = Append(stk, <<>>)
  PROVE  PlacedAs(s, stk)
<1>1. /\ s \in Seq(Seq(Saved)) /\ Len(s) = Len(stk) + 1 /\ s[Len(stk) + 1] = <<>>
      /\ \A i \in 1 .. Len(stk) : s[i] = stk[i]
  <2>1. <<>> \in Seq(Saved)
    OBVIOUS
  <2> QED
    BY <2>1, AppendProperties
<1>2. Len(stk) \in Nat /\ s # <<>>
  BY <1>1
<1>3. Last(s) = <<>>
  BY <1>1 DEF Last
<1>4. PICK k \in Nat : k = Len(stk)
  BY <1>2
<1>5. Front(s) = stk
  <2>1. PICK f \in Seq(Seq(Saved)) : f = Front(s)
    BY <1>1, <1>2, FrontIs
  <2>2. Len(f) = k /\ \A i \in 1 .. k : f[i] = s[i]
    <3>1. /\ Len(Front(s)) = Len(s) - 1
          /\ \A i \in 1 .. Len(s) - 1 : Front(s)[i] = s[i]
      BY <1>1, <1>2, FrontIs
    <3>2. Len(s) - 1 = k
      BY ONLY <1>1, <1>4
    <3> QED
      BY ONLY <2>1, <3>1, <3>2
  <2>3. f = [i \in 1 .. k |-> f[i]] /\ stk = [i \in 1 .. k |-> stk[i]]
    <3>1. f \in [1 .. k -> Seq(Saved)] /\ stk \in [1 .. k -> Seq(Saved)]
      BY <1>4, <2>2, LenProperties
    <3> QED
      BY ONLY <3>1
  <2>4. \A i \in 1 .. k : f[i] = stk[i]
    BY ONLY <1>1, <1>4, <2>2
  <2>5. f = stk
    BY ONLY <2>3, <2>4, Zenon
  <2> QED
    BY <2>1, <2>5
<1>6. /\ \A i, j \in Nat : Place(stk, i, j) <=> Place(s, i, j)
      /\ \A i, j \in Nat : Place(stk, i, j) => stk[i][j] = s[i][j]
  <2>1. /\ \A i, j \in Nat : Place(Front(s), i, j) <=> Place(s, i, j)
        /\ \A i, j \in Nat : Place(Front(s), i, j) => Front(s)[i][j] = s[i][j]
    BY <1>1, <1>2, <1>3, EmptyScope
  <2> QED
    BY ONLY <1>5, <2>1
<1>7. ASSUME NEW l \in Saved
      PROVE  Linked(s, l) = Append(stk, Append(<<>>, l))
  <2>1. PICK u \in Seq(Saved) : u = Append(<<>>, l)
    <3>1. <<>> \in Seq(Saved)
      OBVIOUS
    <3> QED
      BY <3>1, AppendProperties
  <2>2. PICK r \in Seq(Seq(Saved)) : r = Append(stk, u)
    BY AppendProperties
  <2>3. Len(r) = k + 1 /\ r[k + 1] = u /\ \A i \in 1 .. k : r[i] = stk[i]
    BY <1>4, <2>1, <2>2, AppendProperties
  <2>4. r = [i \in 1 .. k + 1 |-> r[i]] /\ s \in [1 .. k + 1 -> Seq(Saved)]
    <3>1. r \in [1 .. k + 1 -> Seq(Saved)] /\ s \in [1 .. k + 1 -> Seq(Saved)]
      BY <1>1, <1>4, <2>3, LenProperties
    <3> QED
      BY ONLY <3>1
  <2>5. Linked(s, l) = [s EXCEPT ![k + 1] = u]
    BY <1>1, <1>4, <2>1 DEF Linked
  <2>6. [s EXCEPT ![k + 1] = u] = [i \in 1 .. k + 1 |-> IF i = k + 1 THEN u ELSE s[i]]
    BY ONLY <2>4
  <2>7. \A i \in 1 .. k + 1 : r[i] = IF i = k + 1 THEN u ELSE s[i]
    <3>1. \A i \in 1 .. k + 1 : i # k + 1 => i \in 1 .. k
      BY <1>4
    <3> QED
      BY ONLY <1>1, <1>4, <2>3, <3>1
  <2>8. Linked(s, l) = r
    BY ONLY <2>4, <2>5, <2>6, <2>7, Zenon
  <2> QED
    BY <2>1, <2>2, <2>8
<1> QED
  BY ONLY <1>1, <1>2, <1>3, <1>5, <1>6, <1>7 DEF PlacedAs

\* A function begins, or a command with an assignment in front of it.
LEMMA PushShows ==
  ASSUME Inv, Inv', Scoped(vartab, stack), NoAllExport, NEW n \in Name, NEW v \in Value \cup {None},
         pushlocalvars(n, v)
  PROVE  Keeps
<1>1. PICK h : h = Here
  OBVIOUS
<1>2. PICK s : s = Append(stack, <<>>)
  OBVIOUS
<1>3. PICK m : m = [h EXCEPT !.stk = s]
  OBVIOUS
<1>4. h.vars = vartab /\ h.stk = stack /\ stack \in Seq(Seq(Saved))
  BY <1>1, HereIs DEF Inv
<1>5. /\ Kept(m) /\ m.stk = s /\ m.vars = vartab /\ m.err = FALSE
      /\ Len(m.stk[Len(m.stk)]) < MaxLocals
  <2>1. Len(stack) < MaxScopes
    BY DEF pushlocalvars
  <2>2. AsPushed(h, m, s)
    BY ONLY Inv, <1>1, <1>2, <1>3, <2>1, PushIs
  <2> QED
    BY ONLY <1>4, <2>2 DEF AsPushed
<1>6. /\ s \in Seq(Seq(Saved)) /\ s # <<>> /\ Len(s) = Len(stack) + 1
      /\ Last(s) = <<>> /\ Front(s) = stack
      /\ \A l \in Saved : Linked(s, l) = Append(stack, Append(<<>>, l))
      /\ \A i, j \in Nat : Place(s, i, j) <=> Place(stack, i, j)
      /\ \A i, j \in Nat : Place(s, i, j) => s[i][j] = stack[i][j]
  <2>1. PICK stk \in Seq(Seq(Saved)) : stk = stack
    BY <1>4
  <2>2. PlacedAs(s, stk)
    <3>1. s = Append(stk, <<>>)
      BY <1>2, <2>1
    <3> QED
      BY ONLY stk \in Seq(Seq(Saved)), <3>1, PushedPlaces
  <2> QED
    BY ONLY <2>1, <2>2 DEF PlacedAs
<1>7. Scoped(vartab, s)
  BY <1>6, SamePlaces
<1>8. Running /\ optlist' = optlist
  BY DEF pushlocalvars, Unmoved
<1>9. PICK q : q = ScopesOf(stack)
  OBVIOUS
<1>10. CASE v = None
  <2>1. Done(m)
    BY <1>1, <1>2, <1>3, <1>4, <1>10 DEF pushlocalvars
  <2>2. /\ ShownEnv = EnvOf(vartab) /\ ShownScopes = q /\ ShownOption = optlist
        /\ ShownEnv' = EnvOf(m.vars) /\ ShownScopes' = ScopesOf(m.stk) /\ ShownOption' = optlist'
        /\ vartab' = m.vars /\ stack' = m.stk
    BY <1>5, <1>8, <1>9, <2>1, DoneShown
  <2>3. ScopesOf(s) = Append(q, Promise!Bare)
    <3>1. <<>> \in Seq(Saved)
      OBVIOUS
    <3>2. ScopesOf(s) = Append(q, ScopeOf(<<>>))
      BY <1>2, <1>4, <1>9, <3>1, PushedShows
    <3> QED
      BY <3>2, ScopeEmpty
  <2>4. Promise!Enter
    BY <1>5, <1>8, <2>2, <2>3 DEF Promise!Enter
  <2>5. Scoped(vartab, stack)'
    BY <1>5, <1>7, <2>2
  <2> QED
    BY <2>4, <2>5 DEF Keeps, Promise!Next
<1>11. CASE v # None
  <2>1. PICK r : r = mklocal(m, n, v, {"EXPORT"})
    OBVIOUS
  <2>2. Done(r)
    BY <1>1, <1>2, <1>3, <1>4, <1>11, <2>1 DEF pushlocalvars
  <2>3. AsLocal(m, n, v, {"EXPORT"}, r)
    BY <1>5, <1>6, <1>7, <1>11, <2>1, LocalIs
  <2>4. Scoped(vartab, stack)'
    BY <2>2, <2>3 DEF Done, AsLocal
  <2>5. CASE r.err
    <3>1. stack' = s /\ EnvOf(vartab') = EnvOf(vartab) /\ stop' \in 0 .. Len(stack)
      BY <1>5, <2>2, <2>3, <2>5 DEF Done, AsLocal
    <3>2. ~ Running'
      BY <1>4, <1>6, <3>1 DEF Running
    <3>3. View /\ View' /\ EnvOf(vartab) \in [Name -> Promise!Variable]
      BY ViewIs, NextViewIs, EnvType DEF Inv
    <3>4. ShownEnv' = EnvOf(vartab) /\ ShownScopes' = q /\ ShownOption' = optlist
      <4>1. /\ ShownEnv' = Overlay(Last(s), EnvOf(vartab)) /\ ShownScopes' = ScopesOf(Front(s))
            /\ ShownOption' = OptionAfter(Last(s), optlist)
        BY <1>8, <3>1, <3>2, <3>3 DEF View
      <4> QED
        BY <1>6, <1>9, <3>3, <4>1, ScopeEmpty
    <3>5. ShownEnv = EnvOf(vartab) /\ ShownScopes = q /\ ShownOption = optlist
      BY <1>8, <1>9, <3>3 DEF View
    <3> QED
      BY <2>4, <3>4, <3>5 DEF Keeps, Promise!vars
  <2>6. CASE ~ r.err
    <3>1. /\ ShownEnv = EnvOf(vartab) /\ ShownScopes = q /\ ShownOption = optlist
          /\ ShownEnv' = EnvOf(r.vars) /\ ShownScopes' = ScopesOf(r.stk) /\ ShownOption' = optlist'
      BY <1>8, <1>9, <2>2, <2>6, DoneShown
    <3>2. /\ ~ ShownEnv[n].readonly
          /\ ShownEnv' = [ShownEnv EXCEPT ![n] = Plain(v, "EXPORT" \in {"EXPORT"} \/ ShownEnv[n].export)]
      BY <1>5, <1>11, <2>3, <2>6, <3>1 DEF AsLocal
    <3>3. PICK l \in Saved : l.name = n /\ ShownSaved(l) = ShownEnv[n] /\ r.stk = Linked(s, l)
      BY <1>5, <2>3, <2>6, <3>1 DEF AsLocal
    <3>4. PICK e : e = <<>>
      OBVIOUS
    <3>5. e \in Seq(Saved) /\ Append(e, l) \in Seq(Saved)
      BY <3>4
    <3>6. ShownScopes' = Append(q, ScopeOf(Append(e, l)))
      BY <1>4, <1>6, <1>9, <3>1, <3>3, <3>4, <3>5, PushedShows
    <3>7. ScopeOf(Append(e, l)) =
            [vars |-> [x \in DOMAIN LocalsOf(e) \cup {n} |->
                         IF x \in DOMAIN LocalsOf(e) THEN LocalsOf(e)[x] ELSE ShownSaved(l)],
             option |-> OptionsOf(e)]
      BY <3>3, <3>5, ScopeAppended
    <3>8. Promise!Bare.vars = LocalsOf(e)
      BY <3>4, ScopeEmpty DEF ScopeOf
    <3>9. [x \in DOMAIN LocalsOf(e) \cup {n} |->
                         IF x \in DOMAIN LocalsOf(e) THEN LocalsOf(e)[x] ELSE ShownSaved(l)]
            = [x \in DOMAIN LocalsOf(e) \cup {n} |->
                         IF x \in DOMAIN LocalsOf(e) THEN LocalsOf(e)[x] ELSE ShownEnv[x]]
      BY <3>3
    <3>10. Promise!Bare = [vars |-> LocalsOf(e), option |-> OptionsOf(e)]
      BY <3>4, ScopeEmpty DEF ScopeOf
    <3>11. Promise!Saving(Promise!Bare, n) = ScopeOf(Append(e, l))
      BY <3>7, <3>9, <3>10 DEF Promise!Saving
    <3>12. ShownEnv \in [Name -> Promise!Variable] /\ v \in Value
      BY <1>11, <3>1, EnvType DEF Inv
    <3>13. Plain(v, "EXPORT" \in {"EXPORT"} \/ ShownEnv[n].export) = Promise!Given(n, v, TRUE)
      <4>1. ("EXPORT" \in {"EXPORT"} \/ ShownEnv[n].export) = (TRUE \/ AllExport \/ ShownEnv[n].export)
        OBVIOUS
      <4> QED
        BY ONLY <4>1, Zenon DEF Plain, Promise!Given
    <3>14. ShownEnv' = [ShownEnv EXCEPT ![n] = Promise!Given(n, v, TRUE)]
      BY ONLY <3>2, <3>13, Zenon
    <3>15. ShownEnv'[n].val = v
      BY <3>12, <3>14 DEF Promise!Given
    <3>16. Promise!Sets(n, TRUE)
      BY <3>2, <3>12, <3>14, <3>15 DEF Promise!Sets
    <3>17. Promise!Enter
      BY <1>8, <3>1, <3>6, <3>11, <3>16 DEF Promise!Enter
    <3> QED
      BY <2>4, <3>17 DEF Keeps, Promise!Next
  <2> QED
    BY <2>5, <2>6
<1> QED
  BY <1>10, <1>11

\* cd sets OLDPWD, and PWD unless that is readonly; if OLDPWD is, neither.
LEMMA CdShows ==
  ASSUME Inv, Inv', Scoped(vartab, stack), NoAllExport, NEW d \in Directory, docd(d)
  PROVE  Keeps
<1>1. PICK o : o = "OLDPWD"
  OBVIOUS
<1>2. PICK p : p = "PWD"
  OBVIOUS
<1>3. PICK given : given = {"EXPORT"}
  OBVIOUS
<1>4. PICK h : h = Here
  OBVIOUS
<1>5. PICK here \in Value : here = curdir
  BY DEF Inv
<1>6. PICK old : old = setvareq(h, o, here, given)
  OBVIOUS
<1>7. PICK new : new = setvareq(old, p, d, given)
  OBVIOUS
<1>8. PICK m : m = IF old.err THEN old ELSE new
  OBVIOUS
<1>9. /\ Running /\ vartab' = m.vars /\ stack' = stack /\ stop' = stop /\ optlist' = optlist
  BY <1>1, <1>2, <1>3, <1>4, <1>5, <1>6, <1>7, <1>8 DEF docd
<1>10. /\ o \in Name /\ p \in Name /\ o # p /\ d \in Value /\ o # "PATH"
       /\ given \in SUBSET Flag /\ given \in SUBSET {"EXPORT", "READONLY", "UNSET"}
       /\ "UNSET" \notin given /\ "READONLY" \notin given
  BY <1>1, <1>2, <1>3, NameAssumption, ValueAssumption DEF Flag
<1>11. /\ Kept(h) /\ h \in Machine /\ Bounded(h.stk) /\ h.vars = vartab /\ h.stk = stack /\ h.err = FALSE
  BY <1>4, HereIs DEF Kept
<1>12. PICK f \in [Name -> Promise!Variable] : f = EnvOf(vartab)
  BY EnvType DEF Inv
<1>13. /\ ShownEnv = f /\ ShownScopes = ScopesOf(stack) /\ ShownOption = optlist
       /\ ShownEnv' = EnvOf(m.vars) /\ ShownScopes' = ScopesOf(stack) /\ ShownOption' = optlist
  <2>1. Running'
    BY <1>9 DEF Running
  <2>2. View /\ View'
    BY ViewIs, NextViewIs
  <2> QED
    BY <1>9, <1>12, <2>1, <2>2 DEF View
<1>14. \A n \in Name : f[n].readonly <=> "READONLY" \in vartab[n].flags
  BY <1>12 DEF EnvOf, Shown
<1>15. CASE "READONLY" \in vartab[o].flags
  <2>1. old = [h EXCEPT !.err = TRUE]
    BY <1>5, <1>6, <1>10, <1>11, <1>15, SetvareqIs
  <2>2. old.err /\ old.vars = vartab
    BY <1>11, <2>1 DEF Machine
  <2>3. vartab' = vartab /\ EnvOf(m.vars) = f
    BY <1>8, <1>9, <1>12, <2>2
  <2> QED
    BY <1>9, <1>13, <2>3 DEF Keeps, Promise!vars
<1>16. CASE "READONLY" \notin vartab[o].flags
  <2>1. AsShown(h, o, here, given, old)
    <3>1. /\ Scoped(h.vars, h.stk) /\ "READONLY" \notin h.vars[o].flags
          /\ here \in Value \cup {None} /\ "UNSET" \in given => here = None
      BY <1>10, <1>11, <1>16
    <3> QED
      BY ONLY NoAllExport, <1>6, <1>10, <1>11, <3>1, SetShows
  <2>2. old \in Machine
    <3>1. old \in Machine
      BY <1>5, <1>6, <1>10, <1>11, SetvareqIs
    <3> QED
      BY <3>1
  <2>3. /\ old.stk = stack /\ old.err = FALSE
        /\ EnvOf(old.vars) = [f EXCEPT ![o] = GivenShown(vartab[o], here, given)]
        /\ Scoped(old.vars, stack) /\ old.vars[p] = vartab[p]
    BY <1>10, <1>11, <1>12, <2>1 DEF AsShown
  <2>4. EnvOf(old.vars) = [f EXCEPT ![o] = Promise!Given(o, here, TRUE)]
    <3>1. GivenShown(vartab[o], here, given) = Promise!Given(o, here, TRUE)
      <4>1. (~ Goes(vartab[o], given) /\ ("EXPORT" \in given \/ "EXPORT" \in vartab[o].flags)) = TRUE
        BY <1>3 DEF Goes
      <4>2. ("READONLY" \in given) = FALSE
        BY <1>3
      <4>3. (TRUE \/ AllExport \/ ShownEnv[o].export) = TRUE
        OBVIOUS
      <4> QED
        BY ONLY <4>1, <4>2, <4>3, Zenon DEF GivenShown, Promise!Given
    <3> QED
      BY ONLY <2>3, <3>1
  <2>5. m = new
    BY <1>8, <2>3
  <2>6. Promise!Given(o, here, TRUE).val = here /\ Promise!Given(p, d, TRUE).val = d
    BY DEF Promise!Given
  <2>7. CASE "READONLY" \in vartab[p].flags
    <3>1. new = [old EXCEPT !.err = TRUE]
      BY <1>7, <1>10, <1>11, <2>2, <2>3, <2>7, SetvareqIs
    <3>2. new.vars = old.vars
      BY <2>2, <3>1 DEF Machine
    <3>3. ShownEnv' = [ShownEnv EXCEPT ![o] = Promise!Given(o, here, TRUE)]
      BY <1>13, <2>4, <2>5, <3>2
    <3>4. ShownEnv'[o].val = here
      BY <1>10, <1>13, <2>6, <3>3
    <3>5. Promise!Sets(o, TRUE)
      BY <1>10, <1>13, <1>14, <1>16, <3>3, <3>4 DEF Promise!Sets
    <3>6. Promise!Assign(o)
      BY <1>13, <3>5 DEF Promise!Assign
    <3>7. Scoped(vartab, stack)'
      BY <1>9, <2>3, <2>5, <3>2
    <3> QED
      BY <1>10, <3>6, <3>7 DEF Keeps, Promise!Next
  <2>8. CASE "READONLY" \notin vartab[p].flags
    <3>1. AsShown(old, p, d, given, new)
      <4>1. /\ Scoped(old.vars, old.stk) /\ "READONLY" \notin old.vars[p].flags /\ Bounded(old.stk)
            /\ d \in Value \cup {None} /\ "UNSET" \in given => d = None
        BY <1>10, <1>11, <2>3, <2>8
      <4> QED
        BY ONLY NoAllExport, <1>7, <1>10, <2>2, <4>1, SetShows
    <3>2. /\ EnvOf(new.vars) = [EnvOf(old.vars) EXCEPT ![p] = GivenShown(old.vars[p], d, given)]
          /\ Scoped(new.vars, stack)
      BY <2>3, <3>1 DEF AsShown
    <3>3. EnvOf(new.vars) = [EnvOf(old.vars) EXCEPT ![p] = Promise!Given(p, d, TRUE)]
      <4>1. GivenShown(old.vars[p], d, given) = Promise!Given(p, d, TRUE)
        <5>1. (~ Goes(old.vars[p], given) /\ ("EXPORT" \in given \/ "EXPORT" \in old.vars[p].flags)) = TRUE
          BY <1>3 DEF Goes
        <5>2. ("READONLY" \in given) = FALSE
          BY <1>3
        <5>3. (TRUE \/ AllExport \/ ShownEnv[p].export) = TRUE
          OBVIOUS
        <5> QED
          BY ONLY <5>1, <5>2, <5>3, Zenon DEF GivenShown, Promise!Given
      <4> QED
        BY ONLY <3>2, <4>1
    <3>4. ShownEnv' = [ShownEnv EXCEPT ![o] = Promise!Given(o, here, TRUE),
                                       ![p] = Promise!Given(p, d, TRUE)]
      BY <1>13, <2>4, <2>5, <3>3
    <3>5. ShownEnv'[o].val = here /\ ShownEnv'[p].val = d
      BY <1>10, <1>13, <2>6, <3>4
    <3>6. ~ ShownEnv[o].readonly /\ ~ ShownEnv[p].readonly
      BY <1>10, <1>13, <1>14, <1>16, <2>8
    <3>7. Promise!AssignBoth(o, p)
      BY <1>10, <1>13, <3>4, <3>5, <3>6 DEF Promise!AssignBoth
    <3>8. Scoped(vartab, stack)'
      BY <1>9, <2>5, <3>2
    <3> QED
      BY <1>10, <3>7, <3>8 DEF Keeps, Promise!Next
  <2> QED
    BY <2>7, <2>8
<1> QED
  BY <1>15, <1>16

-----------------------------------------------------------------------------
(* The promise of Scopes.                                                  *)

\* Nothing that is seen changes.
LEMMA StutterShows ==
  ASSUME Inv, Inv', Scoped(vartab, stack), UNCHANGED <<vartab, stack, stop, optlist>>
  PROVE  Keeps
<1>1. vartab' = vartab /\ stack' = stack /\ stop' = stop /\ optlist' = optlist
  OBVIOUS
<1>2. View /\ View'
  BY ViewIs, NextViewIs
<1>3. Running' <=> Running
  BY <1>1 DEF Running
<1>4. UNCHANGED <<ShownEnv, ShownScopes, ShownOption>>
  BY <1>1, <1>2, <1>3 DEF View
<1> QED
  BY <1>1, <1>4 DEF Keeps, Promise!vars

\* At the start nothing is saved, and only PATH is marked as in use.
LEMMA InitShows == Init => Promise!Init /\ Scoped(vartab, stack)
<1> SUFFICES ASSUME Init
             PROVE  Promise!Init /\ Scoped(vartab, stack)
  OBVIOUS
<1>1. Inv /\ View
  BY InitIsInv, ViewIs
<1>2. stack = <<>> /\ optlist = FALSE /\ Len(stack) = 0 /\ stop = 0
  <2>1. stack = <<>> /\ optlist = FALSE /\ stop = 0
    BY DEF Init
  <2> QED
    BY <2>1
<1>3. Running
  BY <1>2 DEF Running
<1>4. ShownEnv = EnvOf(vartab) /\ ShownScopes = ScopesOf(stack) /\ ShownOption = optlist
  BY <1>1, <1>3 DEF View
<1>5. EnvOf(vartab) \in [Name -> Promise!Variable]
  BY <1>1, EnvType DEF Inv
<1>6. ScopesOf(stack) = <<>>
  BY <1>2 DEF ScopesOf
<1>7. Promise!Init
  BY <1>2, <1>4, <1>5, <1>6 DEF Promise!Init
<1>8. \A i, j : ~ Place(stack, i, j)
  BY <1>2 DEF Place
<1>9. \A n : ~ SavedIn(stack, n)
  BY <1>8 DEF SavedIn
<1>10. \A n \in Name : Shaped(vartab[n]) /\ Tight(n, vartab[n].flags, SavedIn(stack, n))
  <2>1. ASSUME NEW n \in Name
        PROVE  /\ Shaped(vartab[n])
               /\ "STRFIXED" \in vartab[n].flags => n = "PATH"
    <3>1. CASE n = "PATH"
      <4>1. vartab[n].here = TRUE /\ vartab[n].flags = {"STRFIXED", "TEXTFIXED"}
        BY <3>1 DEF Init
      <4> QED
        BY <3>1, <4>1 DEF Shaped
    <3>2. CASE n = "PWD"
      <4>1. vartab[n].here = TRUE /\ vartab[n].flags = {"EXPORT"}
        BY <3>2 DEF Init
      <4> QED
        BY <4>1 DEF Shaped
    <3>3. CASE n # "PATH" /\ n # "PWD"
      <4>1. vartab[n] = Gone
        BY <3>3 DEF Init
      <4> QED
        BY <4>1 DEF Shaped, Gone
    <3> QED
      BY <3>1, <3>2, <3>3
  <2> QED
    BY <1>9, <2>1 DEF Tight
<1>11. Scoped(vartab, stack)
  BY <1>8, <1>10 DEF Scoped
<1> QED
  BY <1>7, <1>11

\* Every step is one of the promise, or shows nothing, and keeps the marks tight.
LEMMA NextShows ==
  ASSUME NoAllExport
  PROVE  Inv /\ Inv' /\ Scoped(vartab, stack) /\ [Next]_vars => Keeps
<1> SUFFICES ASSUME Inv, Inv', Scoped(vartab, stack), [Next]_vars
             PROVE  Keeps
  OBVIOUS
<1>1. CASE OfVariables
  <2>0. None \in Value \cup {None}
    OBVIOUS
  <2>1. ASSUME NEW n \in Name, NEW v \in Value,
               \/ Assign(n, v) \/ exportcmd(n, v, "EXPORT")
               \/ localcmd(n, v) \/ pushlocalvars(n, v)
        PROVE  Keeps
    BY <2>1, AssignShows, ExportShows, LocalShows, PushShows
  <2>2. ASSUME NEW n \in Name, NEW v \in Value, exportcmd(n, v, "READONLY")
        PROVE  Keeps
    BY <2>2, ExportShows
  <2>3. ASSUME NEW n \in Name, exportcmd(n, None, "EXPORT") \/ localcmd(n, None)
        PROVE  Keeps
    BY <2>0, <2>3, ExportShows, LocalShows
  <2>4. ASSUME NEW n \in Protectable, exportcmd(n, None, "READONLY")
        PROVE  Keeps
    <3>1. n \in Name
      BY NameAssumption
    <3> QED
      BY <2>0, <2>4, <3>1, ExportShows
  <2>5. ASSUME NEW n \in Unsettable, unsetcmd(n)
        PROVE  Keeps
    <3>1. n \in Name
      BY NameAssumption
    <3> QED
      BY <2>5, <3>1, UnsetShows
  <2>6. ASSUME pushlocalvars("PATH", None)
        PROVE  Keeps
    BY <2>0, <2>6, NameAssumption, PushShows
  <2>7. ASSUME setcmd \/ LocalDash \/ Return \/ PopLocal \/ PopScope
        PROVE  Keeps
    BY <2>7, SetcmdShows, LocalDashShows, ReturnShows, PopLocalShows, PopScopeShows
  <2> QED
    BY <1>1, <2>1, <2>2, <2>3, <2>4, <2>5, <2>6, <2>7 DEF OfVariables
<1>2. CASE OfCommands
  <2>1. ASSUME NEW d \in Directory, docd(d)
        PROVE  Keeps
    BY <2>1, CdShows
  <2>2. ASSUME NEW h, Tabled(h)
        PROVE  Keeps
    BY <2>2, StutterShows DEF Tabled, Unmoved
  <2> QED
    BY <1>2, <2>1, <2>2
       DEF OfCommands, LookUp, typecmd, Hash, Define, Undefine, HashR
<1>3. CASE UNCHANGED vars
  BY <1>3, StutterShows DEF vars
<1> QED
  BY <1>1, <1>2, <1>3 DEF Next

\* A variable that some scope will put back is marked as in use, and no other but PATH
\* is, and a readonly one that local refused to set: what unset goes by, when it keeps
\* a variable or removes it (mklocal, setvareq, poplocalvars).
THEOREM ScopedTheorem ==
  ASSUME NoAllExport
  PROVE  Spec => []Scoped(vartab, stack)
<1>1. Inv /\ Inv' /\ Scoped(vartab, stack) /\ [Next]_vars => Scoped(vartab, stack)'
  BY NextShows DEF Keeps
<1>2. Init => Scoped(vartab, stack)
  BY InitShows
<1> QED
  BY <1>1, <1>2, InvariantTheorem, PTL DEF Spec

\* A function gives back, when it is left by whatever way, exactly what its local
\* variables were before (mklocal, poplocalvars, unwindlocalvars).
THEOREM ScopesTheorem ==
  ASSUME NoAllExport
  PROVE  Spec => ScopesAreUndone
<1>1. Inv /\ Inv' /\ Scoped(vartab, stack) /\ [Next]_vars => [Promise!Next]_Promise!vars
  BY NextShows DEF Keeps
<1>2. Init => Promise!Init
  BY InitShows
<1> QED
  BY <1>1, <1>2, InvariantTheorem, ScopedTheorem, PTL DEF Spec, ScopesAreUndone, Promise!Spec

=============================================================================
