---------------------------- MODULE RedirMeaning ----------------------------
(* Commands with redirections, inside one another: run by the code, and     *)
(* what they mean.  A command is [k, redirs, in]: simple, exec, a group of  *)
(* commands in braces, or a subshell.  seen lists the descriptors that the  *)
(* simple commands get to see, one after the other.                         *)
EXTENDS DashRedir

Visible(fds) == [fd \in Named |-> fds[fd]]
RECURSIVE evaltree(_, _), evallist(_, _)
(* redirectsafe: [x, failed], the error caught.                             *)
redirectsafe(x, rs) ==
    LET y == redirect(x, rs, TRUE) IN [x |-> [y EXCEPT !.err = FALSE], failed |-> y.err]
evallist(x, ts) == IF ts = <<>> \/ x.err THEN x ELSE evallist(evaltree(x, Head(ts)), Tail(ts))
See(x) == [x EXCEPT !.seen = Append(@, Visible(x.fds))]

(* A special built-in that cannot be redirected ends what the shell is      *)
(* doing: nothing is popped on that way.                                    *)
evalcommand(x, t) ==
    LET r == redirectsafe(pushredir(x, t.redirs), t.redirs)
        y == IF r.failed \/ t.k = "exec" THEN r.x ELSE See(r.x)
        popped == IF t.redirs = <<>> THEN y ELSE popredir(y, t.k = "exec")
    IN  IF r.failed /\ t.k = "exec" THEN sh_error(r.x) ELSE unwindredir(popped, Len(x.redirs))
evalredir(x, t) ==
    LET r == redirectsafe(pushredir(x, t.redirs), t.redirs)
        y == IF r.failed THEN r.x ELSE evallist(r.x, t.in)
    IN  IF y.err \/ t.redirs = <<>> THEN y ELSE popredir(y, FALSE)
(* The child begins with no redirtab, and its errors end it; what it saw    *)
(* and the files it made remain.                                            *)
evalsubshell(x, t) ==
    LET r == redirect([x EXCEPT !.redirs = <<>>], t.redirs, FALSE)
        y == IF r.err THEN r ELSE evallist(r, t.in)
    IN  [x EXCEPT !.seen = y.seen, !.files = y.files]
evaltree(x, t) ==
    CASE t.k \in {"simple", "exec"} -> evalcommand(x, t)
      [] t.k = "group" -> evalredir(x, t)
      [] t.k = "sub" -> evalsubshell(x, t)
(* A whole line: an error ends in the main loop, which unwinds everything.  *)
Ran(x, ts) ==
    LET y == evallist(x, ts) IN IF y.err THEN unwindredir([y EXCEPT !.err = FALSE], 0) ELSE y

----------------------------------------------------------------------------
(* What redirections mean: each in its order gives its descriptor another   *)
(* value.  A state is [fds, files, Cflag, seen, err], fds the named ones.   *)
Requested(m, r) ==
    LET Becomes(file, files) == [m EXCEPT !.fds[r.fd] = file, !.files = files]
        dup == r.op \in {"NTOFD", "NFROMFD"}
        refused == \/ dup /\ r.arg # CLOSED /\ r.arg # r.fd /\ m.fds[r.arg] = NONE
                   \/ r.op = "NFROM" /\ r.arg \notin m.files
                   \/ r.op = "NTO" /\ m.Cflag /\ r.arg \in m.files \cap Regular
    IN  IF m.err THEN m
        ELSE IF refused THEN [m EXCEPT !.err = TRUE]
        ELSE IF dup THEN Becomes(IF r.arg = CLOSED THEN NONE ELSE m.fds[r.arg], m.files)
        ELSE IF r.op \in {"NHERE", "NXHERE"} THEN Becomes(r.arg, m.files)
        ELSE Becomes(r.arg, m.files \union {r.arg})
Redirected(m, rs) == FoldLeft(Requested, m, rs)
(* A command in braces gives back the descriptors that it names, a simple   *)
(* command all, exec none.                                                  *)
RECURSIVE Means(_, _), MeansList(_, _)
MeansList(m, ts) == IF ts = <<>> \/ m.err THEN m ELSE MeansList(Means(m, Head(ts)), Tail(ts))
Means(m, t) ==
    LET d == Redirected(m, t.redirs)
        named == {t.redirs[i].fd : i \in 1..Len(t.redirs)}
        Back(y) == [y EXCEPT !.fds = [fd \in Named |-> IF fd \in named THEN m.fds[fd] ELSE y.fds[fd]]]
        Simple == [d EXCEPT !.fds = m.fds, !.err = FALSE,
                            !.seen = IF d.err THEN @ ELSE Append(@, d.fds)]
        inner == IF d.err THEN d ELSE MeansList(d, t.in)
    IN  CASE t.k = "simple" -> Simple
          [] t.k = "exec" -> IF d.err THEN [d EXCEPT !.fds = m.fds] ELSE d
          [] t.k = "group" -> IF d.err THEN [Back(d) EXCEPT !.err = FALSE] ELSE Back(inner)
          [] t.k = "sub" -> [m EXCEPT !.seen = inner.seen, !.files = inner.files]

(* The code does what is meant, keeps no copy open and forgets no redirtab. *)
Agrees(x, ts) ==
    LET y == Ran(x, ts)
        m == MeansList([fds |-> Visible(x.fds), files |-> x.files, Cflag |-> x.Cflag, seen |-> <<>>,
                        err |-> FALSE], ts)
    IN  /\ y.seen = m.seen /\ Visible(y.fds) = m.fds /\ y.files = m.files /\ y.redirs = <<>>
        /\ \A fd \in Low..(High - 1) : y.fds[fd] = NONE

============================================================================
