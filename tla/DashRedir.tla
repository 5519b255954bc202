----------------------------- MODULE DashRedir -----------------------------
(* The redirections of dash-debian (redir.c): what a list of them does to   *)
(* the descriptors of the shell, and how it is undone.                      *)
(*   A shell x is a record:                                                 *)
(*     fds      what each descriptor is: a file, or NONE where it is closed *)
(*     redirs   redirlist, the innermost redirtab last: renamed of each     *)
(*     closed   closed_redirs                                               *)
(*     files    the files there are                                         *)
(*     Cflag    set -C                                                      *)
(*     err      an error is on its way                                      *)
(* A redirection is [op, fd, arg]: the descriptor, and a file, a here-      *)
(* document or a descriptor ("-" of >&- is CLOSED).                         *)
EXTENDS Integers, SequencesExt

CONSTANTS NONE,         \* nothing: of a closed descriptor
          Low,          \* descriptors a program may name (10 in the code)
          High,         \* descriptors there are
          Regular       \* files that are regular ones

EMPTY == -2
CLOSED == -1
Named == 0..(Low - 1)
Free(x, from) == {fd \in from..(High - 1) : x.fds[fd] = NONE}
Lowest(S) == CHOOSE fd \in S : \A other \in S : fd <= other
Put(x, fd, file) == [x EXCEPT !.fds[fd] = file]
sh_error(x) == [x EXCEPT !.err = TRUE]

(* Mutant: a descriptor that is opened again stays marked as closed.        *)
update_closed_redirs_once(x, fd, nfd) ==
    [x EXCEPT !.closed = IF nfd >= 0 THEN @ ELSE @ \union {fd}]

(* closed_redirs after fd has become nfd.                                   *)
update_closed_redirs(x, fd, nfd) ==
    [x EXCEPT !.closed = IF nfd >= 0 THEN @ \ {fd} ELSE @ \union {fd}]

----------------------------------------------------------------------------
(* Opening: [x, f], the lowest descriptor that is free.                     *)
Opened(x, file) ==
    IF Free(x, 0) = {} THEN [x |-> sh_error(x), f |-> CLOSED]
    ELSE [x |-> [Put(x, Lowest(Free(x, 0)), file) EXCEPT !.files = @ \union {file}], f |-> Lowest(Free(x, 0))]
openhere(x, doc) ==
    IF Free(x, 0) = {} \/ Free(x, Lowest(Free(x, 0)) + 1) = {} THEN [x |-> sh_error(x), f |-> CLOSED]
    ELSE [x |-> Put(x, Lowest(Free(x, 0)), doc), f |-> Lowest(Free(x, 0))]
openredirect(x, r) ==
    CASE r.op \in {"NTOFD", "NFROMFD"} -> [x |-> x, f |-> IF r.arg = r.fd THEN EMPTY ELSE r.arg]
      [] r.op \in {"NHERE", "NXHERE"} -> openhere(x, r.arg)
      [] \/ r.op = "NFROM" /\ r.arg \notin x.files
         \/ r.op = "NTO" /\ x.Cflag /\ r.arg \in x.files \cap Regular -> [x |-> sh_error(x), f |-> CLOSED]
      [] OTHER -> Opened(x, r.arg)

(* The open descriptor f becomes fd: a number stays open, a file moves.     *)
dupredirect(x, r, f) ==
    IF r.op \notin {"NTOFD", "NFROMFD"} THEN Put(Put(x, r.fd, x.fds[f]), f, NONE)
    ELSE IF f < 0 THEN Put(x, r.fd, NONE)
    ELSE IF x.fds[f] = NONE THEN sh_error(x)
    ELSE Put(x, r.fd, x.fds[f])

(* Moves a descriptor out of the program's way: [x, f].  The original is    *)
(* closed also when there is no room.                                       *)
savefd(x, fd) ==
    IF x.fds[fd] = NONE THEN [x |-> x, f |-> CLOSED]
    ELSE IF Free(x, Low) = {} THEN [x |-> sh_error(Put(x, fd, NONE)), f |-> CLOSED]
    ELSE [x |-> Put(Put(x, Lowest(Free(x, Low)), x.fds[fd]), fd, NONE), f |-> Lowest(Free(x, Low))]

Top(x) == x.redirs[Len(x.redirs)]
Remember(x, fd, saved) == [x EXCEPT !.redirs[Len(x.redirs)][fd] = saved]

(* One redirection.  The first time a descriptor is redirected it is saved, *)
(* unless it was opened by this very redirection or was known to be closed. *)
OneRedirect(x, r, push) ==
    LET o == openredirect(x, r)
        u == update_closed_redirs(o.x, r.fd, o.f)
        s == IF r.fd = o.f \/ r.fd \in x.closed THEN [x |-> u, f |-> CLOSED] ELSE savefd(u, r.fd)
        saved == IF s.x.err THEN s.x ELSE Remember(s.x, r.fd, s.f)
        Moved(y) == IF y.err \/ r.fd = o.f THEN y ELSE dupredirect(y, r, o.f)
    IN  IF o.x.err \/ o.f < CLOSED THEN o.x
        ELSE IF ~push THEN Moved(o.x)
        ELSE IF Top(x)[r.fd] = EMPTY THEN Moved(saved)
        ELSE Moved(u)
redirect(x, rs, push) == FoldLeft(LAMBDA y, r : IF y.err THEN y ELSE OneRedirect(y, r, push), x, rs)

pushredir(x, rs) ==
    IF rs = <<>> THEN x ELSE [x EXCEPT !.redirs = Append(@, [fd \in Named |-> EMPTY])]

(* The redirections of the innermost redirtab are undone, or, after exec,   *)
(* left as they are.                                                        *)
GiveBack(x, fd, saved, drop) ==
    LET u == IF drop THEN x ELSE update_closed_redirs(x, fd, saved)
    IN  IF saved = EMPTY THEN x
        ELSE IF saved = CLOSED THEN (IF drop \/ fd \in x.closed THEN u ELSE Put(u, fd, NONE))
        ELSE Put(IF drop THEN u ELSE Put(u, fd, u.fds[saved]), saved, NONE)
popredir(x, drop) ==
    LET y == FoldLeft(LAMBDA z, i : GiveBack(z, i - 1, Top(x)[i - 1], drop), x, [i \in 1..Low |-> i])
    IN  [y EXCEPT !.redirs = Front(@)]
unwindredir(x, stop) ==
    FoldLeft(LAMBDA y, i : IF Len(y.redirs) > stop THEN popredir(y, FALSE) ELSE y, x,
             [i \in 1..Len(x.redirs) |-> i])

============================================================================
