----------------------------- MODULE MCRedirect -----------------------------
(* Instances of Redirect for TLC.                                          *)
EXTENDS Redirect

Descriptors(open) == [f \in Fd |-> IF f \in DOMAIN open THEN open[f] ELSE Closed]

\* Nothing open, a terminal, a terminal and a log for the errors, a terminal and
\* another open file, and a terminal of which one or another is closed.
Tables ==
  { Descriptors(<<>>), Descriptors([f \in 0 .. 2 |-> "tty"]),
    Descriptors([f \in 0 .. 2 |-> IF f = 2 THEN "log" ELSE "tty"]),
    Descriptors([f \in 0 .. 3 |-> IF f = 3 THEN "log" ELSE "tty"]),
    Descriptors([f \in {1, 2} |-> "tty"]), Descriptors([f \in {0, 2} |-> "tty"]) }

One ==
  [fd : {0, 1, 3}, op : {"open"}, arg : {"a"}]
    \cup [fd : {1, 2}, op : {"dup"}, arg : {1, 3}]
    \cup [fd : {1}, op : {"close", "word"}, arg : {"a"}]
    \cup [fd : {0}, op : {"missing"}, arg : {"a"}]
    \cup [fd : {0, 9}, op : {"heredoc"}, arg : {"a"}]

\* Up to two redirections, orderly or not.
Lists == UNION {[1 .. n -> One] : n \in 0 .. 2}

=============================================================================
