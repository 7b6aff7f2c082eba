------------------------------- MODULE Shell -------------------------------
(***************************************************************************)
(* The parser of sh.c, and what runcmd does with the tree: which programs  *)
(* run, and what their file descriptors are.                               *)
(*                                                                         *)
(* A command line is a sequence of tokens, as gettoken finds them: "a" for *)
(* a word, the symbols for themselves.  A word is known by its position,   *)
(* as argv and file are pointers into the line.  panic("syntax") and its   *)
(* like are the result Fail.                                               *)
(***************************************************************************)
EXTENDS Integers, Sequences, FiniteSetsExt

CONSTANT MAXARGS

Token == {"a", "|", "(", ")", ";", "&", "<", ">"}

(* Constructors.                                                           *)
execcmd == [type |-> "EXEC", argv |-> <<>>]
redircmd(subcmd, file, fd) == [type |-> "REDIR", cmd |-> subcmd, file |-> file, fd |-> fd]
pipecmd(left, right) == [type |-> "PIPE", left |-> left, right |-> right]
listcmd(left, right) == [type |-> "LIST", left |-> left, right |-> right]
backcmd(subcmd) == [type |-> "BACK", cmd |-> subcmd]

(* A parser returns the command and the position it has come to; 0 is      *)
(* where it panics.                                                        *)
Parsed(cmd, i) == [cmd |-> cmd, at |-> i]
Fail == Parsed(execcmd, 0)

gettoken(t, i) == IF i > Len(t) THEN "end" ELSE t[i]
peek(t, i, toks) == gettoken(t, i) \in toks

RECURSIVE parseline(_, _), parsepipe(_, _), parseredirs(_, _, _), parseargs(_, _, _)
RECURSIVE back(_, _, _), Added(_, _), Argc(_)

parseredirs(cmd, t, i) ==
  IF ~peek(t, i, {"<", ">"}) THEN Parsed(cmd, i)
  ELSE IF gettoken(t, i + 1) # "a" THEN Fail
  ELSE parseredirs(redircmd(cmd, i + 1, IF t[i] = "<" THEN 0 ELSE 1), t, i + 2)

parseblock(t, i) ==
  LET line == parseline(t, i + 1) IN
  IF line.at = 0 \/ ~peek(t, line.at, {")"}) THEN Fail
  ELSE parseredirs(line.cmd, t, line.at + 1)

(* cmd->argv[argc++] = q, in the EXEC that ret has redirections around.    *)
Added(ret, q) ==
  IF ret.type = "EXEC" THEN [ret EXCEPT !.argv = Append(@, q)]
  ELSE [ret EXCEPT !.cmd = Added(@, q)]
Argc(ret) == IF ret.type = "EXEC" THEN Len(ret.argv) ELSE Argc(ret.cmd)

(* The loop of parseexec.                                                  *)
parseargs(ret, t, i) ==
  IF i = 0 \/ peek(t, i, {"|", ")", "&", ";", "end"}) THEN Parsed(ret, i)
  ELSE IF gettoken(t, i) # "a" \/ Argc(ret) + 1 >= MAXARGS THEN Fail
  ELSE LET p == parseredirs(Added(ret, i), t, i + 1) IN parseargs(p.cmd, t, p.at)

parseexec(t, i) ==
  IF peek(t, i, {"("}) THEN parseblock(t, i)
  ELSE LET p == parseredirs(execcmd, t, i) IN parseargs(p.cmd, t, p.at)

parsepipe(t, i) ==
  LET p == parseexec(t, i) IN
  IF p.at = 0 \/ ~peek(t, p.at, {"|"}) THEN p
  ELSE LET q == parsepipe(t, p.at + 1) IN Parsed(pipecmd(p.cmd, q.cmd), q.at)

(* parseline: the &s, and what may follow them.                            *)
back(cmd, t, i) == IF peek(t, i, {"&"}) THEN back(backcmd(cmd), t, i + 1) ELSE Parsed(cmd, i)

parseline(t, i) ==
  LET p == parsepipe(t, i)
      b == back(p.cmd, t, p.at)
  IN  IF p.at = 0 THEN Fail
      ELSE IF ~peek(t, b.at, {";"}) THEN b
      ELSE LET q == parseline(t, b.at + 1) IN Parsed(listcmd(b.cmd, q.cmd), q.at)

parsecmd(t) ==
  LET p == parseline(t, 1) IN
  IF p.at = Len(t) + 1 THEN p ELSE Fail

(* The words that nulterminate ends with a NUL.                            *)
RECURSIVE nulterminate(_)
nulterminate(cmd) ==
  CASE cmd.type = "EXEC" -> {cmd.argv[k] : k \in DOMAIN cmd.argv}
    [] cmd.type = "REDIR" -> nulterminate(cmd.cmd) \cup {cmd.file}
    [] cmd.type \in {"PIPE", "LIST"} -> nulterminate(cmd.left) \cup nulterminate(cmd.right)
    [] cmd.type = "BACK" -> nulterminate(cmd.cmd)

-----------------------------------------------------------------------------
(* The same lines read from the operators: a line is split at its first    *)
(* semicolon outside parentheses, a pipe at its first bar, and an & is     *)
(* the end of what it is for.  o is the position of s[1] in the whole.     *)
Depth(s, k) == LET Count(x) == Cardinality({j \in 1 .. k - 1 : s[j] = x}) IN Count("(") - Count(")")
Top(s, x) == {k \in DOMAIN s : s[k] = x /\ Depth(s, k) = 0}
From(s, k) == SubSeq(s, k, Len(s))

(* Redirections only; and words with redirections among them.              *)
Files(s) == {k \in DOMAIN s : s[k] \in {"<", ">"}}
Words(s) == {k \in DOMAIN s : s[k] = "a" /\ k - 1 \notin Files(s)}
Simple(s) == \A k \in DOMAIN s : s[k] \in {"a", "<", ">"} /\ (k \in Files(s) => k < Len(s) /\ s[k + 1] = "a")

RECURSIVE Redirected(_, _, _)
Redirected(cmd, s, o) ==
  IF Files(s) = {} THEN cmd
  ELSE LET k == Max(Files(s))
       IN  redircmd(Redirected(cmd, SubSeq(s, 1, k - 1), o), o + k, IF s[k] = "<" THEN 0 ELSE 1)

Wrong == [type |-> "WRONG"]
RECURSIVE Line(_, _), Pipe(_, _), HasWrong(_)

Exec(s, o) ==
  LET close == {k \in DOMAIN s : s[k] = ")" /\ Depth(s, k) = 1}
      k     == Min(close)
      args  == [j \in 1 .. Cardinality(Words(s)) |->
                  o - 1 + CHOOSE w \in Words(s) : Cardinality({v \in Words(s) : v <= w}) = j]
  IN  IF s # <<>> /\ s[1] = "("
      THEN IF close # {} /\ Simple(From(s, k + 1)) /\ Words(From(s, k + 1)) = {}
           THEN Redirected(Line(SubSeq(s, 2, k - 1), o + 1), From(s, k + 1), o + k)
           ELSE Wrong
      ELSE IF Simple(s) /\ Len(args) < MAXARGS
           THEN Redirected([execcmd EXCEPT !.argv = args], s, o) ELSE Wrong

Pipe(s, o) ==
  LET k == Min(Top(s, "|")) IN
  IF Top(s, "|") = {} THEN Exec(s, o)
  ELSE pipecmd(Exec(SubSeq(s, 1, k - 1), o), Pipe(From(s, k + 1), o + k))

RECURSIVE Job(_, _)
Job(s, o) ==
  IF s # <<>> /\ Len(s) \in Top(s, "&") THEN backcmd(Job(SubSeq(s, 1, Len(s) - 1), o)) ELSE Pipe(s, o)

Line(s, o) ==
  LET k == Min(Top(s, ";")) IN
  IF Top(s, ";") = {} THEN Job(s, o)
  ELSE listcmd(Job(SubSeq(s, 1, k - 1), o), Line(From(s, k + 1), o + k))

HasWrong(c) ==
  CASE c.type = "WRONG" -> TRUE
    [] c.type = "EXEC" -> FALSE
    [] c.type \in {"REDIR", "BACK"} -> HasWrong(c.cmd)
    [] c.type \in {"PIPE", "LIST"} -> HasWrong(c.left) \/ HasWrong(c.right)

-----------------------------------------------------------------------------
(* File descriptors, as functions from numbers to what is open there.      *)
Closed == "closed"
close(fds, k) == [fds EXCEPT ![k] = Closed]
Opened(fds, x) == [fds EXCEPT ![Min({k \in DOMAIN fds : fds[k] = Closed})] = x]
dup(fds, k) == Opened(fds, fds[k])

(* The descriptors of the left and the right command of a pipe p; and of a *)
(* left one that keeps the end it does not use.                            *)
KeepsEnd(fds, p) == close(dup(close(fds, 1), p[2]), p[2])
LeftEnd(fds, p) == close(close(dup(close(fds, 1), p[2]), p[1]), p[2])
RightEnd(fds, p) == close(close(dup(close(fds, 0), p[1]), p[1]), p[2])

(* The programs that run, with their descriptors, when all system calls    *)
(* succeed; path names the pipes apart.                                    *)
RECURSIVE runcmd(_, _, _)
runcmd(cmd, fds, path) ==
  LET lo   == Min({k \in DOMAIN fds : fds[k] = Closed})
      hi   == Min({k \in DOMAIN fds : fds[k] = Closed /\ k > lo})
      both == [fds EXCEPT ![lo] = <<"read", path>>, ![hi] = <<"write", path>>]
  IN
  CASE cmd.type = "EXEC" -> IF cmd.argv = <<>> THEN {} ELSE {<<cmd.argv, fds>>}
    [] cmd.type = "REDIR" -> runcmd(cmd.cmd, Opened(close(fds, cmd.fd), <<"file", cmd.file>>), path)
    [] cmd.type = "LIST" -> runcmd(cmd.left, fds, Append(path, 1)) \cup runcmd(cmd.right, fds, Append(path, 2))
    [] cmd.type = "PIPE" -> runcmd(cmd.left, LeftEnd(both, <<lo, hi>>), Append(path, 1))
                            \cup runcmd(cmd.right, RightEnd(both, <<lo, hi>>), Append(path, 2))
    [] cmd.type = "BACK" -> runcmd(cmd.cmd, fds, path)

(* What the user means by the command: input and output of each program.   *)
RECURSIVE Meant(_, _, _, _)
Meant(cmd, in, out, path) ==
  CASE cmd.type = "EXEC" -> IF cmd.argv = <<>> THEN {} ELSE {<<cmd.argv, in, out>>}
    [] cmd.type = "REDIR" -> IF cmd.fd = 0 THEN Meant(cmd.cmd, <<"file", cmd.file>>, out, path)
                             ELSE Meant(cmd.cmd, in, <<"file", cmd.file>>, path)
    [] cmd.type = "LIST" -> Meant(cmd.left, in, out, Append(path, 1)) \cup Meant(cmd.right, in, out, Append(path, 2))
    [] cmd.type = "PIPE" -> Meant(cmd.left, in, <<"write", path>>, Append(path, 1))
                            \cup Meant(cmd.right, <<"read", path>>, out, Append(path, 2))
    [] cmd.type = "BACK" -> Meant(cmd.cmd, in, out, path)
=============================================================================
