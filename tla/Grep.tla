------------------------------- MODULE Grep --------------------------------
(***************************************************************************)
(* The matcher of grep.c and its loop over the lines of a file.  An        *)
(* expression and a text are sequences of characters; the end of one is    *)
(* where C has its 0.                                                      *)
(***************************************************************************)
EXTENDS Integers, Sequences, SequencesExt

CONSTANT BufSize   \* sizeof(buf)

Special == {".", "*", "^", "$"}
Rest(s, k) == SubSeq(s, k, Len(s))

RECURSIVE matchhere(_, _), matchstar(_, _, _)

matchhere(re, text) ==
  IF re = <<>> THEN TRUE
  ELSE IF Len(re) > 1 /\ re[2] = "*" THEN matchstar(re[1], Rest(re, 3), text)
  ELSE IF re = <<"$">> THEN text = <<>>
  ELSE /\ text # <<>> /\ re[1] \in {".", text[1]}
       /\ matchhere(Tail(re), Tail(text))

(* A faulty matchstar that wants one instance at least.                    *)
matchplus(c, re, text) ==
  /\ text # <<>> /\ c \in {".", text[1]}
  /\ matchhere(re, Tail(text)) \/ matchstar(c, re, Tail(text))

matchstar(c, re, text) ==
  \/ matchhere(re, text)
  \/ text # <<>> /\ c \in {".", text[1]} /\ matchstar(c, re, Tail(text))

match(re, text) ==
  IF re # <<>> /\ re[1] = "^" THEN matchhere(Tail(re), text)
  ELSE \E k \in 1 .. Len(text) + 1 : matchhere(re, Rest(text, k))

(* The loop of grep over a file: buf has what is left of the last line,    *)
(* out the lines written so far.  A read of a file is short only at its    *)
(* end.  Lines, of a buffer: the ones that end, and what is behind them.   *)
NL == "nl"
Lines(buf) ==
  LET ends == SetToSortSeq({k \in DOMAIN buf : buf[k] = NL}, <)
      start(i) == IF i = 1 THEN 1 ELSE ends[i - 1] + 1
  IN  [whole |-> [i \in DOMAIN ends |-> SubSeq(buf, start(i), ends[i] - 1)],
       rest  |-> Rest(buf, start(Len(ends) + 1))]

RECURSIVE grep(_, _, _, _)
grep(pattern, file, buf, out) ==
  LET n     == Min({BufSize - Len(buf) - 1, Len(file)})
      lines == Lines(buf \o SubSeq(file, 1, n))
  IN  IF n = 0 THEN out
      ELSE grep(pattern, Rest(file, n + 1),
                IF lines.whole = <<>> THEN <<>> ELSE lines.rest,
                out \o SelectSeq(lines.whole, LAMBDA l : match(pattern, l)))

-----------------------------------------------------------------------------
(* What an expression means: a sequence of items, each a character that    *)
(* may be starred, with an anchor at either end.                           *)
RECURSIVE Items(_)
Items(re) ==
  IF re = <<>> THEN <<>>
  ELSE IF Len(re) > 1 /\ re[2] = "*" THEN <<<<re[1], TRUE>>>> \o Items(Rest(re, 3))
  ELSE <<<<re[1], FALSE>>>> \o Items(Tail(re))

(* Items take up the text from position i on, item j taking n[j] of it.    *)
TakesUp(items, text, i, n) ==
  LET start[j \in 1 .. Len(items) + 1] == IF j = 1 THEN i ELSE start[j - 1] + n[j - 1] IN
  /\ start[Len(items) + 1] <= Len(text) + 1
  /\ \A j \in DOMAIN items :
       /\ items[j][2] \/ n[j] = 1
       /\ \A k \in start[j] .. start[j] + n[j] - 1 : items[j][1] \in {".", text[k]}

Sum(n, k) == LET s[j \in 0 .. k] == IF j = 0 THEN 0 ELSE s[j - 1] + n[j] IN s[k]

Means(re, text) ==
  LET front == re # <<>> /\ re[1] = "^"
      all   == Items(IF front THEN Tail(re) ELSE re)
      end   == all # <<>> /\ all[Len(all)] = <<"$", FALSE>>
      items == IF end THEN SubSeq(all, 1, Len(all) - 1) ELSE all
  IN  \E i \in 1 .. IF front THEN 1 ELSE Len(text) + 1 :
        \E n \in [DOMAIN items -> 0 .. Len(text)] :
          /\ TakesUp(items, text, i, n)
          /\ end => i + Sum(n, Len(items)) = Len(text) + 1
=============================================================================
