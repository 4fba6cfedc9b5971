-------------------------------- MODULE Texts --------------------------------
(***************************************************************************)
(* The helpers on texts that decide about names, paths and options         *)
(* (mount.cpp, common/str.h, common/path.h, common/regex.h).               *)
(*                                                                         *)
(* A text is a sequence of symbols.  A symbol is a character, or stands    *)
(* for a run of characters that no helper looks into: a word of letters    *)
(* and digits ("mnt", "nosuid"), or a placeholder ("%d").  What the        *)
(* helpers tell apart are separators, blanks and marks; every symbol that  *)
(* is not one of Others or Marks is alphanumeric.                          *)
(***************************************************************************)
EXTENDS Naturals, Sequences, SequencesExt

Text == Seq(STRING)

Slash     == "/"
Backslash == "\\"
Blank     == " "
Marks     == {"_", "-", "."}
Placeholders == {"%d", "%D", "%u", "%g", "%t", "%l", "%L", "%U"}
\* "~" is any other character, and any byte that is not UTF-8.
Others == {Slash, Backslash, Blank, ",", "=", "%", "\"", ";", "#", ":", "[", "]", "@", "+", "~"}
            \cup Placeholders

Alnum(c) == c \notin Others \cup Marks

\* The first place from i on where c no longer holds.
EndOfRun(t, i, c(_)) == CHOOSE j \in i .. Len(t) + 1 :
                          /\ j > Len(t) \/ ~c(t[j])
                          /\ \A k \in i .. j - 1 : c(t[k])

\* string::find: the first place from i on where s is found, 0 if there is none.
find(t, s, i) ==
  LET At(j) == j + Len(s) <= Len(t) + 1 /\ SubSeq(t, j, j + Len(s) - 1) = s
  IN IF \E j \in i .. Len(t) : At(j)
     THEN CHOOSE j \in i .. Len(t) : At(j) /\ \A k \in i .. j - 1 : ~At(k)
     ELSE 0

trim(t) == LET blank(c) == c = Blank
               front    == EndOfRun(t, 1, blank)
           IN Reverse(LET u == Reverse(SubSeq(t, front, Len(t)))
                      IN SubSeq(u, EndOfRun(u, 1, blank), Len(u)))

\* The part after the last slash.
filename(t) == SubSeq(t, SelectLastInSeq(t, LAMBDA c : c = Slash) + 1, Len(t))
-----------------------------------------------------------------------------

\* The option is looked for from left to right, each time behind the last
\* place where it was found; it counts if a comma or the beginning stands
\* before it, and a comma, "=" or the end behind it.
contains_opt(src, opt) ==
  LET n == Len(opt)
      Whole(p) == /\ p = 1 \/ src[p - 1] = ","
                  /\ p + n > Len(src) \/ src[p + n] \in {",", "="}
      From[p \in 1 .. Len(src) + 1] ==
        LET q == find(src, opt, p) IN q # 0 /\ (Whole(q) \/ From[q + n])
  IN From[1]

\* sanitize_name(): a name from which no path and no option can be made.
sanitize_name(label) ==
  LET ap(r) == r # <<>> /\ Last(r) \in Marks
      put(r, c) == CASE Alnum(c) -> Append(r, c)
                     [] ~Alnum(c) /\ r # <<>> /\ ~ap(r)
                        -> Append(r, IF c \in Marks THEN c ELSE "_")
                     [] OTHER -> r
      all == FoldLeft(put, <<>>, label)
  IN IF ap(all) THEN Front(all) ELSE all

\* PLATFORM_PATH_SEP: a backslash separates, too, for the program, though not for
\* the kernel.
PathSeps == {Slash, Backslash}

\* path_walk(t, additive_pw): the iterator goes behind the next name and the
\* separators that follow it; what it yields is the path up to there.
path_walk(t) ==
  LET name(c) == c \notin PathSeps
      sep(c)  == c \in PathSeps
      From[i \in 1 .. Len(t) + 1] ==
        IF i > Len(t) THEN <<>>
        ELSE LET l == EndOfRun(t, i, name)
             IN <<SubSeq(t, 1, IF l = i THEN l ELSE l - 1)>> \o From[EndOfRun(t, l, sep)]
  IN From[1]

\* regex_hash_replace(): every placeholder is replaced by its value, in one
\* pass over the text; what was inserted is not looked at again.
regex_hash_replace(t, value) ==
  FlattenSeq([i \in DOMAIN t |-> IF t[i] \in Placeholders THEN value[t[i]] ELSE <<t[i]>>])

\* A path as the kernel reads it: the names between the slashes.
names(t) ==
  LET Read(r, i) == CASE t[i] = Slash                       -> r
                      [] t[i] # Slash /\ (i = 1 \/ t[i - 1] = Slash) -> Append(r, <<t[i]>>)
                      [] OTHER -> [r EXCEPT ![Len(r)] = Append(@, t[i])]
  IN FoldLeft(Read, <<>>, [i \in 1 .. Len(t) |-> i])

\* The items of a comma-separated list.
items(t) == FoldLeft(LAMBDA r, c : IF c = "," THEN Append(r, <<>>)
                                   ELSE [r EXCEPT ![Len(r)] = Append(@, c)], << <<>> >>, t)
=============================================================================
