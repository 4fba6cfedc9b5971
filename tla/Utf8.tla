-------------------------------- MODULE Utf8 ---------------------------------
(***************************************************************************)
(* The characters of names and labels (common/ucs.h): a text is a sequence *)
(* of bytes, numbers below 256; an iterator takes it apart into pieces     *)
(* [bytes, val], where val is the code point, or inval for a single byte   *)
(* that begins no character.                                               *)
(***************************************************************************)
EXTENDS Integers, Sequences, SequencesExt

\* uint32_t(-1)
inval == -1

\* b is the first byte of a character of n bytes, or one of the others.
Lead(b, n) == CASE n = 1 -> b < 128
                [] n = 2 -> b \div 32 = 6
                [] n = 3 -> b \div 16 = 14
                [] n = 4 -> b \div 8 = 30
Continues(b) == b \div 64 = 2

\* decode_utf8(bs, ucp, 1): the character that four bytes begin with.
decode_utf8(bs) ==
  LET Is(n)   == Lead(bs[1], n) /\ \A i \in 2 .. n : Continues(bs[i])
      rest[n \in 1 .. 4] == IF n = 1 THEN 0 ELSE rest[n - 1] * 64 + (bs[n] % 64)
  IN CASE Is(1) -> [len |-> 1, val |-> bs[1]]
       [] Is(2) -> [len |-> 2, val |-> (bs[1] % 32) * 64 + rest[2]]
       [] Is(3) -> [len |-> 3, val |-> (bs[1] % 16) * 64^2 + rest[3]]
       [] Is(4) -> [len |-> 4, val |-> (bs[1] % 8) * 64^3 + rest[4]]
       [] OTHER -> [len |-> 1, val |-> inval]

\* utf8_view::update(): behind the end of the text there are zeros.
update(t, i) == decode_utf8([j \in 1 .. 4 |-> IF i + j - 1 <= Len(t) THEN t[i + j - 1] ELSE 0])

\* The pieces an iterator goes through, operator++ after operator++.
utf8_view(t) ==
  LET From[i \in 1 .. Len(t) + 1] ==
        IF i > Len(t) THEN <<>>
        ELSE LET d == update(t, i)
             IN <<[bytes |-> SubSeq(t, i, i + d.len - 1), val |-> d.val]>> \o From[i + d.len]
  IN From[1]

\* One round of the loop of utf32_to_utf8().
encode(ucs) ==
  LET next(d) == 128 + ((ucs \div d) % 64)
  IN CASE ucs \in 0 .. 127      -> <<ucs>>
       [] ucs \in 128 .. 2047   -> <<192 + (ucs \div 64), next(1)>>
       [] ucs \in 2048 .. 65535 -> <<224 + (ucs \div 64^2), next(64), next(1)>>
       [] ucs > 65535           -> <<240 + (ucs \div 64^3), next(64^2), next(64), next(1)>>
       [] ucs = inval           -> <<255, 191, 191, 191>>
utf32_to_utf8(in) == FlattenSeq([i \in DOMAIN in |-> encode(in[i])])

\* toupper(string_view): only ASCII letters have an upper case here, and a byte
\* that begins no character becomes four others.
upper(val) == IF val \in 97 .. 122 THEN val - 32 ELSE val
toupper(t) == LET f == utf8_view(t) IN utf32_to_utf8([i \in DOMAIN f |-> upper(f[i].val)])
=============================================================================
