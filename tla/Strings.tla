------------------------------ MODULE Strings ------------------------------
(***************************************************************************)
(* proj2/src/lib/string.c.  Memory is a function m from addresses to       *)
(* characters, a character is a natural number and 0 ends a string.  The   *)
(* loops are recursions on the pointers; what they must come to is stated  *)
(* at the end over the text of a string, a sequence.                       *)
(***************************************************************************)
EXTENDS Integers, Sequences, FiniteSets

NUL == 0
NoPtr == -1      \* a null pointer

-----------------------------------------------------------------------------
(* Blocks of memory.                                                       *)

RECURSIVE MemCpy(_, _, _, _)
MemCpy(m, dst, src, size) ==
  IF size = 0 THEN m
  ELSE MemCpy([m EXCEPT ![dst] = m[src]], dst + 1, src + 1, size - 1)

RECURSIVE CopyDown(_, _, _, _)
CopyDown(m, dst, src, size) ==
  IF size = 0 THEN m
  ELSE CopyDown([m EXCEPT ![dst + size - 1] = m[src + size - 1]], dst, src, size - 1)

\* Faulty variant: copies upward whatever overlaps.
MemMove_Upward(m, dst, src, size) == [mem |-> MemCpy(m, dst, src, size), ret |-> dst]

\* memmove() returns dst where its loop has left it: behind the block when it has
\* copied upward, at its start when it has copied downward.
MemMove(m, dst, src, size) ==
  IF dst < src THEN [mem |-> MemCpy(m, dst, src, size), ret |-> dst + size]
  ELSE [mem |-> CopyDown(m, dst, src, size), ret |-> dst]

RECURSIVE MemCmp(_, _, _, _)
MemCmp(m, a, b, size) ==
  CASE size = 0 -> 0
    [] size > 0 /\ m[a] = m[b] -> MemCmp(m, a + 1, b + 1, size - 1)
    [] OTHER -> IF m[a] > m[b] THEN 1 ELSE -1

RECURSIVE MemChr(_, _, _, _)
MemChr(m, block, ch, size) ==
  CASE size = 0 -> NoPtr
    [] size > 0 /\ m[block] = ch -> block
    [] OTHER -> MemChr(m, block + 1, ch, size - 1)

RECURSIVE MemSet(_, _, _, _)
MemSet(m, dst, v, size) ==
  IF size = 0 THEN m ELSE MemSet([m EXCEPT ![dst] = v], dst + 1, v, size - 1)

-----------------------------------------------------------------------------
(* Strings.                                                                *)

RECURSIVE StrCmp(_, _, _)
StrCmp(m, a, b) ==
  CASE m[a] # NUL /\ m[a] = m[b] -> StrCmp(m, a + 1, b + 1)
    [] m[a] < m[b] -> -1
    [] OTHER -> IF m[a] > m[b] THEN 1 ELSE 0

RECURSIVE StrChr(_, _, _)
StrChr(m, string, c) ==
  CASE m[string] = c -> string
    [] m[string] # c /\ m[string] = NUL -> NoPtr
    [] OTHER -> StrChr(m, string + 1, c)

RECURSIVE StrLen(_, _)
StrLen(m, string) == IF m[string] = NUL THEN 0 ELSE 1 + StrLen(m, string + 1)

RECURSIVE StrNLen(_, _, _)
StrNLen(m, string, maxlen) ==
  IF maxlen = 0 \/ m[string] = NUL THEN 0 ELSE 1 + StrNLen(m, string + 1, maxlen - 1)

RECURSIVE StrCspn(_, _, _)
StrCspn(m, string, stop) ==
  IF m[string] = NUL \/ StrChr(m, stop, m[string]) # NoPtr THEN 0
  ELSE 1 + StrCspn(m, string + 1, stop)

RECURSIVE StrSpn(_, _, _)
StrSpn(m, string, skip) ==
  IF m[string] = NUL \/ StrChr(m, skip, m[string]) = NoPtr THEN 0
  ELSE 1 + StrSpn(m, string + 1, skip)

RECURSIVE StrPbrk(_, _, _)
StrPbrk(m, string, stop) ==
  CASE m[string] = NUL -> NoPtr
    [] m[string] # NUL /\ StrChr(m, stop, m[string]) # NoPtr -> string
    [] OTHER -> StrPbrk(m, string + 1, stop)

\* Of the occurrences of c, the last one the loop has seen is p.
RECURSIVE StrRchrFrom(_, _, _, _)
StrRchrFrom(m, string, c, p) ==
  IF m[string] = NUL THEN p
  ELSE StrRchrFrom(m, string + 1, c, IF m[string] = c THEN string ELSE p)

StrRchr(m, string, c) == StrRchrFrom(m, string, c, NoPtr)

\* strstr() from offset i of its loop on.
RECURSIVE StrStrFrom(_, _, _, _)
StrStrFrom(m, haystack, needle, i) ==
  CASE i + StrLen(m, needle) > StrLen(m, haystack) -> NoPtr
    [] i + StrLen(m, needle) <= StrLen(m, haystack)
         /\ MemCmp(m, haystack + i, needle, StrLen(m, needle)) = 0 -> haystack + i
    [] OTHER -> StrStrFrom(m, haystack, needle, i + 1)

StrStr(m, haystack, needle) == StrStrFrom(m, haystack, needle, 0)

\* The end of the token that starts at s: a delimiter or the end of the string.
RECURSIVE TokenEnd(_, _, _)
TokenEnd(m, s, delimiters) ==
  IF StrChr(m, delimiters, m[s]) # NoPtr THEN s ELSE TokenEnd(m, s + 1, delimiters)

\* strtok_r() with s, or *save_ptr when s is null, at the position s.
RECURSIVE StrTokR(_, _, _)
StrTokR(m, s, delimiters) ==
  CASE m[s] = NUL -> [mem |-> m, token |-> NoPtr, save |-> s]
    [] m[s] # NUL /\ StrChr(m, delimiters, m[s]) # NoPtr -> StrTokR(m, s + 1, delimiters)
    [] OTHER -> LET e == TokenEnd(m, s, delimiters)
                IN IF m[e] # NUL
                   THEN [mem |-> [m EXCEPT ![e] = NUL], token |-> s, save |-> e + 1]
                   ELSE [mem |-> m, token |-> s, save |-> e]

Least(a, b) == IF a < b THEN a ELSE b

StrLCpy(m, dst, src, size) ==
  LET src_len == StrLen(m, src)
      dst_len == Least(src_len, size - 1)
  IN [ret |-> src_len,
      mem |-> IF size = 0 THEN m
              ELSE [MemCpy(m, dst, src, dst_len) EXCEPT ![dst + dst_len] = NUL]]

StrLCat(m, dst, src, size) ==
  LET src_len == StrLen(m, src)
      dst_len == StrLen(m, dst)
      copy_cnt == Least(src_len, size - dst_len - 1)
  IN [ret |-> src_len + dst_len,
      mem |-> IF size = 0 \/ dst_len >= size THEN m
              ELSE [MemCpy(m, dst + dst_len, src, copy_cnt)
                      EXCEPT ![dst + dst_len + copy_cnt] = NUL]]

-----------------------------------------------------------------------------
(* What the functions are for.                                             *)

\* The text of the string at a.
Text(m, a) ==
  LET n == CHOOSE k \in 0..Cardinality(DOMAIN m) :
             m[a + k] = NUL /\ \A i \in 0..(k - 1) : m[a + i] # NUL
  IN [i \in 1..n |-> m[a + i - 1]]

\* The least element of the addresses s, or a null pointer.
FirstOf(s) == IF s = {} THEN NoPtr ELSE CHOOSE x \in s : \A y \in s : x <= y
LastOf(s) == IF s = {} THEN NoPtr ELSE CHOOSE x \in s : \A y \in s : y <= x

\* -1, 0 or 1 as s comes before t, is t, or comes after it in the dictionary.
Order(s, t) ==
  LET differ == {i \in 1..(Least(Len(s), Len(t)) + 1) :
                   SubSeq(s, 1, Least(i, Len(s))) # SubSeq(t, 1, Least(i, Len(t)))}
      i == FirstOf(differ)
  IN CASE s = t -> 0
       [] s # t /\ i > Len(s) -> -1
       [] s # t /\ i <= Len(s) /\ i > Len(t) -> 1
       [] OTHER -> IF s[i] < t[i] THEN -1 ELSE 1

In(c, s) == \E i \in DOMAIN s : s[i] = c

\* The searches, in the memory m, from a, for the characters or the text at b.
SearchesFind(m, a, b) ==
  LET s == Text(m, a)
      t == Text(m, b)
      hits == {a + i - 1 : i \in {j \in DOMAIN s : In(s[j], t)}}
      misses == {a + i - 1 : i \in {j \in DOMAIN s : ~In(s[j], t)}}
      places == {a + i : i \in {j \in 0..Len(s) : j + Len(t) <= Len(s)
                                  /\ SubSeq(s, j + 1, j + Len(t)) = t}}
  IN /\ StrLen(m, a) = Len(s)
     /\ StrCmp(m, a, b) = Order(s, t)
     /\ StrPbrk(m, a, b) = FirstOf(hits)
     /\ a + StrCspn(m, a, b) = FirstOf(hits \cup {a + Len(s)})
     /\ a + StrSpn(m, a, b) = FirstOf(misses \cup {a + Len(s)})
     /\ StrStr(m, a, b) = FirstOf(places)
     /\ \A c \in {m[i] : i \in DOMAIN m} :
          /\ StrChr(m, a, c) = FirstOf({i \in a..(a + Len(s)) : m[i] = c})
          /\ c # NUL => StrRchr(m, a, c) = LastOf({i \in a..(a + Len(s)) : m[i] = c})

\* The copies of n characters from b to a, and the strings they leave.  memmove()
\* returns its destination when it copies downwards; upwards it returns the end of
\* it (string.c:45, where :22 says "Returns DST").
CopiesCopy(m, a, b, n) ==
  LET moved == MemMove(m, a, b, n).mem
      cpy == StrLCpy(m, a, b, n)
      cat == StrLCat(m, a, b, n)
      s == Text(m, a)
      t == Text(m, b)
      room == {i \in DOMAIN m : a <= i /\ i < a + n}
      apart == a + n <= b \/ b + Len(t) < a    \* memcpy() may not overlap
  IN /\ a + n - 1 \in DOMAIN m /\ b + n - 1 \in DOMAIN m =>
          /\ a >= b => MemMove(m, a, b, n).ret = a
          /\ \A i \in DOMAIN m : moved[i] = IF i \in room THEN m[b + (i - a)] ELSE m[i]
          /\ (a + n <= b \/ b + n <= a) => MemCpy(m, a, b, n) = moved
          /\ MemCmp(m, a, b, n) =
               Order([i \in 1..n |-> m[a + i - 1]], [i \in 1..n |-> m[b + i - 1]])
          /\ \A c \in {m[i] : i \in DOMAIN m} :
               /\ MemChr(m, a, c, n) = FirstOf({i \in room : m[i] = c})
               /\ MemSet(m, a, c, n) = [i \in DOMAIN m |-> IF i \in room THEN c ELSE m[i]]
     /\ StrNLen(m, a, n) = Least(Len(s), n)
     /\ apart /\ a + n - 1 \in DOMAIN m =>
          /\ cpy.ret = Len(t) /\ cat.ret = Len(s) + Len(t)
          /\ n > 0 => Text(cpy.mem, a) = SubSeq(t, 1, Least(Len(t), n - 1))
          /\ Len(s) < n /\ b + Len(t) < a =>
               Text(cat.mem, a) = SubSeq(s \o t, 1, Least(Len(s \o t), n - 1))
          /\ \A i \in DOMAIN m \ room : cpy.mem[i] = m[i] /\ cat.mem[i] = m[i]

\* The tokens strtok_r() returns one after another, and where they start.
RECURSIVE Tokens(_, _, _)
Tokens(m, s, delimiters) ==
  LET r == StrTokR(m, s, delimiters)
  IN IF r.token = NoPtr THEN <<>>
     ELSE <<<<r.token, Text(r.mem, r.token)>>>> \o Tokens(r.mem, r.save, delimiters)

\* They are the maximal runs of characters that are no delimiters, in order.
TokensAreWords(m, a, b) ==
  LET s == Text(m, a)
      t == Text(m, b)
      starts == {i \in DOMAIN s : ~In(s[i], t) /\ (i > 1 => In(s[i - 1], t))}
      end(i) == FirstOf({j \in i..Len(s) : j = Len(s) \/ In(s[j + 1], t)})
      tokens == Tokens(m, a, b)
  IN b + Len(t) < a =>
       /\ Len(tokens) = Cardinality(starts)
       /\ {tokens[i] : i \in DOMAIN tokens} =
            {<<a + i - 1, SubSeq(s, i, end(i))>> : i \in starts}
       /\ \A i \in 1..(Len(tokens) - 1) : tokens[i][1] < tokens[i + 1][1]
=============================================================================
