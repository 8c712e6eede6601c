----------------------------- MODULE Containers -----------------------------
(***************************************************************************)
(* The kernel's containers at the level of their representation, from      *)
(* proj2/src/lib/kernel: the doubly linked lists of list.c, the hash       *)
(* tables of hash.c and the bitmaps of bitmap.c.                           *)
(***************************************************************************)
EXTENDS SequencesExt, Bitwise

CONSTANTS
  MinBuckets,      \* the smallest number of buckets (4 in the code)
  ElemBits         \* ELEM_BITS of bitmap.c

ASSUME ContainersAssumption == MinBuckets \in {1, 2, 4} /\ ElemBits \in Nat \ {0}

-----------------------------------------------------------------------------
(* list.c.  A heap h holds the members next and prev of elements 1..n and  *)
(* of the heads and tails of two lists, and the value by which less()      *)
(* compares an element.  h.ok falls when an ASSERT fails.                  *)

NULL == 0
list_head(l) == 1 - 2 * l
list_tail(l) == -2 * l

is_head(h, e) == e # NULL /\ h.prev[e] = NULL /\ h.next[e] # NULL
is_interior(h, e) == e # NULL /\ h.prev[e] # NULL /\ h.next[e] # NULL
is_tail(h, e) == e # NULL /\ h.prev[e] # NULL /\ h.next[e] = NULL

Asserting(h, condition) == [h EXCEPT !.ok = @ /\ condition]
less(h, a, b) == h.val[a] < h.val[b]

list_init(h, l) ==
  [h EXCEPT !.prev[list_head(l)] = NULL, !.next[list_head(l)] = list_tail(l),
            !.prev[list_tail(l)] = list_head(l), !.next[list_tail(l)] = NULL]

list_begin(h, l) == h.next[list_head(l)]
list_end(l) == list_tail(l)
list_rbegin(h, l) == h.prev[list_tail(l)]
list_empty(h, l) == list_begin(h, l) = list_end(l)

list_insert(h, before, elem) ==
  LET a == Asserting(h, is_interior(h, before) \/ is_tail(h, before))
      b == [a EXCEPT !.prev[elem] = a.prev[before], !.next[elem] = before]
  IN [b EXCEPT !.next[b.prev[before]] = elem, !.prev[before] = elem]

list_splice(h, before, first, last_) ==
  IF first = last_ THEN Asserting(h, is_interior(h, before) \/ is_tail(h, before))
  ELSE LET last == h.prev[last_]
           a == Asserting(h, /\ is_interior(h, before) \/ is_tail(h, before)
                             /\ is_interior(h, first) /\ is_interior(h, last))
           b == [a EXCEPT !.next[a.prev[first]] = a.next[last],
                          !.prev[a.next[last]] = a.prev[first]]
           c == [b EXCEPT !.prev[first] = b.prev[before], !.next[last] = before]
       IN [c EXCEPT !.next[c.prev[before]] = first, !.prev[before] = last]

list_push_front(h, l, elem) == list_insert(h, list_begin(h, l), elem)
list_push_back(h, l, elem) == list_insert(h, list_end(l), elem)

list_remove(h, elem) ==
  [Asserting(h, is_interior(h, elem)) EXCEPT !.next[h.prev[elem]] = h.next[elem],
                                             !.prev[h.next[elem]] = h.prev[elem]]

list_pop_front(h, l) == list_remove(Asserting(h, ~list_empty(h, l)), list_begin(h, l))
list_pop_back(h, l) == list_remove(Asserting(h, ~list_empty(h, l)), list_rbegin(h, l))

\* The loop of list_reverse(): e moves along what was its next member.
RECURSIVE reverse_from(_, _, _)
reverse_from(h, l, e) ==
  IF e = list_end(l) THEN h
  ELSE LET s == [h EXCEPT !.prev[e] = h.next[e], !.next[e] = h.prev[e]]
       IN reverse_from(s, l, s.prev[e])

list_reverse(h, l) ==
  IF list_empty(h, l) THEN h
  ELSE LET r == reverse_from(h, l, list_begin(h, l))
           first == r.prev[list_tail(l)]
           last == r.next[list_head(l)]
           s == [r EXCEPT !.next[list_head(l)] = first, !.prev[list_tail(l)] = last]
       IN [s EXCEPT !.prev[first] = s.next[last], !.next[last] = s.prev[first]]

RECURSIVE find_end_of_run(_, _, _)
find_end_of_run(h, a, b) ==
  LET n == h.next[a]
  IN IF n # b /\ ~less(h, n, h.prev[n]) THEN find_end_of_run(h, n, b) ELSE n

RECURSIVE is_sorted(_, _, _)
is_sorted(h, a, b) ==
  a = b \/ h.next[a] = b \/ (~less(h, h.next[a], a) /\ is_sorted(h, h.next[a], b))

\* The loop of inplace_merge().
RECURSIVE merge_from(_, _, _, _)
merge_from(h, a0, a1b0, b1) ==
  IF a0 = a1b0 \/ a1b0 = b1 THEN h
  ELSE IF ~less(h, a1b0, a0) THEN merge_from(h, h.next[a0], a1b0, b1)
  ELSE LET n == h.next[a1b0]
       IN merge_from(list_splice(h, a0, h.prev[n], n), a0, n, b1)

inplace_merge(h, a0, a1b0, b1) ==
  merge_from(Asserting(h, is_sorted(h, a0, a1b0) /\ is_sorted(h, a1b0, b1)), a0, a1b0, b1)

\* One pass of list_sort() from a0 on, which has output cnt runs.
RECURSIVE sort_pass(_, _, _, _)
sort_pass(h, l, a0, cnt) ==
  LET end == list_end(l)
      a1b0 == find_end_of_run(h, a0, end)
      b1 == find_end_of_run(h, a1b0, end)
  IN CASE a0 = end -> [heap |-> h, runs |-> cnt]
       [] a0 # end /\ a1b0 = end -> [heap |-> h, runs |-> cnt + 1]
       [] OTHER -> sort_pass(inplace_merge(h, a0, a1b0, b1), l, b1, cnt + 1)

RECURSIVE list_sort(_, _)
list_sort(h, l) ==
  LET pass == sort_pass(h, l, list_begin(h, l), 0)
  IN IF pass.runs > 1 THEN list_sort(pass.heap, l)
     ELSE Asserting(pass.heap, is_sorted(pass.heap, list_begin(pass.heap, l), list_end(l)))

\* Where list_insert_ordered() stops for elem, from e on.
RECURSIVE ordered_place(_, _, _, _)
ordered_place(h, l, elem, e) ==
  IF e = list_end(l) \/ less(h, elem, e) THEN e ELSE ordered_place(h, l, elem, h.next[e])

list_insert_ordered(h, l, elem) ==
  list_insert(h, ordered_place(h, l, elem, list_begin(h, l)), elem)

RECURSIVE unique_from(_, _, _, _)
unique_from(h, l, duplicates, elem) ==
  LET n == h.next[elem]
  IN IF n = list_end(l) THEN h
     ELSE IF less(h, elem, n) \/ less(h, n, elem) THEN unique_from(h, l, duplicates, n)
     ELSE unique_from(list_push_back(list_remove(h, n), duplicates, n), l, duplicates, elem)

list_unique(h, l, duplicates) ==
  IF list_empty(h, l) THEN h ELSE unique_from(h, l, duplicates, list_begin(h, l))

\* The loops of list_max() and list_min(), from e on.
RECURSIVE max_from(_, _, _, _)
max_from(h, l, max, e) ==
  IF e = list_end(l) THEN max
  ELSE max_from(h, l, IF less(h, max, e) THEN e ELSE max, h.next[e])

list_max(h, l) ==
  LET b == list_begin(h, l) IN IF b = list_end(l) THEN b ELSE max_from(h, l, b, h.next[b])

RECURSIVE min_from(_, _, _, _)
min_from(h, l, min, e) ==
  IF e = list_end(l) THEN min
  ELSE min_from(h, l, IF less(h, e, min) THEN e ELSE min, h.next[e])

list_min(h, l) ==
  LET b == list_begin(h, l) IN IF b = list_end(l) THEN b ELSE min_from(h, l, b, h.next[b])

\* The elements that list_next() visits from e on, and list_prev() backwards.
RECURSIVE forward(_, _, _)
forward(h, e, end) == IF e = end THEN <<>> ELSE <<e>> \o forward(h, h.next[e], end)
RECURSIVE backward(_, _, _)
backward(h, e, end) == IF e = end THEN <<>> ELSE <<e>> \o backward(h, h.prev[e], end)

\* A heap whose list 1 holds the elements 1..n with the values given.
HeapOf(vals) ==
  LET nodes == (-4..-1) \cup DOMAIN vals
      blank == [next |-> [e \in nodes |-> NULL], prev |-> [e \in nodes |-> NULL],
                val |-> vals, ok |-> TRUE]
      empty == list_init(list_init(blank, 1), 2)
  IN empty

Filled(vals) == FoldLeft(LAMBDA h, e : list_push_back(h, 1, e), HeapOf(vals),
                         [i \in DOMAIN vals |-> i])

\* List l is well linked and holds the elements of s in order.
Holds(h, l, s) ==
  /\ h.ok
  /\ forward(h, list_begin(h, l), list_end(l)) = s
  /\ backward(h, list_rbegin(h, l), list_head(l)) = Reverse(s)

\* The elements of s sorted by value, equal ones in their order.
StableSort(s, vals) ==
  SortSeq(s, LAMBDA a, b : vals[a] < vals[b] \/ (vals[a] = vals[b] /\ a < b))

\* Every list operation keeps both directions of the links, fails no assertion,
\* and does to the sequence what its comment says: sorting is stable, and so
\* are the first maximum and minimum; splicing moves a range of one list.
ListsCorrect(vals) ==
  LET h == Filled(vals)
      s == [i \in DOMAIN vals |-> i]
      n == Len(vals)
      keep(i) == i = 1 \/ vals[i] # vals[i - 1]
      u == list_unique(h, 1, 2)
      inserted == FoldLeft(LAMBDA g, e : list_insert_ordered(g, 1, e), HeapOf(vals), s)
  IN /\ Holds(h, 1, s) /\ Holds(h, 2, <<>>)
     /\ Holds(list_sort(h, 1), 1, StableSort(s, vals))
     /\ Holds(inserted, 1, StableSort(s, vals))
     /\ Holds(list_reverse(h, 1), 1, Reverse(s))
     /\ Holds(u, 1, SelectSeq(s, keep)) /\ Holds(u, 2, SelectSeq(s, LAMBDA i : ~keep(i)))
     /\ LET firstBest(e, better(_, _)) ==
              IF n = 0 THEN e = list_tail(1)
              ELSE e \in 1..n /\ \A i \in 1..n : /\ ~better(vals[i], vals[e])
                                                 /\ vals[i] = vals[e] => e <= i
        IN /\ firstBest(list_max(h, 1), LAMBDA a, b : a > b)
           /\ firstBest(list_min(h, 1), LAMBDA a, b : a < b)
     /\ n > 0 => /\ Holds(list_pop_front(h, 1), 1, Tail(s))
                 /\ Holds(list_pop_back(h, 1), 1, Front(s))
                 /\ Holds(list_push_front(list_pop_back(h, 1), 1, n), 1, <<n>> \o Front(s))
     /\ \A i \in 1..n, j \in 1..(n + 1) : i <= j =>
          LET at(k) == IF k > n THEN list_tail(1) ELSE k
              moved == list_splice(h, list_end(2), at(i), at(j))
              back == list_splice(moved, list_begin(moved, 1), list_begin(moved, 2), list_end(2))
          IN /\ Holds(moved, 1, SubSeq(s, 1, i - 1) \o SubSeq(s, j, n))
             /\ Holds(moved, 2, SubSeq(s, i, j - 1))
             /\ Holds(back, 1, SubSeq(s, i, j - 1) \o SubSeq(s, 1, i - 1) \o SubSeq(s, j, n))
             /\ Holds(back, 2, <<>>)

-----------------------------------------------------------------------------
(* hash.c.  A bucket is the sequence of its list; an element is            *)
(* <<key, id>>, compared by its key.  The hash keeps its low eight bits,   *)
(* which do not depend on the others.                                      *)

FNV_32_PRIME == 16777619 % 256
FNV_32_BASIS == 197                    \* 2166136261 % 256

hash_bytes(buf) ==
  FoldLeft(LAMBDA hash, byte : ((hash * FNV_32_PRIME) % 256) ^^ byte, FNV_32_BASIS, buf)

hash_int(i) == hash_bytes(<<i, 0, 0, 0>>)

hash_of == [key \in 0..9 |-> hash_int(key)]

find_bucket(h, e) == hash_of[e[1]] & (h.bucket_cnt - 1)

\* The position of an element equal to e in its bucket, or 0.
find_elem(h, e) == SelectInSeq(h.buckets[find_bucket(h, e)], LAMBDA hi : hi[1] = e[1])

NoElem == <<0, 0>>
hash_find(h, e) ==
  IF find_elem(h, e) = 0 THEN NoElem ELSE h.buckets[find_bucket(h, e)][find_elem(h, e)]

insert_elem(h, e) == [h EXCEPT !.elem_cnt = @ + 1,
                               !.buckets[find_bucket(h, e)] = <<e>> \o @]
remove_elem(h, e) == [h EXCEPT !.elem_cnt = @ - 1,
                               !.buckets[find_bucket(h, e)] = RemoveAt(@, find_elem(h, e))]

turn_off_least_1bit(x) == x & (x - 1)
is_power_of_2(x) == x # 0 /\ turn_off_least_1bit(x) = 0

RECURSIVE power_of_2_below(_)
power_of_2_below(x) == IF is_power_of_2(x) THEN x ELSE power_of_2_below(turn_off_least_1bit(x))

BEST_ELEMS_PER_BUCKET == 2

\* The number of buckets that rehash() wants.
ideal_bucket_cnt(elem_cnt) ==
  LET n == elem_cnt \div BEST_ELEMS_PER_BUCKET
  IN power_of_2_below(IF n < MinBuckets THEN MinBuckets ELSE n)

EmptyBuckets(n) == [i \in 0..(n - 1) |-> <<>>]
Elements(h) == FlattenSeq([i \in 1..h.bucket_cnt |-> h.buckets[i - 1]])

\* Moving the elements of rehash().  Faulty variant: the bucket of an element is
\* computed before the new count is installed.
move_elems_Early(h, n) ==
  FoldLeft(LAMBDA g, e : [g EXCEPT !.buckets[find_bucket(h, e) % n] = <<e>> \o @],
           [h EXCEPT !.bucket_cnt = n, !.buckets = EmptyBuckets(n)], Elements(h))

move_elems(h, n) ==
  FoldLeft(LAMBDA g, e : [g EXCEPT !.buckets[find_bucket(g, e)] = <<e>> \o @],
           [h EXCEPT !.bucket_cnt = n, !.buckets = EmptyBuckets(n)], Elements(h))

\* rehash(), with the result of malloc().
rehash(h, allocated) ==
  LET n == ideal_bucket_cnt(h.elem_cnt)
  IN IF n = h.bucket_cnt \/ ~allocated THEN h ELSE move_elems(h, n)

hash_clear(h) == [h EXCEPT !.elem_cnt = 0, !.buckets = EmptyBuckets(h.bucket_cnt)]
hash_init == [elem_cnt |-> 0, bucket_cnt |-> MinBuckets, buckets |-> EmptyBuckets(MinBuckets)]

hash_insert(h, new, allocated) ==
  [ret |-> hash_find(h, new),
   hash |-> rehash(IF find_elem(h, new) = 0 THEN insert_elem(h, new) ELSE h, allocated)]

hash_replace(h, new, allocated) ==
  [ret |-> hash_find(h, new),
   hash |-> rehash(insert_elem(IF find_elem(h, new) # 0 THEN remove_elem(h, new) ELSE h, new),
                   allocated)]

hash_delete(h, e, allocated) ==
  [ret |-> hash_find(h, e),
   hash |-> IF find_elem(h, e) = 0 THEN h ELSE rehash(remove_elem(h, e), allocated)]

\* An iterator: a bucket and a position in its list, 0 for the head; past the last
\* bucket it is at the end.
hash_first == [bucket |-> 0, pos |-> 0]

RECURSIVE skip_empty(_, _)
skip_empty(h, i) ==
  IF i.bucket >= h.bucket_cnt \/ i.pos <= Len(h.buckets[i.bucket]) THEN i
  ELSE skip_empty(h, [bucket |-> i.bucket + 1, pos |-> 1])

hash_next(h, i) == skip_empty(h, [i EXCEPT !.pos = @ + 1])
hash_cur(h, i) == h.buckets[i.bucket][i.pos]

\* hash_apply() and the loop over an iterator: the elements visited.
RECURSIVE visits(_, _)
visits(h, i) ==
  LET n == hash_next(h, i)
  IN IF n.bucket >= h.bucket_cnt THEN <<>> ELSE <<hash_cur(h, n)>> \o visits(h, n)

\* A table in use: the table, the elements that should be in it, and whether every
\* result so far was the element that the operation replaced, found or removed.
HashStart == [table |-> hash_init, content |-> {}, told |-> TRUE]

HashSteps(s, elems) ==
  LET equal(e) == {c \in s.content : c[1] = e[1]}
      old(e) == IF equal(e) = {} THEN NoElem ELSE CHOOSE c \in equal(e) : TRUE
      after(r, e, content) == [table |-> r.hash, content |-> content, told |-> r.ret = old(e)]
  IN UNION {{after(hash_insert(s.table, e, a), e,
                   IF equal(e) = {} THEN s.content \cup {e} ELSE s.content),
             after(hash_replace(s.table, e, a), e, (s.content \ equal(e)) \cup {e}),
             after(hash_delete(s.table, e, a), e, s.content \ equal(e))} :
            e \in elems, a \in BOOLEAN}
     \cup {[s EXCEPT !.table = hash_clear(@), !.content = {}]}

\* However the table has grown and shrunk, and whenever a new array of buckets
\* could not be allocated, every element is found and only those, the results
\* are right, and an iteration visits each element once.
HashCorrect(s, elems) ==
  LET h == s.table
  IN /\ s.told
     /\ is_power_of_2(h.bucket_cnt) /\ DOMAIN h.buckets = 0..(h.bucket_cnt - 1)
     /\ h.elem_cnt = Cardinality(s.content)
     /\ \A e \in elems : hash_find(h, e) = IF \E c \in s.content : c[1] = e[1]
                                           THEN CHOOSE c \in s.content : c[1] = e[1]
                                           ELSE NoElem
     /\ ToSet(visits(h, hash_first)) = s.content
     /\ Len(visits(h, hash_first)) = Cardinality(s.content)

-----------------------------------------------------------------------------
(* bitmap.c.                                                               *)

elem_idx(bit_idx) == bit_idx \div ElemBits
bit_mask(bit_idx) == 2 ^ (bit_idx % ElemBits)
elem_cnt_of(bit_cnt) == (bit_cnt + ElemBits - 1) \div ElemBits
AllOnes == (2 ^ ElemBits) - 1

\* The bits of the last element that are used.
last_mask(b) ==
  IF b.bit_cnt % ElemBits # 0 THEN (2 ^ (b.bit_cnt % ElemBits)) - 1 ELSE AllOnes

bitmap_mark(b, i) == [b EXCEPT !.bits[elem_idx(i)] = @ | bit_mask(i)]
bitmap_reset(b, i) == [b EXCEPT !.bits[elem_idx(i)] = @ & (AllOnes - bit_mask(i))]
bitmap_flip(b, i) == [b EXCEPT !.bits[elem_idx(i)] = @ ^^ bit_mask(i)]
bitmap_test(b, i) == (b.bits[elem_idx(i)] & bit_mask(i)) # 0
bitmap_set(b, i, value) == IF value THEN bitmap_mark(b, i) ELSE bitmap_reset(b, i)

bitmap_set_multiple(b, start, cnt, value) ==
  FoldLeft(LAMBDA g, i : bitmap_set(g, start + i - 1, value), b, [i \in 1..cnt |-> i])

bitmap_set_all(b, value) == bitmap_set_multiple(b, 0, b.bit_cnt, value)

\* bitmap_create(): the elements hold anything (`junk') before the bits are cleared.
bitmap_create(bit_cnt, junk) ==
  bitmap_set_all([bit_cnt |-> bit_cnt,
                  bits |-> [i \in 0..(elem_cnt_of(bit_cnt) - 1) |-> junk]], FALSE)

bitmap_count(b, start, cnt, value) ==
  Cardinality({i \in 0..(cnt - 1) : bitmap_test(b, start + i) = value})
bitmap_contains(b, start, cnt, value) ==
  \E i \in 0..(cnt - 1) : bitmap_test(b, start + i) = value
bitmap_all(b, start, cnt) == ~bitmap_contains(b, start, cnt, FALSE)

BITMAP_ERROR == -1

\* The loop of bitmap_scan() from i to last.
RECURSIVE scan_from(_, _, _, _, _)
scan_from(b, i, last, cnt, value) ==
  CASE i > last -> BITMAP_ERROR
    [] i <= last /\ ~bitmap_contains(b, i, cnt, ~value) -> i
    [] OTHER -> scan_from(b, i + 1, last, cnt, value)

bitmap_scan(b, start, cnt, value) ==
  IF cnt <= b.bit_cnt THEN scan_from(b, start, b.bit_cnt - cnt, cnt, value) ELSE BITMAP_ERROR

bitmap_scan_and_flip(b, start, cnt, value) ==
  LET idx == bitmap_scan(b, start, cnt, value)
  IN [ret |-> idx,
      map |-> IF idx # BITMAP_ERROR THEN bitmap_set_multiple(b, idx, cnt, ~value) ELSE b]

\* bitmap_read() of the elements in a file: the bits beyond the last are cleared.
bitmap_read(b, file) ==
  IF b.bit_cnt = 0 THEN b
  ELSE LET last == elem_cnt_of(b.bit_cnt) - 1
       IN [bit_cnt |-> b.bit_cnt,
           bits |-> [file EXCEPT ![last] = file[last] & last_mask(b)]]

\* The bitmap with the bits of set S, from storage that held junk.
BitmapOf(bit_cnt, S, junk) ==
  FoldLeft(LAMBDA b, i : bitmap_mark(b, i), bitmap_create(bit_cnt, junk), SetToSeq(S))

Bits(b) == {i \in 0..(b.bit_cnt - 1) : bitmap_test(b, i)}

\* A bitmap of any size, from storage that held anything, is the set of its bits:
\* single bits do not disturb their neighbours, across elements too, the scan
\* finds the first group and only within the map, and a bitmap written to a
\* file and read back, whatever its unused bits, is the same set.  A group of no
\* bits changes nothing; its index is left open, since the code has START where
\* bitmap.c:316 has 0.
BitmapsCorrect(bit_cnt, S, junk) ==
  LET b == BitmapOf(bit_cnt, S, junk)
      last == elem_cnt_of(bit_cnt) - 1
      dirty == [b.bits EXCEPT ![last] = b.bits[last] | (AllOnes - last_mask(b))]
      free(i, cnt, value) == i + cnt <= bit_cnt
                             /\ \A k \in i..(i + cnt - 1) : (k \in S) = value
  IN /\ Bits(b) = S
     /\ \A i \in 0..(bit_cnt - 1) :
          /\ Bits(bitmap_reset(b, i)) = S \ {i}
          /\ Bits(bitmap_flip(b, i)) = SymDiff(S, {i})
     /\ Bits(bitmap_set_all(b, TRUE)) = 0..(bit_cnt - 1)
     /\ bit_cnt > 0 => /\ Bits(bitmap_read(b, dirty)) = S
                       /\ bitmap_read(b, dirty).bits[last] = BitmapOf(bit_cnt, S, 0).bits[last]
     /\ \A start \in 0..bit_cnt, cnt \in 0..(bit_cnt + 1), value \in BOOLEAN :
          LET groups == {i \in start..bit_cnt : free(i, cnt, value)}
              r == bitmap_scan_and_flip(b, start, cnt, value)
              hit == r.ret..(r.ret + cnt - 1)
          IN /\ IF groups = {} THEN r.ret = BITMAP_ERROR /\ r.map = b
                ELSE /\ cnt > 0 => r.ret = Min(groups)
                     /\ Bits(r.map) = IF value THEN S \ hit ELSE S \cup hit
             /\ start + cnt <= bit_cnt =>
                  /\ bitmap_count(b, start, cnt, TRUE) = Cardinality(S \cap start..(start + cnt - 1))
                  /\ bitmap_all(b, start, cnt) = (start..(start + cnt - 1) \subseteq S)
=============================================================================
