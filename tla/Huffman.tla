---- MODULE Huffman ----
(***************************************************************************)
(* The Huffman codes of tdefl_optimize_huffman_table: sort the used        *)
(* symbols by frequency, compute the length of a minimum-redundancy code   *)
(* in place (Moffat and Katajainen), limit the lengths, give the longest   *)
(* ones to the rarest symbols and number the codes canonically.            *)
(* Arrays start at 0, as in the code; a frequency is a 16-bit number.      *)
(***************************************************************************)
EXTENDS DeflateFormat

MAX_SUPPORTED_HUFF_CODESIZE == 32

U16(n) == n % 65536

Array(s) == Tab([k \in 0..Len(s) - 1 |-> s[k + 1]])

\* One pass of the radix sort: a stable counting sort by one byte of the key.
\* offsets[b] ends up past the last item whose byte is b.
RadixPass(syms, digit(_)) ==
  LET n == Len(syms)
      before(d, i) == {j \in 1..n : d[j] < d[i] \/ (d[j] = d[i] /\ j < i)}
      place(d) == Tab([i \in 1..n |-> 1 + Cardinality(before(d, i))])
  IN With(Tab([i \in 1..n |-> digit(syms[i].key)]), LAMBDA d :
       With(place(d), LAMBDA p :
         Tab([k \in 1..n |-> syms[CHOOSE i \in 1..n : p[i] = k]])))

\* The pass over the high byte is skipped when every high byte is 0.
RadixSort(syms) ==
  With(RadixPass(syms, LAMBDA key : key % 256), LAMBDA low :
    IF \A i \in DOMAIN syms : syms[i].key < 256 THEN low
    ELSE RadixPass(low, LAMBDA key : (key \div 256) % 256))

\* The first phase, for the internal node `next`: it takes the two smallest
\* of the leaves not yet taken and the internal nodes without a parent; an
\* internal node taken gets the index of its parent in place of its weight.
\* Of the second one the code asks that the internal node exist (root < next).
Take(st, n, next, first) ==
  LET A == st.A
      internal == \/ st.leaf >= n
                  \/ (~first => st.root < next) /\ A[st.root] < A[st.leaf]
      weight == IF internal THEN A[st.root] ELSE A[st.leaf]
      B == [A EXCEPT ![next] = IF first THEN weight ELSE U16(A[next] + weight)]
  IN IF internal
     THEN [st EXCEPT !.A = [B EXCEPT ![st.root] = next], !.root = @ + 1]
     ELSE [st EXCEPT !.A = B, !.leaf = @ + 1]

Combine(A, n) ==
  Iterate(LAMBDA st, next : With(Take(st, n, next, TRUE),
                                 LAMBDA one : Take(one, n, next, FALSE)),
           [A |-> [A EXCEPT ![0] = U16(A[0] + A[1])], root |-> 0, leaf |-> 2],
           [k \in 1..n - 2 |-> k]).A

\* The second phase: from parents to depths, from the last internal node down.
Depths(A, n) ==
  Iterate(LAMBDA B, next : [B EXCEPT ![next] = B[B[next]] + 1],
           [A EXCEPT ![n - 2] = 0], [k \in 1..n - 2 |-> n - 2 - k])

\* The third phase: at each depth the nodes that are not internal are leaves.
Leaves(A, n) ==
  LET step(t) ==
        With(Cardinality({k \in 0..t.root : \A i \in k..t.root : t.A[i] = t.dpth}),
          LAMBDA used : LET free == t.avbl - used IN
            [A |-> Tab([k \in DOMAIN t.A |-> IF k \in t.next - free + 1..t.next
                                           THEN t.dpth ELSE t.A[k]]),
             root |-> t.root - used, next |-> t.next - free,
             avbl |-> 2 * used, dpth |-> t.dpth + 1])
  IN Repeat(LAMBDA t : t.avbl > 0, step,
            [A |-> A, root |-> n - 2, next |-> n - 1, avbl |-> 1, dpth |-> 0], 5).A

\* The code length of each item of A, weights in ascending order.
MinimumRedundancy(A, n) ==
  CASE n = 0 -> A
    [] n = 1 -> [A EXCEPT ![0] = 1]
    [] OTHER -> Leaves(Depths(Combine(A, n), n), n)

\* Mutant: the shorter code stays beside the two in which it is split.
Bug_Rebalance(num, limit, excess) ==
  LET step(m, k) ==
        LET i == Max({j \in 1..limit - 1 : m[j] # 0} \cup {1})
        IN [m EXCEPT ![limit] = @ - 1, ![i + 1] = @ + 1]
  IN Iterate(step, num, [k \in 1..excess |-> k])

\* While the lengths use up more than the code space: one code of the longest
\* length goes, and the longest shorter one is split in two.
Rebalance(num, limit, excess) ==
  LET step(m, k) ==
        LET some == {i \in 1..limit - 1 : m[i] # 0}
            less == [m EXCEPT ![limit] = @ - 1]
        IN IF some = {} THEN less
           ELSE [less EXCEPT ![Max(some)] = @ - 1, ![Max(some) + 1] = @ + 2]
  IN Iterate(step, num, [k \in 1..excess |-> k])

\* num[i] is the number of codes of i bits.
EnforceMaxCodeSize(lengths, used, limit) ==
  LET longer == [k \in 1..MAX_SUPPORTED_HUFF_CODESIZE - limit + 1 |-> limit + k - 1]
      total(cut) == Iterate(LAMBDA a, i : a + cut[i] * 2^(limit - i), 0,
                            [k \in 1..limit |-> k])
  IN With(lengths, LAMBDA num : IF used <= 1 THEN num ELSE
       With([num EXCEPT ![limit] = Iterate(LAMBDA a, i : a + num[i], 0, longer)],
            LAMBDA cut : Rebalance(cut, limit, total(cut) - 2^limit)))

NumCodes(lengths) ==
  With(lengths, LAMBDA l : Tab([i \in 1..MAX_SUPPORTED_HUFF_CODESIZE |->
                                  Cardinality({k \in DOMAIN l : l[k] = i})]))

\* The n items of syms, by ascending frequency, get the sizes that num counts,
\* the longest first.
SizesOf(syms, num, limit, count) ==
  LET upTo(i) == Iterate(LAMBDA a, j : a + num[j], 0, [k \in 1..i |-> k])
      size(ends, k) == CHOOSE i \in 1..limit :
                         Len(syms) - k \in ends[i - 1]..ends[i] - 1
      place(s) == CHOOSE k \in 1..Len(syms) : syms[k].sym = s
  IN With(Tab([i \in 0..limit |-> upTo(i)]), LAMBDA ends :
       Tab([s \in DOMAIN count |-> IF count[s] = 0 THEN 0 ELSE size(ends, place(s))]))

\* m_huff_code_sizes of a dynamic table: freq[s] is the frequency of symbol s.
CodeSizes(freq, limit) ==
  LET used(count) == SelectSeq([s \in 1..Cardinality(DOMAIN count) |-> s - 1],
                               LAMBDA s : count[s] # 0)
      items(count) == With(used(count), LAMBDA u :
                        [k \in DOMAIN u |-> [key |-> U16(count[u[k]]), sym |-> u[k]]])
      lengths(syms) == MinimumRedundancy(
                         Array([k \in DOMAIN syms |-> syms[k].key]), Len(syms))
  IN With(freq, LAMBDA count :
       With(RadixSort(Tab(items(count))), LAMBDA syms :
         With(EnforceMaxCodeSize(NumCodes(lengths(syms)), Len(syms), limit),
              LAMBDA num : SizesOf(syms, num, limit, count))))

\* m_huff_codes: the codes in canonical order, here as their bits in the order
\* in which they are stored (the code reverses each code for that).
Codes(lengths, limit) ==
  LET first(num) == Iterate(LAMBDA f, i : Append(f, 2 * (f[i - 1] + num[i - 1])),
                            <<0>>, [k \in 1..limit - 1 |-> k + 1])
      code(sizes, next, s) ==
        next[sizes[s]] + Cardinality({r \in DOMAIN sizes : r < s /\ sizes[r] = sizes[s]})
  IN With(lengths, LAMBDA sizes : With(first(NumCodes(sizes)), LAMBDA next :
       Tab([s \in {r \in DOMAIN sizes : sizes[r] # 0} |->
              Reverse(BitsOf(code(sizes, next, s), sizes[s]))])))
====
