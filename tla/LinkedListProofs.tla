--------------------------- MODULE LinkedListProofs ---------------------------
(***************************************************************************)
(* The list of list.c is linked as it should be, uses no released node and *)
(* loses none, and implements the sequence of ListSpec, for any heap and   *)
(* any values.  The proof follows the nodes of the list in the history     *)
(* variable spine: a call or a collector that runs stands at a known place *)
(* of it.                                                                  *)
(***************************************************************************)
EXTENDS LinkedList, SequenceTheorems, TLAPS

\* The addresses s form a list in heap h.
Chain(h, s) ==
    /\ \A i \in 1 .. Len(s) :
        /\ h[s[i]] # Released
        /\ h[s[i]].next = IF i = Len(s) THEN Null ELSE s[i + 1]
    /\ \A i, j \in 1 .. Len(s) : s[i] = s[j] => i = j
    /\ \A i \in 1 .. Len(s) - 1 : h[s[i]].data \in Val

Heap == [Addr -> Node \cup {Released}]

-----------------------------------------------------------------------------
(* Sequences.                                                              *)

\* list_delete: what comes after the deleted node moves up by one.
LEMMA RemoveAtElements ==
    ASSUME NEW S, NEW s \in Seq(S), NEW i \in 1 .. Len(s)
    PROVE  /\ RemoveAt(s, i) \in Seq(S)
           /\ Len(RemoveAt(s, i)) = Len(s) - 1
           /\ \A j \in 1 .. Len(s) - 1 :
                 RemoveAt(s, i)[j] = IF j < i THEN s[j] ELSE s[j + 1]
<1> DEFINE a == SubSeq(s, 1, i - 1)
           b == SubSeq(s, i + 1, Len(s))
<1>1. /\ a \in Seq(S) /\ Len(a) = i - 1
      /\ \A j \in 1 .. i - 1 : a[j] = s[j]
    <2>1. \A j \in 1 .. i - 1 : s[j] \in S
        OBVIOUS
    <2> QED
        BY <2>1, SubSeqProperties
<1>2. /\ b \in Seq(S) /\ Len(b) = Len(s) - i
      /\ \A j \in 1 .. Len(s) - i : b[j] = s[i + j]
    <2>1. \A j \in i + 1 .. Len(s) : s[j] \in S
        OBVIOUS
    <2> QED
        BY <2>1, SubSeqProperties
<1>3. RemoveAt(s, i) = a \o b
    BY DEF RemoveAt
<1> HIDE DEF a, b
<1>4. /\ a \o b \in Seq(S)
      /\ Len(a \o b) = Len(a) + Len(b)
      /\ \A j \in 1 .. Len(a) + Len(b) :
            (a \o b)[j] = IF j <= Len(a) THEN a[j] ELSE b[j - Len(a)]
    BY <1>1, <1>2, ConcatProperties
<1> QED
    BY <1>1, <1>2, <1>3, <1>4

\* list_add_start: the new node comes first.
LEMMA PushElements ==
    ASSUME NEW S, NEW s \in Seq(S), NEW e \in S
    PROVE  /\ <<e>> \o s \in Seq(S)
           /\ Len(<<e>> \o s) = Len(s) + 1
           /\ \A j \in 1 .. Len(s) + 1 : (<<e>> \o s)[j] = IF j = 1 THEN e ELSE s[j - 1]
<1>1. <<e>> \in Seq(S) /\ Len(<<e>>) = 1 /\ <<e>>[1] = e
    OBVIOUS
<1> QED
    BY <1>1, ConcatProperties

\* The nodes before a place.
LEMMA PrefixElements ==
    ASSUME NEW S, NEW s \in Seq(S), NEW n \in 0 .. Len(s)
    PROVE  /\ SubSeq(s, 1, n) \in Seq(S) /\ Len(SubSeq(s, 1, n)) = n
           /\ \A j \in 1 .. n : SubSeq(s, 1, n)[j] = s[j]
<1>1. \A j \in 1 .. n : s[j] \in S
    OBVIOUS
<1> QED
    BY <1>1, SubSeqProperties

\* list_slice: the first n nodes and a new sentinel.
LEMMA CutElements ==
    ASSUME NEW S, NEW s \in Seq(S), NEW n \in 0 .. Len(s), NEW e \in S
    PROVE  /\ Append(SubSeq(s, 1, n), e) \in Seq(S)
           /\ Len(Append(SubSeq(s, 1, n), e)) = n + 1
           /\ \A j \in 1 .. n + 1 :
                 Append(SubSeq(s, 1, n), e)[j] = IF j <= n THEN s[j] ELSE e
<1> DEFINE a == SubSeq(s, 1, n)
<1>1. a \in Seq(S) /\ Len(a) = n /\ \A j \in 1 .. n : a[j] = s[j]
    BY PrefixElements
<1> HIDE DEF a
<1>2. Append(a, e) \in Seq(S) /\ Len(Append(a, e)) = n + 1
      /\ \A j \in 1 .. n + 1 : Append(a, e)[j] = IF j <= n THEN a[j] ELSE e
    BY <1>1, AppendProperties
<1> QED
    BY <1>1, <1>2 DEF a

\* The sentinel alone.
LEMMA LastElement ==
    ASSUME NEW S, NEW s \in Seq(S), NEW n \in 1 .. Len(s)
    PROVE  SubSeq(s, n, n) \in Seq(S) /\ Len(SubSeq(s, n, n)) = 1
           /\ SubSeq(s, n, n)[1] = s[n]
<1>1. n \in Int /\ n <= n /\ n - n + 1 = 1 /\ n + 1 - 1 = n
    OBVIOUS
<1>2. \A j \in n .. n : s[j] \in S
    OBVIOUS
<1>3. /\ SubSeq(s, n, n) \in Seq(S)
      /\ Len(SubSeq(s, n, n)) = IF n <= n THEN n - n + 1 ELSE 0
      /\ \A j \in 1 .. n - n + 1 : SubSeq(s, n, n)[j] = s[n + j - 1]
    BY ONLY <1>1, <1>2, SubSeqProperties
<1>4. 1 \in 1 .. n - n + 1
    BY <1>1
<1> QED
    BY <1>1, <1>3, <1>4

\* list_add_last: the new node comes before the sentinel.
LEMMA InsertAtElements ==
    ASSUME NEW S, NEW s \in Seq(S), s # <<>>, NEW e \in S
    PROVE  /\ InsertAt(s, Len(s), e) \in Seq(S)
           /\ Len(InsertAt(s, Len(s), e)) = Len(s) + 1
           /\ \A j \in 1 .. Len(s) + 1 :
                 InsertAt(s, Len(s), e)[j] = IF j < Len(s) THEN s[j]
                                             ELSE IF j = Len(s) THEN e ELSE s[Len(s)]
<1> DEFINE a == SubSeq(s, 1, Len(s) - 1) \o <<e>>
           b == SubSeq(s, Len(s), Len(s))
<1>0. Len(s) \in Nat \ {0} /\ s[Len(s)] \in S
    OBVIOUS
<1>1. SubSeq(s, 1, Len(s) - 1) \in Seq(S) /\ Len(SubSeq(s, 1, Len(s) - 1)) = Len(s) - 1
      /\ \A j \in 1 .. Len(s) - 1 : SubSeq(s, 1, Len(s) - 1)[j] = s[j]
    <2>1. Len(s) - 1 \in 0 .. Len(s)
        BY <1>0
    <2> QED
        BY <2>1, PrefixElements
<1>2. b \in Seq(S) /\ Len(b) = 1 /\ b[1] = s[Len(s)]
    BY <1>0, LastElement
<1>3. a \in Seq(S) /\ Len(a) = Len(s)
      /\ \A j \in 1 .. Len(s) : a[j] = IF j < Len(s) THEN s[j] ELSE e
    <2>1. <<e>> \in Seq(S) /\ Len(<<e>>) = 1 /\ <<e>>[1] = e
        OBVIOUS
    <2> QED
        BY <1>0, <1>1, <2>1, ConcatProperties
<1>4. InsertAt(s, Len(s), e) = a \o b
    BY DEF InsertAt
<1> HIDE DEF a, b
<1>5. a \o b \in Seq(S) /\ Len(a \o b) = Len(a) + Len(b)
      /\ \A j \in 1 .. Len(a) + Len(b) :
            (a \o b)[j] = IF j <= Len(a) THEN a[j] ELSE b[j - Len(a)]
    <2>1. a \in Seq(S) /\ b \in Seq(S)
        BY <1>2, <1>3
    <2> QED
        BY ONLY <2>1, ConcatProperties
<1> QED
    BY <1>0, <1>2, <1>3, <1>4, <1>5

-----------------------------------------------------------------------------
(* Heaps.                                                                  *)

\* list_add_start keeps the chain.
LEMMA PushChain ==
    ASSUME ListAssumption, NEW h \in Heap, NEW s \in Seq(Addr), s # <<>>, Chain(h, s),
           NEW a \in Addr, h[a] = Released, NEW v \in Val
    PROVE  LET g == [h EXCEPT ![a] = [next |-> s[1], data |-> v]]
           IN  g \in Heap /\ Chain(g, <<a>> \o s)
<1> DEFINE g == [h EXCEPT ![a] = [next |-> s[1], data |-> v]]
           r == <<a>> \o s
<1>1. r \in Seq(Addr) /\ Len(r) = Len(s) + 1
      /\ \A j \in 1 .. Len(s) + 1 : r[j] = IF j = 1 THEN a ELSE s[j - 1]
    BY PushElements
<1>2. Len(s) \in Nat /\ Len(s) > 0 /\ \A i \in 1 .. Len(s) : s[i] \in Addr /\ s[i] # a
    BY DEF Chain
<1>3. g \in Heap
    BY <1>2 DEF Heap, Node
<1>4. g[a] # Released /\ g[a].next = s[1] /\ g[a].data \in Val
    BY DEF Heap, Released, ListAssumption
<1>5. \A i \in 1 .. Len(s) : g[s[i]] = h[s[i]]
    BY <1>2 DEF Heap
<1> HIDE DEF g, r
<1>6. \A i \in 1 .. Len(r) :
        g[r[i]] # Released /\ g[r[i]].next = IF i = Len(r) THEN Null ELSE r[i + 1]
    <2> TAKE i \in 1 .. Len(r)
    <2>1. CASE i = 1
        <3>1. r[i] = a /\ r[i + 1] = s[1] /\ i # Len(r)
            BY <1>1, <1>2, <2>1
        <3> QED
            BY <3>1, <1>4
    <2>2. CASE i > 1
        <3>1. i - 1 \in 1 .. Len(s) /\ r[i] = s[i - 1] /\ g[s[i - 1]] = h[s[i - 1]]
            BY <1>1, <1>2, <1>5, <2>2
        <3>2. i # Len(r) => i - 1 # Len(s) /\ r[i + 1] = s[(i - 1) + 1]
            BY <1>1, <1>2, <2>2
        <3>3. h[s[i - 1]] # Released
              /\ h[s[i - 1]].next = IF i - 1 = Len(s) THEN Null ELSE s[(i - 1) + 1]
            BY <3>1 DEF Chain
        <3>4. i = Len(r) <=> i - 1 = Len(s)
            BY <1>1, <1>2
        <3> QED
            BY <3>1, <3>2, <3>3, <3>4
    <2> QED
        BY <2>1, <2>2, <1>1, <1>2
<1>7. \A i, j \in 1 .. Len(r) : r[i] = r[j] => i = j
    <2> SUFFICES ASSUME NEW i \in 1 .. Len(r), NEW j \in 1 .. Len(r), r[i] = r[j]
                 PROVE  i = j
        OBVIOUS
    <2>1. CASE i > 1 /\ j > 1
        <3>1. i - 1 \in 1 .. Len(s) /\ j - 1 \in 1 .. Len(s) /\ s[i - 1] = s[j - 1]
            BY <1>1, <1>2, <2>1
        <3>2. i - 1 = j - 1
            BY ONLY <3>1, Chain(h, s) DEF Chain
        <3> QED
            BY <3>2, <1>1, <1>2
    <2>2. CASE i = 1
        BY <2>2, <1>1, <1>2
    <2>3. CASE j = 1
        BY <2>3, <1>1, <1>2
    <2> QED
        BY <2>1, <2>2, <2>3, <1>1, <1>2
<1>8. \A i \in 1 .. Len(r) - 1 : g[r[i]].data \in Val
    <2> TAKE i \in 1 .. Len(r) - 1
    <2>1. CASE i = 1
        BY <2>1, <1>1, <1>2, <1>4
    <2>2. CASE i > 1
        <3>1. i - 1 \in 1 .. Len(s) - 1 /\ r[i] = s[i - 1] /\ g[s[i - 1]] = h[s[i - 1]]
            BY <1>1, <1>2, <1>5, <2>2
        <3> QED
            BY <3>1 DEF Chain
    <2> QED
        BY <2>1, <2>2, <1>1, <1>2
<1>9. Chain(g, r)
    BY <1>6, <1>7, <1>8 DEF Chain
<1> QED
    BY <1>3, <1>9 DEF g, r

\* list_add_last keeps it.
LEMMA InsertChain ==
    ASSUME ListAssumption, NEW h \in Heap, NEW s \in Seq(Addr), Len(s) >= 2,
           Chain(h, s), NEW a \in Addr, h[a] = Released, NEW v \in Val
    PROVE  LET g == [h EXCEPT ![a] = [next |-> s[Len(s)], data |-> v],
                              ![s[Len(s) - 1]].next = a]
           IN  g \in Heap /\ Chain(g, InsertAt(s, Len(s), a))
<1> DEFINE n == Len(s)
           g == [h EXCEPT ![a] = [next |-> s[n], data |-> v], ![s[n - 1]].next = a]
           r == InsertAt(s, n, a)
<1>1. r \in Seq(Addr) /\ Len(r) = n + 1
      /\ \A j \in 1 .. n + 1 : r[j] = IF j < n THEN s[j] ELSE IF j = n THEN a ELSE s[n]
    BY InsertAtElements
<1>2. n \in Nat /\ n >= 2 /\ \A i \in 1 .. n : s[i] \in Addr /\ s[i] # a
    BY DEF Chain
<1>3. h[s[n - 1]] \in Node /\ h[s[n - 1]].data \in Val
    BY <1>2 DEF Chain, Heap
<1>4. g[a] = [next |-> s[n], data |-> v]
      /\ g[s[n - 1]] = [next |-> a, data |-> h[s[n - 1]].data]
      /\ \A b \in Addr \ {a, s[n - 1]} : g[b] = h[b]
    BY <1>2, <1>3 DEF Heap, Node
<1>5. g \in Heap
    BY <1>2, <1>3 DEF Heap, Node
<1> HIDE DEF g, r, n
<1>6. \A i \in 1 .. n : i # n - 1 => g[s[i]] = h[s[i]]
    BY <1>2, <1>4 DEF Chain, n
<1>7. \A i \in 1 .. n + 1 :
        g[r[i]] # Released /\ g[r[i]].next = IF i = n + 1 THEN Null ELSE r[i + 1]
    <2> TAKE i \in 1 .. n + 1
    <2>1. CASE i < n - 1
        BY <2>1, <1>1, <1>2, <1>6 DEF Chain, n
    <2>2. CASE i = n - 1
        <3>1. r[i] = s[n - 1] /\ r[i + 1] = a /\ i # n + 1
            BY <2>2, <1>1, <1>2
        <3>2. g[s[n - 1]] # Released
            BY <1>4 DEF Released, ListAssumption
        <3> QED
            BY <3>1, <3>2, <1>4
    <2>3. CASE i = n
        BY <2>3, <1>1, <1>2, <1>4 DEF Released, ListAssumption
    <2>4. CASE i = n + 1
        BY <2>4, <1>1, <1>2, <1>6 DEF Chain, n
    <2> QED
        BY <2>1, <2>2, <2>3, <2>4, <1>2
<1>8. \A i, j \in 1 .. n + 1 : r[i] = r[j] => i = j
    BY <1>1, <1>2 DEF Chain, n
<1>9. \A i \in 1 .. n : g[r[i]].data \in Val
    <2> TAKE i \in 1 .. n
    <2>1. CASE i = n
        BY <2>1, <1>1, <1>2, <1>4
    <2>2. CASE i # n
        <3>1. r[i] = s[i] /\ h[s[i]].data \in Val
            BY <2>2, <1>1, <1>2 DEF Chain, n
        <3>2. CASE i = n - 1
            BY <3>1, <3>2, <1>4
        <3>3. CASE i # n - 1
            BY <3>1, <3>3, <1>6
        <3> QED
            BY <3>2, <3>3
    <2> QED
        BY <2>1, <2>2
<1>10. Chain(g, r)
    BY <1>1, <1>2, <1>7, <1>8, <1>9 DEF Chain
<1> QED
    BY <1>5, <1>10 DEF g, r, n

\* list_delete keeps it, in the middle of the list ...
LEMMA RemoveChain ==
    ASSUME ListAssumption, NEW h \in Heap, NEW s \in Seq(Addr), Chain(h, s),
           NEW k \in 2 .. Len(s) - 1
    PROVE  LET g == [h EXCEPT ![s[k - 1]].next = s[k + 1], ![s[k]] = Released]
           IN  g \in Heap /\ Chain(g, RemoveAt(s, k))
<1> DEFINE n == Len(s)
           g == [h EXCEPT ![s[k - 1]].next = s[k + 1], ![s[k]] = Released]
           r == RemoveAt(s, k)
<1>1. r \in Seq(Addr) /\ Len(r) = n - 1
      /\ \A j \in 1 .. n - 1 : r[j] = IF j < k THEN s[j] ELSE s[j + 1]
    <2>1. k \in 1 .. Len(s)
        OBVIOUS
    <2> QED
        BY <2>1, RemoveAtElements
<1>2. n \in Nat /\ \A i \in 1 .. n : s[i] \in Addr
    OBVIOUS
<1>3. h[s[k - 1]] \in Node /\ h[s[k - 1]].data \in Val /\ s[k] # s[k - 1]
    BY <1>2 DEF Chain, Heap
<1>4. g[s[k - 1]] = [next |-> s[k + 1], data |-> h[s[k - 1]].data]
      /\ \A b \in Addr \ {s[k], s[k - 1]} : g[b] = h[b]
    BY <1>2, <1>3 DEF Heap, Node
<1>5. g \in Heap
    BY <1>2, <1>3 DEF Heap, Node
<1> HIDE DEF g, r, n
<1>6. \A i \in 1 .. n : i # k - 1 /\ i # k => g[s[i]] = h[s[i]]
    BY <1>2, <1>4 DEF Chain, n
<1>7. \A i \in 1 .. n - 1 :
        g[r[i]] # Released /\ g[r[i]].next = IF i = n - 1 THEN Null ELSE r[i + 1]
    <2> TAKE i \in 1 .. n - 1
    <2>1. CASE i < k - 1
        <3>1. r[i] = s[i] /\ r[i + 1] = s[i + 1] /\ g[s[i]] = h[s[i]]
            <4>1. i \in 1 .. n /\ i < k /\ i + 1 < k /\ i + 1 \in 1 .. n - 1
                  /\ i # k - 1 /\ i # k
                BY <2>1, <1>2 DEF n
            <4> QED
                BY <4>1, <1>1, <1>6
        <3> QED
            BY <2>1, <3>1, <1>2 DEF Chain, n
    <2>2. CASE i = k - 1
        <3>1. i # n - 1 => r[i + 1] = s[k + 1]
            BY <2>2, <1>1, <1>2
        <3>2. r[i] = s[k - 1] /\ i # n - 1
            <4>1. k <= n - 1 /\ k \in Nat /\ n \in Nat
                BY DEF n
            <4>2. i < k /\ i # n - 1
                BY <4>1, <2>2
            <4> QED
                BY <4>2, <2>2, <1>1
        <3>3. s[k + 1] \in Addr /\ g[s[k - 1]] # Released
            BY <1>2, <1>4 DEF Released, ListAssumption, n
        <3> QED
            BY <3>1, <3>2, <3>3, <1>4
    <2>3. CASE i > k - 1
        <3>1. i + 1 \in 1 .. n /\ r[i] = s[i + 1] /\ g[s[i + 1]] = h[s[i + 1]]
            BY <2>3, <1>1, <1>2, <1>6
        <3>2. i # n - 1 => r[i + 1] = s[(i + 1) + 1]
            BY <2>3, <1>1, <1>2
        <3>3. h[s[i + 1]] # Released
              /\ h[s[i + 1]].next = IF i + 1 = n THEN Null ELSE s[(i + 1) + 1]
            BY <3>1 DEF Chain, n
        <3>4. i + 1 = n <=> i = n - 1
            BY <1>2
        <3> QED
            BY <3>1, <3>2, <3>3, <3>4
    <2> QED
        BY <2>1, <2>2, <2>3, <1>2
<1>8. \A i, j \in 1 .. n - 1 : r[i] = r[j] => i = j
    BY <1>1, <1>2 DEF Chain, n
<1>9. \A i \in 1 .. n - 2 : g[r[i]].data \in Val
    BY <1>1, <1>2, <1>3, <1>4, <1>6 DEF Chain, n
<1>10. Chain(g, r)
    BY <1>1, <1>2, <1>7, <1>8, <1>9 DEF Chain
<1> QED
    BY <1>5, <1>10 DEF g, r, n

\* ... and at its start; list_free does the same.
LEMMA TailChain ==
    ASSUME NEW h \in Heap, NEW s \in Seq(Addr), Chain(h, s), s # <<>>
    PROVE  LET g == [h EXCEPT ![s[1]] = Released]
           IN  g \in Heap /\ Chain(g, Tail(s))
<1> DEFINE g == [h EXCEPT ![s[1]] = Released]
           r == Tail(s)
           n == Len(s)
<1>1. g \in Heap
    BY DEF Heap
<1>2. r \in Seq(Addr) /\ Len(r) = n - 1 /\ \A i \in 1 .. n - 1 : r[i] = s[i + 1]
    OBVIOUS
<1>3. n \in Nat /\ n > 0 /\ \A i \in 1 .. n : s[i] \in Addr
    OBVIOUS
<1>4. \A i \in 2 .. n : g[s[i]] = h[s[i]]
    BY <1>3 DEF Chain, Heap
<1> HIDE DEF g, r, n
<1>5. \A i \in 1 .. n - 1 :
        g[r[i]] # Released /\ g[r[i]].next = IF i = n - 1 THEN Null ELSE r[i + 1]
    <2> TAKE i \in 1 .. n - 1
    <2>1. i + 1 \in 2 .. n /\ r[i] = s[i + 1] /\ g[s[i + 1]] = h[s[i + 1]]
        BY <1>2, <1>3, <1>4
    <2>2. i # n - 1 => r[i + 1] = s[(i + 1) + 1]
        BY <1>2, <1>3
    <2>3. h[s[i + 1]] # Released
          /\ h[s[i + 1]].next = IF i + 1 = n THEN Null ELSE s[(i + 1) + 1]
        BY <2>1 DEF Chain, n
    <2>4. i + 1 = n <=> i = n - 1
        BY <1>3
    <2> QED
        BY <2>1, <2>2, <2>3, <2>4
<1>6. \A i, j \in 1 .. n - 1 : r[i] = r[j] => i = j
    <2> SUFFICES ASSUME NEW i \in 1 .. n - 1, NEW j \in 1 .. n - 1, r[i] = r[j]
                 PROVE  i = j
        OBVIOUS
    <2>1. i + 1 \in 1 .. n /\ j + 1 \in 1 .. n /\ s[i + 1] = s[j + 1]
        BY <1>2, <1>3
    <2>2. i + 1 = j + 1
        BY ONLY <2>1, Chain(h, s) DEF Chain, n
    <2> QED
        BY <2>2, <1>3
<1>7. \A i \in 1 .. n - 2 : g[r[i]].data \in Val
    <2> TAKE i \in 1 .. n - 2
    <2>1. i + 1 \in 1 .. n - 1 /\ i + 1 \in 2 .. n /\ r[i] = s[i + 1]
        BY <1>2, <1>3
    <2> QED
        BY <2>1, <1>4 DEF Chain, n
<1>8. Chain(g, r)
    BY <1>2, <1>3, <1>5, <1>6, <1>7 DEF Chain
<1> QED
    BY <1>1, <1>8 DEF g, r

\* list_slice leaves a chain of the first n nodes.
LEMMA CutChain ==
    ASSUME ListAssumption, NEW h \in Heap, NEW s \in Seq(Addr), Chain(h, s),
           NEW n \in 1 .. Len(s) - 1, NEW a \in Addr, h[a] = Released
    PROVE  LET g == [h EXCEPT ![a] = Sentinel, ![s[n]].next = a]
           IN  g \in Heap /\ Chain(g, Append(SubSeq(s, 1, n), a))
<1> DEFINE g == [h EXCEPT ![a] = Sentinel, ![s[n]].next = a]
           r == Append(SubSeq(s, 1, n), a)
<1>1. r \in Seq(Addr) /\ Len(r) = n + 1
      /\ \A j \in 1 .. n + 1 : r[j] = IF j <= n THEN s[j] ELSE a
    BY CutElements
<1>2. Len(s) \in Nat /\ n < Len(s) /\ \A i \in 1 .. Len(s) : s[i] \in Addr /\ s[i] # a
    BY DEF Chain
<1>3. h[s[n]] \in Node /\ h[s[n]].data \in Val
    BY <1>2 DEF Chain, Heap
<1>4. g[a] = Sentinel
      /\ g[s[n]] = [next |-> a, data |-> h[s[n]].data]
      /\ \A b \in Addr \ {a, s[n]} : g[b] = h[b]
    BY <1>2, <1>3 DEF Heap, Node
<1>5. g \in Heap
    BY <1>2, <1>3 DEF Heap, Node, Sentinel
<1> HIDE DEF g, r
<1>6. \A i \in 1 .. n - 1 : g[s[i]] = h[s[i]]
    BY <1>2, <1>4 DEF Chain
<1>7. \A i \in 1 .. n + 1 :
        g[r[i]] # Released /\ g[r[i]].next = IF i = n + 1 THEN Null ELSE r[i + 1]
    <2> TAKE i \in 1 .. n + 1
    <2>1. CASE i < n
        BY <2>1, <1>1, <1>2, <1>6 DEF Chain
    <2>2. CASE i = n
        BY <2>2, <1>1, <1>2, <1>4, <1>3 DEF Released, ListAssumption
    <2>3. CASE i = n + 1
        BY <2>3, <1>1, <1>2, <1>4 DEF Released, Sentinel
    <2> QED
        BY <2>1, <2>2, <2>3, <1>2
<1>8. \A i, j \in 1 .. n + 1 : r[i] = r[j] => i = j
    BY <1>1, <1>2 DEF Chain
<1>9. \A i \in 1 .. n : g[r[i]].data \in Val
    BY <1>1, <1>2, <1>3, <1>4, <1>6 DEF Chain
<1>10. Chain(g, r)
    BY <1>1, <1>2, <1>7, <1>8, <1>9 DEF Chain
<1> QED
    BY <1>5, <1>10 DEF g, r

-----------------------------------------------------------------------------
(* The inductive invariant.                                                *)

\* The list is a chain from its head, whose nodes are all there is besides what
\* list_slice gave away.
Spine ==
    /\ Chain(heap, spine)
    /\ op # "gone" => spine # <<>>
    /\ op \notin {"free", "gone"} => head = spine[1]

Memory ==
    /\ \A a \in Addr : heap[a] # Released <=>
            a \in given \/ \E i \in 1 .. Len(spine) : spine[i] = a
    /\ \A i \in 1 .. Len(spine) : spine[i] \notin given
    /\ op = "gone" => spine = <<>>

\* Where a call stands that counts the nodes it passes.
Counting ==
    /\ op \in {"add_last", "find", "get", "delete", "slice"} =>
        /\ index + 1 \in 1 .. Len(spine)
        /\ curr = spine[index + 1]
        /\ index > 0 => prev = spine[index]
    /\ op = "add_last" => arg \in Val /\ index + 2 <= Len(spine)
    /\ op = "delete" => arg > 0
    /\ op = "slice" => arg # 0

\* Where the others stand.
Copying ==
    /\ op = "to_array" => \E i \in 1 .. Len(spine) : curr = spine[i]
    /\ op = "free" => curr = spine[1]

\* Where a collector stands, also while its call of list_delete runs.
Collector ==
    iter # Null =>
        /\ op \in {"idle", "delete"}
        /\ op = "idle" => count + 1 \in 1 .. Len(spine) /\ iter = spine[count + 1]
        /\ op = "delete" => /\ arg = count /\ index <= count
                            /\ count + 2 \in 1 .. Len(spine)
                            /\ iter = spine[count + 2]

IInv == TypeOK /\ Spine /\ Memory /\ Counting /\ Copying /\ Collector

LEMMA InitIInv == ListAssumption /\ Init => IInv
<1> SUFFICES ASSUME ListAssumption, Init PROVE IInv
    OBVIOUS
<1>1. spine = <<head>> /\ head \in Addr /\ heap[head] = Sentinel
      /\ \A a \in Addr \ {head} : heap[a] = Released
    BY DEF Init
<1>2. Len(spine) = 1 /\ spine[1] = head /\ spine \in Seq(Addr)
    BY <1>1
<1>3. Sentinel # Released /\ Sentinel \in Node
    BY DEF Sentinel, Released, Node
<1>4. TypeOK
    BY <1>2, <1>3 DEF Init, TypeOK
<1>5. Spine
    BY <1>1, <1>2, <1>3 DEF Init, Spine, Chain, Sentinel
<1>6. Memory
    BY <1>1, <1>2, <1>3 DEF Init, Memory
<1> QED
    BY <1>4, <1>5, <1>6 DEF Init, IInv, Counting, Copying, Collector

\* Facts about the place spine[i] that most steps use.
LEMMA Places ==
    ASSUME ListAssumption, IInv
    PROVE  /\ heap \in Heap /\ spine \in Seq(Addr) /\ Len(spine) \in Nat
           /\ \A i \in 1 .. Len(spine) :
                /\ spine[i] \in Addr /\ spine[i] # Null
                /\ heap[spine[i]] \in Node
                /\ AtEnd(spine[i]) <=> i = Len(spine)
                /\ i < Len(spine) => /\ NextOf(spine[i]) = spine[i + 1]
                                     /\ heap[spine[i]].data \in Val
<1>1. heap \in Heap /\ spine \in Seq(Addr) /\ Len(spine) \in Nat
    BY DEF IInv, TypeOK, Heap
<1>2. \A i \in 1 .. Len(spine) : spine[i] \in Addr /\ spine[i] # Null
    BY <1>1 DEF ListAssumption
<1>3. \A i \in 1 .. Len(spine) : i < Len(spine) =>
        NextOf(spine[i]) = spine[i + 1] /\ ~AtEnd(spine[i])
    BY <1>1, <1>2 DEF IInv, Spine, Chain, NextOf, AtEnd
<1>4. AtEnd(spine[Len(spine)]) \/ Len(spine) = 0
    BY <1>1 DEF IInv, Spine, Chain, NextOf, AtEnd
<1>5. \A i \in 1 .. Len(spine) : heap[spine[i]] \in Node
    BY <1>1, <1>2 DEF IInv, Spine, Chain, Heap
<1>6. \A i \in 1 .. Len(spine) : i < Len(spine) => heap[spine[i]].data \in Val
    BY <1>1 DEF IInv, Spine, Chain
<1> QED
    BY <1>1, <1>2, <1>3, <1>4, <1>5, <1>6

-----------------------------------------------------------------------------
(* Steps that change no node.                                              *)

still == <<heap, head, spine, given>>

\* A call that returns leaves variables of their types.
LEMMA ReturnTypes ==
    ASSUME ListAssumption, IInv, heap' \in Heap, head' \in Addr, spine' \in Seq(Addr),
           given' \subseteq Addr, op' = "idle", Forget, UNCHANGED collector
    PROVE  TypeOK'
<1>1. heap' \in [Addr -> Node \cup {Released}]
    BY DEF Heap
<1>2. /\ arg' \in Int /\ curr' \in Addr \cup {Null} /\ prev' \in Addr \cup {Null}
      /\ index' \in Nat /\ array' \in Seq(Val)
    BY DEF Forget
<1>3. iter' \in Addr \cup {Null} /\ count' \in Nat /\ doomed' \subseteq Val
    BY DEF IInv, TypeOK, collector
<1> QED
    BY <1>1, <1>2, <1>3 DEF TypeOK

\* The parts of the invariant that are about nodes only.
LEMMA StillNodes ==
    ASSUME IInv, UNCHANGED still, op # "gone", op' # "gone",
           op = "free" => op' = "free"
    PROVE  Spine' /\ Memory'
    BY DEF IInv, Spine, Memory, still

\* A call begins at the head.
LEMMA EnterStep ==
    ASSUME ListAssumption, IInv, NEW name, NEW a, op = "idle", Enter(name, a),
           name \in {"find", "get", "slice", "free"}, a \in Int,
           name = "slice" => a # 0,
           iter = Null, UNCHANGED <<still, ret, collector>>
    PROVE  IInv'
<1>1. Spine' /\ Memory'
    BY StillNodes DEF Enter, still
<1>2. TypeOK'
    BY DEF IInv, TypeOK, Enter, still, collector
<1>3. 1 \in 1 .. Len(spine) /\ head = spine[1]
    BY Places DEF IInv, Spine
<1>4. Counting'
    BY <1>3 DEF Counting, Enter, still
<1>5. Copying' /\ Collector'
    BY <1>3 DEF Copying, Collector, Enter, still, collector
<1> QED
    BY <1>1, <1>2, <1>4, <1>5 DEF IInv

\* A loop goes on to the next node.
LEMMA AdvanceStep ==
    ASSUME ListAssumption, IInv, Advance, ~AtEnd(curr),
           op \in {"add_last", "find", "get", "delete", "slice"},
           op = "add_last" => ~AtEnd(NextOf(curr)),
           op = "delete" => index # arg
    PROVE  IInv'
<1>1. index + 1 \in 1 .. Len(spine) /\ curr = spine[index + 1] /\ index \in Nat
    BY DEF IInv, Counting, TypeOK
<1>2. index + 1 < Len(spine) /\ NextOf(curr) = spine[index + 2] /\ curr \in Addr
    BY <1>1, Places
<1>3. index + 2 \in 1 .. Len(spine) /\ spine[index + 2] \in Addr
    BY <1>1, <1>2, Places
<1>4. Spine' /\ Memory'
    BY StillNodes DEF Advance, still
<1>5. TypeOK'
    BY <1>1, <1>2, <1>3 DEF IInv, TypeOK, Advance, collector
<1>6. op = "add_last" => index + 3 <= Len(spine)
    BY <1>1, <1>2, <1>3, Places
<1>7. Counting'
    BY <1>1, <1>2, <1>3, <1>6 DEF IInv, Counting, Advance
<1>8. Copying' /\ Collector'
    BY <1>1 DEF IInv, TypeOK, Copying, Collector, Advance, collector
<1> QED
    BY <1>4, <1>5, <1>7, <1>8 DEF IInv

\* A call ends with an answer.
LEMMA AnswerStep ==
    ASSUME ListAssumption, IInv, NEW r, Answer(r), op \notin {"free", "gone"},
           op = "delete" /\ iter # Null => FALSE
    PROVE  IInv'
<1>1. Spine' /\ Memory'
    BY StillNodes DEF Answer, Return, still
<1>2. TypeOK'
    BY DEF IInv, TypeOK, Answer, Return, Forget, collector
<1>3. Counting' /\ Copying'
    BY DEF Counting, Copying, Answer, Return
<1>4. Collector'
    BY DEF IInv, Collector, Answer, Return, collector
<1> QED
    BY <1>1, <1>2, <1>3, <1>4 DEF IInv

LEMMA ToArrayStep ==
    ASSUME ListAssumption, IInv, ToArrayCall \/ ToArrayLoop
    PROVE  IInv'
<1>1. CASE ToArrayCall
    <2>1. Spine' /\ Memory'
        BY <1>1, StillNodes DEF ToArrayCall, Idle, still
    <2>2. 1 \in 1 .. Len(spine) /\ head = spine[1] /\ head \in Addr
        BY <1>1, Places DEF IInv, Spine, ToArrayCall, Idle
    <2>3. TypeOK'
        BY <1>1, <2>2 DEF IInv, TypeOK, ToArrayCall, collector
    <2>4. Counting' /\ Copying' /\ Collector'
        BY <1>1, <2>2 DEF Counting, Copying, Collector, ToArrayCall, Idle, collector
    <2> QED
        BY <2>1, <2>3, <2>4 DEF IInv
<1>2. CASE ToArrayLoop
    <2>1. Spine' /\ Memory'
        BY <1>2, StillNodes DEF ToArrayLoop, still
    <2>2. PICK i \in 1 .. Len(spine) : curr = spine[i]
        BY <1>2 DEF IInv, Copying, ToArrayLoop
    <2>3. i + 1 \in 1 .. Len(spine) /\ NextOf(curr) = spine[i + 1]
          /\ spine[i + 1] \in Addr /\ heap[curr].data \in Val
        BY <1>2, <2>2, Places DEF ToArrayLoop
    <2>4. array' \in Seq(Val)
        BY <1>2, <2>3 DEF IInv, TypeOK, ToArrayLoop
    <2>5. TypeOK'
        BY <1>2, <2>3, <2>4 DEF IInv, TypeOK, ToArrayLoop, collector
    <2>6. Copying'
        BY <1>2, <2>3 DEF Copying, ToArrayLoop
    <2>7. Counting' /\ Collector'
        BY <1>2 DEF IInv, Counting, Collector, ToArrayLoop, collector
    <2> QED
        BY <2>1, <2>5, <2>6, <2>7 DEF IInv
<1> QED
    BY <1>1, <1>2

\* A collector starts, keeps a node, or ends.
LEMMA CollectStep ==
    ASSUME ListAssumption, IInv,
           (\E D \in SUBSET Val : CollectCall(D)) \/ CollectKeep \/ CollectEnd
    PROVE  IInv'
<1>1. Spine' /\ Memory' /\ UNCHANGED <<heap, head, call, ret, spine, given>> /\ op = "idle"
    BY StillNodes DEF CollectCall, CollectKeep, CollectEnd, Idle, Collecting, still, call
<1>2. CASE \E D \in SUBSET Val : CollectCall(D)
    <2>1. 1 \in 1 .. Len(spine) /\ head = spine[1] /\ head \in Addr
        BY <1>1, Places DEF IInv, Spine
    <2>2. TypeOK'
        BY <1>1, <1>2, <2>1 DEF IInv, TypeOK, CollectCall, call
    <2>3. Collector'
        BY <1>1, <1>2, <2>1 DEF Collector, CollectCall, call
    <2> QED
        BY <1>1, <2>2, <2>3 DEF IInv, Counting, Copying, call
<1>3. CASE CollectKeep
    <2>1. count \in Nat /\ count + 1 \in 1 .. Len(spine) /\ iter = spine[count + 1]
        BY <1>3 DEF IInv, TypeOK, Collector, CollectKeep, Collecting
    <2>2. count + 2 \in 1 .. Len(spine) /\ NextOf(iter) = spine[count + 2]
          /\ spine[count + 2] \in Addr
        <3>1. count + 1 # Len(spine)
            BY <1>3, <2>1, Places DEF CollectKeep
        <3>2. count + 2 \in 1 .. Len(spine) /\ (count + 1) + 1 = count + 2
            BY <2>1, <3>1, Places
        <3> QED
            BY <2>1, <3>1, <3>2, Places
    <2>3. TypeOK'
        BY <1>1, <1>3, <2>1, <2>2 DEF IInv, TypeOK, CollectKeep, call
    <2>4. Collector'
        BY <1>1, <1>3, <2>1, <2>2 DEF Collector, CollectKeep, call
    <2> QED
        BY <1>1, <2>3, <2>4 DEF IInv, Counting, Copying, call
<1>4. CASE CollectEnd
    <2>1. TypeOK'
        BY <1>1, <1>4 DEF IInv, TypeOK, CollectEnd, call
    <2>2. Collector'
        BY <1>4 DEF Collector, CollectEnd
    <2> QED
        BY <1>1, <2>1, <2>2 DEF IInv, Counting, Copying, call
<1> QED
    BY <1>2, <1>3, <1>4

-----------------------------------------------------------------------------
(* Steps that allocate or release a node.                                  *)

\* No call runs in the next state, so that only the nodes count.
LEMMA AtRest ==
    ASSUME TypeOK', Spine', Memory', op' = "idle", iter' = Null
    PROVE  IInv'
    BY DEF IInv, Counting, Copying, Collector

LEMMA PushStep ==
    ASSUME ListAssumption, IInv, Idle, NEW v \in Val, Push(v)
    PROVE  IInv'
<1>1. PICK a \in Addr \ Allocated :
        /\ heap' = [heap EXCEPT ![a] = [next |-> head, data |-> v]]
        /\ head' = a
        /\ spine' = <<a>> \o spine
    BY DEF Push
<1>2. heap[a] = Released /\ a \in Addr
    BY <1>1 DEF Allocated
<1>3. head = spine[1] /\ spine # <<>> /\ Chain(heap, spine) /\ spine \in Seq(Addr)
    BY Places DEF IInv, Spine, Idle
<1>4. heap' \in Heap /\ Chain(heap', spine')
    BY <1>1, <1>2, <1>3, Places, PushChain
<1>5. /\ spine' \in Seq(Addr) /\ Len(spine') = Len(spine) + 1
      /\ \A j \in 1 .. Len(spine) + 1 : spine'[j] = IF j = 1 THEN a ELSE spine[j - 1]
    BY <1>1, <1>2, <1>3, PushElements
<1>6. UNCHANGED <<call, ret, collector, given>> /\ op = "idle" /\ iter = Null
    BY DEF Push, Idle
<1>7. TypeOK'
    BY <1>1, <1>2, <1>4, <1>5, <1>6 DEF IInv, TypeOK, Heap, call, collector
<1>8. Spine'
    BY <1>1, <1>4, <1>5, Places DEF Spine
<1>9. Memory'
    <2>1. \A b \in Addr : (\E i \in 1 .. Len(spine') : spine'[i] = b) <=>
            b = a \/ \E i \in 1 .. Len(spine) : spine[i] = b
        <3> TAKE b \in Addr
        <3>1. ASSUME NEW i \in 1 .. Len(spine), spine[i] = b
              PROVE  \E k \in 1 .. Len(spine') : spine'[k] = b
            <4>1. i + 1 \in 1 .. Len(spine') /\ spine'[i + 1] = spine[i]
                BY <1>5, Places
            <4> QED
                BY <3>1, <4>1
        <3>2. spine'[1] = a /\ 1 \in 1 .. Len(spine')
            BY <1>5, Places
        <3>3. ASSUME NEW k \in 1 .. Len(spine'), spine'[k] = b, b # a
              PROVE  \E i \in 1 .. Len(spine) : spine[i] = b
            <4>1. k - 1 \in 1 .. Len(spine) /\ spine[k - 1] = b
                BY <1>5, <3>3, Places
            <4> QED
                BY <4>1
        <3> QED
            BY <3>1, <3>2, <3>3
    <2>2. \A b \in Addr : heap'[b] # Released <=> b = a \/ heap[b] # Released
        BY <1>1, <1>2, <1>4, <1>5, Places DEF Heap, Released, ListAssumption
    <2>3. a \notin given
        BY <1>2 DEF IInv, Memory
    <2>4. \A i \in 1 .. Len(spine') : spine'[i] \notin given
        <3> TAKE i \in 1 .. Len(spine')
        <3>1. CASE i = 1
            BY <3>1, <1>5, <2>3, Places
        <3>2. CASE i > 1
            <4>1. i - 1 \in 1 .. Len(spine) /\ spine'[i] = spine[i - 1]
                BY <3>2, <1>5, Places
            <4> QED
                BY <4>1 DEF IInv, Memory
        <3> QED
            BY <3>1, <3>2, <1>5, Places
    <2> QED
        BY <2>1, <2>2, <2>4, <1>6 DEF IInv, Memory, call
<1> QED
    BY <1>6, <1>7, <1>8, <1>9, AtRest DEF call, collector

LEMMA AddLastStep ==
    ASSUME ListAssumption, IInv, AddLastEnd
    PROVE  IInv'
<1> DEFINE n == Len(spine)
<1>1. index \in Nat /\ index + 2 <= n /\ curr = spine[index + 1] /\ arg \in Val /\ n \in Nat
    BY Places DEF IInv, TypeOK, Counting, AddLastEnd
<1>2. index + 1 \in 1 .. n /\ index + 1 < n /\ index + 2 \in 1 .. n
    BY <1>1
<1>3. NextOf(curr) = spine[index + 2]
    <2>1. (index + 1) + 1 = index + 2
        BY <1>1
    <2> QED
        BY <1>1, <1>2, <2>1, Places
<1>4. index + 2 = n
    BY <1>2, <1>3, Places DEF AddLastEnd
<1>5. curr = spine[n - 1] /\ NextOf(curr) = spine[n] /\ n >= 2
    BY <1>1, <1>3, <1>4
<1>6. PICK a \in Addr \ Allocated :
        /\ heap' = [heap EXCEPT ![a] = [next |-> NextOf(curr), data |-> arg],
                                ![curr].next = a]
        /\ spine' = InsertAt(spine, Len(spine), a)
    BY DEF AddLastEnd
<1>7. heap[a] = Released /\ a \in Addr
    BY <1>6 DEF Allocated
<1>8. heap' \in Heap /\ Chain(heap', spine')
    <2>1. heap' = [heap EXCEPT ![a] = [next |-> spine[n], data |-> arg],
                               ![spine[n - 1]].next = a]
        BY <1>5, <1>6
    <2>2. heap \in Heap /\ spine \in Seq(Addr) /\ Chain(heap, spine)
        BY Places DEF IInv, Spine
    <2> QED
        <3>1. Len(spine) >= 2 /\ arg \in Val
            BY <1>1, <1>5
        <3>2. LET g == [heap EXCEPT ![a] = [next |-> spine[Len(spine)], data |-> arg],
                                    ![spine[Len(spine) - 1]].next = a]
              IN  g \in Heap /\ Chain(g, InsertAt(spine, Len(spine), a))
            BY ONLY ListAssumption, <1>7, <2>2, <3>1, InsertChain
        <3> QED
            BY <3>2, <2>1, <1>6
<1>9. /\ spine' \in Seq(Addr) /\ Len(spine') = n + 1
      /\ \A j \in 1 .. n + 1 :
            spine'[j] = IF j < n THEN spine[j] ELSE IF j = n THEN a ELSE spine[n]
    <2>1. spine \in Seq(Addr) /\ spine # <<>>
        BY <1>5, Places
    <2>2. /\ InsertAt(spine, Len(spine), a) \in Seq(Addr)
          /\ Len(InsertAt(spine, Len(spine), a)) = Len(spine) + 1
          /\ \A j \in 1 .. Len(spine) + 1 :
                InsertAt(spine, Len(spine), a)[j] =
                    IF j < Len(spine) THEN spine[j]
                    ELSE IF j = Len(spine) THEN a ELSE spine[Len(spine)]
        BY ONLY <1>7, <2>1, InsertAtElements
    <2> QED
        BY <1>6, <2>2
<1>10. op' = "idle" /\ Forget /\ op = "add_last" /\ iter' = Null
       /\ UNCHANGED <<head, ret, collector, given>>
    BY DEF IInv, Collector, AddLastEnd, Return, collector
<1>11. TypeOK'
    BY <1>8, <1>9, <1>10 DEF IInv, TypeOK, Heap, Forget, collector
<1>12. Spine'
    <2>1. head = spine[1] /\ spine'[1] = spine[1] /\ spine' # <<>>
        BY <1>5, <1>9, <1>10 DEF IInv, Spine
    <2> QED
        BY <1>8, <1>10, <2>1 DEF Spine
<1>13. Memory'
    <2>1. \A b \in Addr : (\E i \in 1 .. n + 1 : spine'[i] = b) <=>
            b = a \/ \E i \in 1 .. n : spine[i] = b
        <3> TAKE b \in Addr
        <3>1. ASSUME NEW i \in 1 .. n, spine[i] = b
              PROVE  \E k \in 1 .. n + 1 : spine'[k] = b
            <4>1. CASE i < n
                BY <4>1, <3>1, <1>1, <1>9
            <4>2. CASE i = n
                <5>1. n + 1 \in 1 .. n + 1 /\ spine'[n + 1] = b
                    BY <4>2, <3>1, <1>1, <1>9
                <5> QED
                    BY <5>1
            <4> QED
                BY <4>1, <4>2, <1>1
        <3>2. spine'[n] = a /\ n \in 1 .. n + 1
            BY <1>1, <1>5, <1>9
        <3>3. ASSUME NEW k \in 1 .. n + 1, spine'[k] = b, b # a
              PROVE  \E i \in 1 .. n : spine[i] = b
            <4>1. k # n /\ (k < n => spine[k] = b) /\ (k > n => spine[n] = b)
                BY <1>1, <1>5, <1>9, <3>3
            <4>2. n \in 1 .. n /\ (k < n => k \in 1 .. n)
                BY <1>1, <1>5
            <4> QED
                BY <4>1, <4>2, <1>1
        <3> QED
            BY <3>1, <3>2, <3>3
    <2>2. \A b \in Addr : heap'[b] # Released <=> b = a \/ heap[b] # Released
        <3>1. curr \in Addr /\ heap[curr] \in Node /\ curr # a /\ heap[curr].data \in Val
            BY <1>1, <1>2, <1>7, Places DEF IInv, Spine, Chain
        <3>2. heap'[a] # Released
            BY <1>1, <1>6, <1>7, <3>1, Places DEF Heap, Released, ListAssumption
        <3>3. heap[curr] # Released /\ heap'[curr].data = heap[curr].data
            BY <1>6, <1>7, <3>1, Places DEF Heap, Node, Released, ListAssumption
        <3>4. heap'[curr] # Released
            BY <3>1, <3>3 DEF Released, ListAssumption
        <3>5. \A b \in Addr \ {a, curr} : heap'[b] = heap[b]
            BY <1>6, Places DEF Heap
        <3> QED
            BY <3>2, <3>3, <3>4, <3>5
    <2>3. a \notin given
        BY <1>7 DEF IInv, Memory
    <2>4. \A i \in 1 .. n + 1 : spine'[i] \notin given
        BY <1>1, <1>5, <1>9, <2>3 DEF IInv, Memory
    <2> QED
        BY <2>1, <2>2, <2>4, <1>9, <1>10 DEF IInv, Memory
<1> QED
    BY <1>10, <1>11, <1>12, <1>13, AtRest

\* The node at place k is released and leaves the list.
LEMMA ReleaseMemory ==
    ASSUME IInv, ListAssumption, NEW k \in 1 .. Len(spine), spine' \in Seq(Addr),
           Len(spine') = Len(spine) - 1,
           \A j \in 1 .. Len(spine) - 1 :
               spine'[j] = IF j < k THEN spine[j] ELSE spine[j + 1],
           \A b \in Addr : heap'[b] # Released <=> b # spine[k] /\ heap[b] # Released,
           given' = given, op' = "gone" => spine' = <<>>
    PROVE  Memory'
<1> DEFINE n == Len(spine)
<1>1. n \in Nat /\ \A i, j \in 1 .. n : spine[i] = spine[j] => i = j
    BY Places DEF IInv, Spine, Chain
<1>2. \A i \in 1 .. n - 1 : \E j \in 1 .. n : spine'[i] = spine[j] /\ j # k
    <2> TAKE i \in 1 .. n - 1
    <2>1. CASE i < k
        <3>1. i \in 1 .. n /\ i # k /\ spine'[i] = spine[i]
            BY <1>1, <2>1
        <3> QED
            BY <3>1
    <2>2. CASE i >= k
        <3>1. i + 1 \in 1 .. n /\ i + 1 # k /\ spine'[i] = spine[i + 1]
            BY <1>1, <2>2
        <3> QED
            BY <3>1
    <2> QED
        BY <2>1, <2>2, <1>1
<1>3. \A j \in 1 .. n : j # k => \E i \in 1 .. n - 1 : spine'[i] = spine[j]
    <2> TAKE j \in 1 .. n
    <2>1. CASE j < k
        <3>1. j \in 1 .. n - 1 /\ spine'[j] = spine[j]
            BY <1>1, <2>1
        <3> QED
            BY <3>1
    <2>2. CASE j > k
        <3>1. j - 1 \in 1 .. n - 1 /\ ~(j - 1 < k) /\ (j - 1) + 1 = j
            BY <1>1, <2>2
        <3>2. spine'[j - 1] = spine[j]
            BY <3>1
        <3> QED
            BY <3>1, <3>2
    <2> QED
        BY <2>1, <2>2, <1>1
<1>4. \A b : (\E i \in 1 .. n - 1 : spine'[i] = b) <=>
             b # spine[k] /\ \E j \in 1 .. n : spine[j] = b
    <2> TAKE b
    <2>1. ASSUME NEW i \in 1 .. n - 1, spine'[i] = b
          PROVE  b # spine[k] /\ \E j \in 1 .. n : spine[j] = b
        <3>1. PICK j \in 1 .. n : spine'[i] = spine[j] /\ j # k
            BY <1>2
        <3>2. spine[j] # spine[k]
            BY <1>1, <3>1
        <3> QED
            BY <2>1, <3>1, <3>2
    <2>2. ASSUME NEW j \in 1 .. n, spine[j] = b, b # spine[k]
          PROVE  \E i \in 1 .. n - 1 : spine'[i] = b
        BY <1>3, <2>2
    <2> QED
        BY <2>1, <2>2
<1>5. spine[k] \notin given
    BY DEF IInv, Memory
<1>6. \A i \in 1 .. n - 1 : spine'[i] \notin given
    BY <1>2 DEF IInv, Memory
<1>7. \A b \in Addr : heap'[b] # Released <=>
            b \in given' \/ \E i \in 1 .. n - 1 : spine'[i] = b
    BY <1>4, <1>5 DEF IInv, Memory
<1> QED
    BY <1>6, <1>7 DEF Memory

\* The first node leaves: list_delete(0) and an iteration of list_free.
LEMMA TailNodes ==
    ASSUME ListAssumption, IInv, spine # <<>>,
           heap' = [heap EXCEPT ![spine[1]] = Released],
           spine' = Tail(spine), given' = given, op' = "gone" => Len(spine) = 1
    PROVE  /\ heap' \in Heap /\ spine' \in Seq(Addr) /\ Chain(heap', spine')
           /\ Len(spine') = Len(spine) - 1
           /\ \A j \in 1 .. Len(spine) - 1 : spine'[j] = spine[j + 1]
           /\ Memory'
<1>1. heap \in Heap /\ spine \in Seq(Addr) /\ Chain(heap, spine) /\ Len(spine) \in Nat
      /\ Len(spine) > 0
    BY Places DEF IInv, Spine
<1>2. LET g == [heap EXCEPT ![spine[1]] = Released]
      IN  g \in Heap /\ Chain(g, Tail(spine))
    BY ONLY <1>1, spine # <<>>, TailChain
<1>3. heap' \in Heap /\ Chain(heap', spine')
    BY <1>2
<1>4. spine' \in Seq(Addr) /\ Len(spine') = Len(spine) - 1
      /\ \A j \in 1 .. Len(spine) - 1 : spine'[j] = spine[j + 1]
    BY <1>1
<1>5. 1 \in 1 .. Len(spine) /\ \A j \in 1 .. Len(spine) - 1 : ~(j < 1)
    BY <1>1
<1>6. \A b \in Addr : heap'[b] # Released <=> b # spine[1] /\ heap[b] # Released
    BY <1>1 DEF Heap
<1>7. op' = "gone" => spine' = <<>>
    <2> SUFFICES ASSUME op' = "gone" PROVE spine' = <<>>
        OBVIOUS
    <2>1. Len(spine') = 0
        BY <1>1, <1>4
    <2> QED
        BY <1>4, <2>1, EmptySeq
<1>8. \A j \in 1 .. Len(spine) - 1 :
        spine'[j] = IF j < 1 THEN spine[j] ELSE spine[j + 1]
    BY <1>4, <1>5
<1>9. Memory'
    BY ONLY ListAssumption, IInv, <1>4, <1>5, <1>6, <1>7, <1>8, given' = given,
            ReleaseMemory
<1> QED
    BY <1>3, <1>4, <1>9

LEMMA FreeStep ==
    ASSUME ListAssumption, IInv, FreeLoop \/ FreeEnd
    PROVE  IInv'
<1>1. /\ op = "free" /\ spine # <<>> /\ curr = spine[1] /\ Len(spine) \in Nat
      /\ Len(spine) > 0 /\ iter = Null /\ 1 \in 1 .. Len(spine)
    BY Places DEF IInv, Spine, Copying, Collector, FreeLoop, FreeEnd
<1>2. heap' = [heap EXCEPT ![spine[1]] = Released] /\ spine' = Tail(spine)
      /\ given' = given /\ UNCHANGED <<head, ret, collector>>
    BY <1>1 DEF FreeLoop, FreeEnd
<1>3. CASE FreeLoop
    <2>1. Len(spine) > 1 /\ NextOf(curr) = spine[1 + 1] /\ spine[2] \in Addr /\ op' = "free"
        <3>1. 1 # Len(spine)
            BY <1>1, <1>3, Places DEF FreeLoop
        <3>2. 1 < Len(spine) /\ 2 \in 1 .. Len(spine)
            BY <1>1, <3>1
        <3> QED
            BY <1>1, <1>3, <3>2, Places DEF FreeLoop
    <2>2. /\ heap' \in Heap /\ spine' \in Seq(Addr) /\ Chain(heap', spine')
          /\ Len(spine') = Len(spine) - 1
          /\ \A j \in 1 .. Len(spine) - 1 : spine'[j] = spine[j + 1]
          /\ Memory'
        BY <1>1, <1>2, <2>1, TailNodes
    <2>3. spine'[1] = spine[2] /\ spine' # <<>> /\ curr' = spine[2]
        <3>1. 1 \in 1 .. Len(spine) - 1 /\ Len(spine') > 0
            BY <1>1, <2>1, <2>2
        <3>2. spine'[1] = spine[1 + 1]
            BY <2>2, <3>1
        <3>3. spine'[1] = spine[2]
            BY <3>2
        <3>4. spine' # <<>>
            BY <2>2, <3>1
        <3>5. curr' = spine[1 + 1]
            BY <1>3, <2>1 DEF FreeLoop
        <3> QED
            BY <3>3, <3>4, <3>5
    <2>4. TypeOK'
        BY <1>2, <1>3, <2>1, <2>2, <2>3 DEF IInv, TypeOK, Heap, FreeLoop, collector
    <2>5. Spine'
        BY <2>1, <2>2, <2>3 DEF Spine
    <2>6. Counting' /\ Copying' /\ Collector'
        BY <1>1, <1>2, <2>1, <2>3 DEF Counting, Copying, Collector, collector
    <2> QED
        BY <2>2, <2>4, <2>5, <2>6 DEF IInv
<1>4. CASE FreeEnd
    <2>1. Len(spine) = 1 /\ op' = "gone" /\ Forget
        BY <1>1, <1>4, Places DEF FreeEnd
    <2>2. /\ heap' \in Heap /\ spine' \in Seq(Addr) /\ Chain(heap', spine')
          /\ Len(spine') = Len(spine) - 1
          /\ Memory'
        BY <1>1, <1>2, <2>1, TailNodes
    <2>3. TypeOK'
        BY <1>2, <2>1, <2>2 DEF IInv, TypeOK, Heap, Forget, collector
    <2>4. Spine'
        BY <2>1, <2>2 DEF Spine
    <2>5. Counting' /\ Copying' /\ Collector'
        BY <1>1, <1>2, <2>1 DEF Counting, Copying, Collector, collector
    <2> QED
        BY <2>2, <2>3, <2>4, <2>5 DEF IInv
<1> QED
    BY <1>3, <1>4

\* list_delete of the first node.
LEMMA DeleteFirstNodes ==
    ASSUME ListAssumption, IInv, op = "idle", ~AtEnd(head), DeleteFirst,
           UNCHANGED <<call, given>>
    PROVE  /\ heap' \in Heap /\ spine' \in Seq(Addr) /\ head' \in Addr
           /\ Spine' /\ Memory' /\ Len(spine') = Len(spine) - 1
           /\ \A j \in 1 .. Len(spine) - 1 : spine'[j] = spine[j + 1]
<1>0. Len(spine) \in Nat /\ Len(spine) > 0
    BY Places DEF IInv, Spine
<1>1. spine # <<>> /\ head = spine[1] /\ 1 \in 1 .. Len(spine) /\ op' = "idle"
    BY <1>0 DEF IInv, Spine, call
<1>2. Len(spine) > 1 /\ head' = spine[2] /\ spine[2] \in Addr
    <2>1. Len(spine) # 1
        BY <1>1, Places
    <2>2. 1 < Len(spine) /\ 2 \in 1 .. Len(spine)
        <3> DEFINE n == Len(spine)
        <3>1. n \in Nat /\ n > 0 /\ n # 1
            BY <1>0, <2>1
        <3> HIDE DEF n
        <3>2. 1 < n /\ 2 \in 1 .. n
            BY <3>1
        <3> QED
            BY <3>2 DEF n
    <2>3. NextOf(spine[1]) = spine[1 + 1]
        BY <1>1, <2>2, Places
    <2>4. NextOf(spine[1]) = spine[2]
        BY <2>3
    <2>5. spine[2] \in Addr
        BY <2>2, Places
    <2> QED
        BY <1>1, <2>2, <2>4, <2>5 DEF DeleteFirst
<1>3. /\ heap' \in Heap /\ spine' \in Seq(Addr) /\ Chain(heap', spine')
      /\ Len(spine') = Len(spine) - 1
      /\ \A j \in 1 .. Len(spine) - 1 : spine'[j] = spine[j + 1]
      /\ Memory'
    BY <1>1, TailNodes DEF DeleteFirst
<1>4. spine'[1] = spine[2] /\ spine' # <<>>
    <2>1. 1 \in 1 .. Len(spine) - 1 /\ Len(spine') > 0
        BY <1>0, <1>2, <1>3
    <2>2. spine'[1] = spine[1 + 1] /\ spine' # <<>>
        BY <1>3, <2>1
    <2> QED
        BY <2>2
<1> QED
    BY <1>1, <1>2, <1>3, <1>4 DEF Spine

\* list_delete when it does not search: the caller's collector is kept in step.
LEMMA DeleteStep ==
    ASSUME ListAssumption, IInv, NEW i \in Index, Delete(i)
    PROVE  IInv'
<1>1. op = "idle" /\ iter = Null /\ DeleteCall(i) /\ UNCHANGED collector /\ i \in Int
    BY DEF Delete, Idle, Index, ListAssumption
<1>2. CASE i < 0 \/ AtEnd(head)
    <2>1. UNCHANGED <<heap, head, call, spine, given>>
        BY <1>1, <1>2 DEF DeleteCall
    <2>2. Spine' /\ Memory'
        BY <1>1, <2>1, StillNodes DEF still, call
    <2>3. TypeOK'
        BY <1>1, <2>1 DEF IInv, TypeOK, call, collector
    <2> QED
        BY <1>1, <2>1, <2>2, <2>3, AtRest DEF call, collector
<1>3. CASE i = 0 /\ ~AtEnd(head)
    <2>1. DeleteFirst /\ UNCHANGED <<call, given>>
        BY <1>1, <1>3 DEF DeleteCall
    <2>2. heap' \in Heap /\ spine' \in Seq(Addr) /\ head' \in Addr /\ Spine' /\ Memory'
        BY <1>1, <1>3, <2>1, DeleteFirstNodes
    <2>3. TypeOK'
        BY <1>1, <2>1, <2>2 DEF IInv, TypeOK, Heap, call, collector
    <2> QED
        BY <1>1, <2>1, <2>2, <2>3, AtRest DEF call, collector
<1>4. CASE i > 0 /\ ~AtEnd(head)
    <2>1. Enter("delete", i) /\ UNCHANGED <<heap, head, ret, spine, given>>
        BY <1>1, <1>4 DEF DeleteCall
    <2>2. Spine' /\ Memory'
        BY <1>1, <2>1, StillNodes DEF still, Enter
    <2>3. 1 \in 1 .. Len(spine) /\ head = spine[1]
        BY <1>1, Places DEF IInv, Spine
    <2>4. TypeOK'
        BY <1>1, <2>1 DEF IInv, TypeOK, Enter, collector
    <2>5. Counting' /\ Copying' /\ Collector'
        BY <1>1, <1>4, <2>1, <2>3 DEF Counting, Copying, Collector, Enter, collector
    <2> QED
        BY <2>2, <2>4, <2>5 DEF IInv
<1> QED
    BY <1>1, <1>2, <1>3, <1>4

\* list_delete of another node.  The node a collector has moved on to stays, one
\* place before where it was.
LEMMA DeleteEndStep ==
    ASSUME ListAssumption, IInv, DeleteEnd
    PROVE  IInv'
<1> DEFINE n == Len(spine)
           k == index + 1
<1>1. /\ op = "delete" /\ n \in Nat /\ index \in Nat /\ arg \in Int /\ arg > 0
      /\ k \in 1 .. n /\ curr = spine[k] /\ (index > 0 => prev = spine[index])
    BY Places DEF IInv, TypeOK, Counting, DeleteEnd
<1>2. AtEnd(curr) <=> k = n
    BY <1>1, Places
<1>3. iter # Null => arg = count /\ index <= count /\ count + 2 \in 1 .. n
                     /\ iter = spine[count + 2] /\ count \in Nat
    BY <1>1 DEF IInv, TypeOK, Collector
<1>4. CASE AtEnd(curr)
    <2>1. iter = Null
        BY <1>1, <1>2, <1>3, <1>4
    <2>2. Answer(Number(-1))
        BY <1>4 DEF DeleteEnd
    <2> QED
        BY <1>1, <2>1, <2>2, AnswerStep
<1>5. CASE ~AtEnd(curr)
    <2>1. index = arg /\ k \in 2 .. n - 1 /\ prev = spine[k - 1]
        <3>1. index = arg /\ k # n
            BY <1>2, <1>5 DEF DeleteEnd
        <3>2. index > 0 /\ k - 1 = index
            BY <1>1, <3>1
        <3> QED
            BY <1>1, <3>1, <3>2
    <2>2. NextOf(curr) = spine[k + 1]
        BY <1>1, <2>1, Places
    <2>3. /\ heap' = [heap EXCEPT ![spine[k - 1]].next = spine[k + 1],
                                  ![spine[k]] = Released]
          /\ spine' = RemoveAt(spine, k)
          /\ op' = "idle" /\ Forget /\ ret' = Number(1)
          /\ UNCHANGED <<head, collector, given>>
        BY <1>1, <1>5, <2>1, <2>2 DEF DeleteEnd, Return
    <2>4. heap \in Heap /\ spine \in Seq(Addr) /\ Chain(heap, spine) /\ k \in 1 .. Len(spine)
          /\ k \in 2 .. Len(spine) - 1
        BY <1>1, <2>1, Places DEF IInv, Spine
    <2>5. heap' \in Heap /\ Chain(heap', spine')
        <3>1. LET g == [heap EXCEPT ![spine[k - 1]].next = spine[k + 1],
                                    ![spine[k]] = Released]
              IN  g \in Heap /\ Chain(g, RemoveAt(spine, k))
            BY ONLY ListAssumption, <2>4, RemoveChain
        <3> QED
            BY <2>3, <3>1
    <2>6. /\ spine' \in Seq(Addr) /\ Len(spine') = Len(spine) - 1
          /\ \A j \in 1 .. Len(spine) - 1 :
                spine'[j] = IF j < k THEN spine[j] ELSE spine[j + 1]
        <3>1. /\ RemoveAt(spine, k) \in Seq(Addr)
              /\ Len(RemoveAt(spine, k)) = Len(spine) - 1
              /\ \A j \in 1 .. Len(spine) - 1 :
                    RemoveAt(spine, k)[j] = IF j < k THEN spine[j] ELSE spine[j + 1]
            BY ONLY <2>4, RemoveAtElements
        <3> QED
            BY <2>3, <3>1
    <2>7. \A b \in Addr : heap'[b] # Released <=> b # spine[k] /\ heap[b] # Released
        <3>1. k - 1 \in 1 .. Len(spine) /\ k - 1 < Len(spine) /\ k - 1 # k
            BY <1>1, <2>1
        <3>2. spine[k - 1] \in Addr /\ heap[spine[k - 1]] \in Node
              /\ heap[spine[k - 1]].data \in Val /\ spine[k - 1] # spine[k]
            BY <3>1, <2>4, Places DEF Chain
        <3>3. heap'[spine[k - 1]] = [next |-> spine[k + 1], data |-> heap[spine[k - 1]].data]
            BY <2>3, <2>4, <3>2 DEF Heap, Node
        <3>4. heap'[spine[k - 1]] # Released /\ heap[spine[k - 1]] # Released
            BY <3>2, <3>3 DEF Released, ListAssumption
        <3>5. spine[k] \in Addr /\ heap'[spine[k]] = Released
            BY <2>3, <2>4 DEF Heap
        <3>6. \A b \in Addr \ {spine[k - 1], spine[k]} : heap'[b] = heap[b]
            BY <2>3, <2>4 DEF Heap
        <3> QED
            BY <3>2, <3>4, <3>5, <3>6
    <2>8. Memory'
        <3>1. op' = "gone" => spine' = <<>>
            BY <2>3
        <3>2. given' = given
            BY <2>3
        <3> QED
            BY ONLY ListAssumption, IInv, <2>4, <2>6, <2>7, <3>1, <3>2, ReleaseMemory
    <2>9. Spine'
        <3>1. 1 \in 1 .. Len(spine) - 1 /\ 1 < k /\ Len(spine') > 0
            BY <1>1, <2>1, <2>6
        <3>2. spine'[1] = spine[1] /\ spine' # <<>>
            BY <2>6, <3>1
        <3>3. head' = spine'[1]
            BY <1>1, <2>3, <3>2 DEF IInv, Spine
        <3> QED
            BY <2>3, <2>5, <3>2, <3>3 DEF Spine
    <2>10. TypeOK'
        <3>1. head' \in Addr /\ given' \subseteq Addr /\ spine' \in Seq(Addr)
            BY <2>3, <2>6 DEF IInv, TypeOK
        <3> QED
            BY <2>3, <2>5, <3>1, ReturnTypes
    <2>11. Counting' /\ Copying'
        BY <2>3 DEF Counting, Copying
    <2>12. Collector'
        <3>1. CASE iter = Null
            BY <2>3, <3>1 DEF Collector, collector
        <3>2. CASE iter # Null
            <4>1. count + 1 = k /\ count + 1 \in 1 .. Len(spine) - 1 /\ ~(count + 1 < k)
                  /\ (count + 1) + 1 = count + 2
                BY <1>1, <1>3, <2>1, <3>2
            <4>2. spine'[count + 1] = spine[count + 2]
                BY <2>6, <4>1
            <4> QED
                BY <1>3, <2>3, <2>6, <3>2, <4>1, <4>2 DEF Collector, collector
        <3> QED
            BY <3>1, <3>2
    <2> QED
        BY <2>8, <2>9, <2>10, <2>11, <2>12 DEF IInv
<1> QED
    BY <1>4, <1>5

\* A collector moves on and deletes the node it was at.
LEMMA CollectDeleteStep ==
    ASSUME ListAssumption, IInv, CollectDelete
    PROVE  IInv'
<1> DEFINE n == Len(spine)
<1>1. /\ op = "idle" /\ iter # Null /\ ~AtEnd(iter) /\ iter' = NextOf(iter)
      /\ DeleteCall(count) /\ UNCHANGED <<count, doomed>>
    BY DEF CollectDelete, Collecting
<1>2. count \in Nat /\ n \in Nat /\ count + 1 \in 1 .. n /\ iter = spine[count + 1]
    BY <1>1, Places DEF IInv, TypeOK, Collector
<1>3. count + 2 \in 1 .. n /\ iter' = spine[count + 2] /\ spine[count + 2] \in Addr
    <2>1. count + 1 # n
        BY <1>1, <1>2, Places
    <2>2. count + 2 \in 1 .. n /\ count + 1 < n /\ (count + 1) + 1 = count + 2
        BY <1>2, <2>1
    <2> QED
        BY <1>1, <1>2, <2>2, Places
<1>4. head = spine[1] /\ 1 \in 1 .. n /\ ~AtEnd(head)
    <2>1. head = spine[1] /\ 1 \in 1 .. n /\ n # 1
        BY <1>1, <1>2, <1>3 DEF IInv, Spine
    <2> QED
        BY <2>1, Places
<1>5. CASE count = 0
    <2>1. DeleteFirst /\ UNCHANGED <<call, given>>
        BY <1>1, <1>4, <1>5 DEF DeleteCall
    <2>2. /\ heap' \in Heap /\ spine' \in Seq(Addr) /\ head' \in Addr
          /\ Spine' /\ Memory' /\ Len(spine') = Len(spine) - 1
          /\ \A j \in 1 .. Len(spine) - 1 : spine'[j] = spine[j + 1]
        BY <1>1, <1>4, <2>1, DeleteFirstNodes
    <2>3. TypeOK'
        BY <1>1, <1>3, <2>1, <2>2 DEF IInv, TypeOK, Heap, call
    <2>4. Counting' /\ Copying'
        BY <1>1, <2>1 DEF Counting, Copying, call
    <2>5. count + 1 \in 1 .. Len(spine) - 1 /\ spine'[count + 1] = spine[(count + 1) + 1]
          /\ (count + 1) + 1 = count + 2
        BY <1>2, <1>3, <2>2
    <2>6. Collector'
        BY <1>1, <1>3, <2>1, <2>2, <2>5 DEF Collector, call
    <2> QED
        BY <2>2, <2>3, <2>4, <2>6 DEF IInv
<1>6. CASE count > 0
    <2>1. Enter("delete", count) /\ UNCHANGED <<heap, head, ret, spine, given>>
        BY <1>1, <1>2, <1>4, <1>6 DEF DeleteCall
    <2>2. Spine' /\ Memory'
        BY <1>1, <2>1, StillNodes DEF still, Enter
    <2>3. TypeOK'
        BY <1>1, <1>2, <1>3, <2>1 DEF IInv, TypeOK, Enter
    <2>4. Counting' /\ Copying'
        BY <1>2, <1>4, <1>6, <2>1 DEF Counting, Copying, Enter
    <2>5. Collector'
        BY <1>1, <1>2, <1>3, <2>1 DEF Collector, Enter
    <2> QED
        BY <2>2, <2>3, <2>4, <2>5 DEF IInv
<1> QED
    BY <1>2, <1>5, <1>6

\* list_slice cuts the list before place index + 1.
LEMMA SliceStep ==
    ASSUME ListAssumption, IInv, SliceEnd
    PROVE  IInv'
<1> DEFINE n == Len(spine)
<1>1. /\ op = "slice" /\ n \in Nat /\ index \in Nat /\ arg # 0
      /\ index + 1 \in 1 .. n /\ curr = spine[index + 1]
      /\ (index > 0 => prev = spine[index]) /\ iter = Null
    BY Places DEF IInv, TypeOK, Counting, Collector, SliceEnd
<1>2. CASE AtEnd(curr)
    BY <1>1, <1>2, AnswerStep DEF SliceEnd
<1>3. CASE ~AtEnd(curr)
    <2>1. index > 0 /\ index < n /\ index \in 1 .. Len(spine) - 1
          /\ prev = spine[index] /\ index \in 0 .. Len(spine)
        <3>1. index + 1 # n /\ index = arg
            BY <1>1, <1>3, Places DEF SliceEnd
        <3> QED
            BY <1>1, <3>1
    <2>2. PICK a \in Addr \ Allocated :
            /\ heap' = [heap EXCEPT ![a] = Sentinel, ![spine[index]].next = a]
            /\ spine' = Append(SubSeq(spine, 1, index), a)
            /\ given' = given \cup ToSet(SubSeq(spine, index + 1, Len(spine)))
            /\ op' = "idle" /\ Forget /\ UNCHANGED <<head, collector>>
        BY <1>3, <2>1 DEF SliceEnd, Return
    <2>3. a \in Addr /\ heap[a] = Released
        BY <2>2 DEF Allocated
    <2>4. heap \in Heap /\ spine \in Seq(Addr) /\ Chain(heap, spine)
        BY Places DEF IInv, Spine
    <2>5. heap' \in Heap /\ Chain(heap', spine')
        <3>1. LET g == [heap EXCEPT ![a] = Sentinel, ![spine[index]].next = a]
              IN  g \in Heap /\ Chain(g, Append(SubSeq(spine, 1, index), a))
            BY ONLY ListAssumption, <2>1, <2>3, <2>4, CutChain
        <3> QED
            BY <2>2, <3>1
    <2>6. /\ spine' \in Seq(Addr) /\ Len(spine') = index + 1
          /\ \A j \in 1 .. index + 1 : spine'[j] = IF j <= index THEN spine[j] ELSE a
        <3>1. /\ Append(SubSeq(spine, 1, index), a) \in Seq(Addr)
              /\ Len(Append(SubSeq(spine, 1, index), a)) = index + 1
              /\ \A j \in 1 .. index + 1 :
                   Append(SubSeq(spine, 1, index), a)[j] = IF j <= index THEN spine[j] ELSE a
            BY ONLY <2>1, <2>3, <2>4, CutElements
        <3> QED
            BY <2>2, <3>1
    <2>7. \A b : b \in given' <=> b \in given \/ \E j \in index + 1 .. n : spine[j] = b
        <3>1. \A j \in index + 1 .. Len(spine) : spine[j] \in Addr
            BY <1>1, <2>1, Places
        <3>2. index + 1 \in Int /\ Len(spine) \in Int /\ index + 1 <= Len(spine)
            BY <1>1, <2>1
        <3>3. LET r == SubSeq(spine, index + 1, Len(spine))
              IN  /\ r \in Seq(Addr)
                  /\ Len(r) = IF index + 1 <= Len(spine)
                              THEN Len(spine) - (index + 1) + 1 ELSE 0
                  /\ \A i \in 1 .. Len(spine) - (index + 1) + 1 :
                        r[i] = spine[index + 1 + i - 1]
            BY ONLY <3>1, <3>2, SubSeqProperties
        <3> DEFINE r == SubSeq(spine, index + 1, Len(spine))
        <3>4. r \in Seq(Addr) /\ Len(r) = n - index
              /\ \A i \in 1 .. n - index : r[i] = spine[index + i]
            BY <1>1, <3>2, <3>3
        <3> HIDE DEF r
        <3>5. \A b : (\E i \in 1 .. Len(r) : r[i] = b) <=>
                     \E j \in index + 1 .. n : spine[j] = b
            <4> TAKE b
            <4>1. ASSUME NEW i \in 1 .. Len(r), r[i] = b
                  PROVE  \E j \in index + 1 .. n : spine[j] = b
                <5>1. index + i \in index + 1 .. n /\ spine[index + i] = b
                    BY <1>1, <2>1, <3>4, <4>1
                <5> QED
                    BY <5>1
            <4>2. ASSUME NEW j \in index + 1 .. n, spine[j] = b
                  PROVE  \E i \in 1 .. Len(r) : r[i] = b
                <5>1. j - index \in 1 .. n - index /\ index + (j - index) = j
                    BY <1>1, <2>1
                <5>2. r[j - index] = spine[j] /\ j - index \in 1 .. Len(r)
                    BY <3>4, <5>1
                <5> QED
                    BY <4>2, <5>2
            <4> QED
                BY <4>1, <4>2
        <3>6. ToSet(r) = {r[i] : i \in 1 .. Len(r)}
            BY <3>4 DEF ToSet
        <3> QED
            BY <2>2, <3>5, <3>6 DEF r
    <2>8. Memory'
        <3>1. \A b \in Addr : heap'[b] # Released <=> b = a \/ heap[b] # Released
            <4>1. spine[index] \in Addr /\ heap[spine[index]] \in Node
                  /\ heap[spine[index]].data \in Val /\ spine[index] # a
                BY <2>1, <2>3, <1>1, Places DEF IInv, Spine, Chain
            <4>2. heap'[spine[index]] = [next |-> a, data |-> heap[spine[index]].data]
                BY <2>2, <2>3, <2>4, <4>1 DEF Heap, Node
            <4>3. heap'[spine[index]] # Released /\ heap[spine[index]] # Released
                BY <4>1, <4>2 DEF Released, ListAssumption
            <4>4. heap'[a] = Sentinel /\ Sentinel # Released
                BY <2>2, <2>3, <2>4, <4>1 DEF Heap, Sentinel, Released
            <4>5. \A b \in Addr \ {a, spine[index]} : heap'[b] = heap[b]
                BY <2>2, <2>4 DEF Heap
            <4> QED
                BY <4>1, <4>3, <4>4, <4>5
        <3>2. \A i, j \in 1 .. n : spine[i] = spine[j] => i = j
            BY <2>4 DEF Chain
        <3>3. a \notin given /\ \A j \in 1 .. n : spine[j] # a
            BY <2>3, <2>4 DEF IInv, Memory, Chain
        <3>4. \A b : (\E j \in 1 .. n : spine[j] = b) <=>
                     (\E j \in 1 .. index : spine[j] = b)
                     \/ (\E j \in index + 1 .. n : spine[j] = b)
            BY <1>1, <2>1
        <3>5. \A b : (\E i \in 1 .. Len(spine') : spine'[i] = b) <=>
                     b = a \/ \E j \in 1 .. index : spine[j] = b
            <4> TAKE b
            <4>1. index + 1 \in 1 .. Len(spine') /\ spine'[index + 1] = a
                BY <1>1, <2>6
            <4>2. ASSUME NEW j \in 1 .. index
                  PROVE  j \in 1 .. Len(spine') /\ spine'[j] = spine[j]
                BY <1>1, <2>6
            <4>3. ASSUME NEW i \in 1 .. Len(spine'), spine'[i] = b, b # a
                  PROVE  i \in 1 .. index /\ spine[i] = b
                BY <1>1, <2>6, <4>3
            <4> QED
                BY <4>1, <4>2, <4>3
        <3>6. \A b \in Addr : heap'[b] # Released <=>
                b \in given' \/ \E i \in 1 .. Len(spine') : spine'[i] = b
            BY <2>7, <3>1, <3>4, <3>5 DEF IInv, Memory
        <3>7. \A i \in 1 .. Len(spine') : spine'[i] \notin given'
            <4> TAKE i \in 1 .. Len(spine')
            <4>1. CASE i <= index
                <5>1. i \in 1 .. n /\ spine'[i] = spine[i] /\ i \notin index + 1 .. n
                    BY <1>1, <2>1, <2>6, <4>1
                <5>2. \A j \in index + 1 .. n : spine[j] # spine[i]
                    BY <1>1, <3>2, <5>1
                <5> QED
                    BY <2>7, <5>1, <5>2 DEF IInv, Memory
            <4>2. CASE i = index + 1
                <5>1. spine'[i] = a
                    BY <1>1, <2>6, <4>2
                <5>2. \A j \in index + 1 .. n : spine[j] # a
                    BY <1>1, <3>3
                <5> QED
                    BY <2>7, <3>3, <5>1, <5>2
            <4> QED
                BY <1>1, <2>6, <4>1, <4>2
        <3> QED
            BY <2>2, <3>6, <3>7 DEF Memory
    <2>9. Spine'
        <3>1. 1 \in 1 .. index + 1 /\ 1 <= index /\ Len(spine') > 0
            BY <1>1, <2>1, <2>6
        <3>2. spine'[1] = spine[1] /\ spine' # <<>>
            BY <2>6, <3>1
        <3>3. head' = spine'[1]
            BY <1>1, <2>2, <3>2 DEF IInv, Spine
        <3> QED
            BY <2>2, <2>5, <3>2, <3>3 DEF Spine
    <2>10. given' \subseteq Addr
        <3>1. \A j \in index + 1 .. n : spine[j] \in Addr
            BY <1>1, <2>1, Places
        <3> QED
            BY <2>7, <3>1 DEF IInv, TypeOK
    <2>11. TypeOK'
        <3>1. head' \in Addr /\ spine' \in Seq(Addr)
            BY <2>2, <2>6 DEF IInv, TypeOK
        <3> QED
            BY <2>2, <2>5, <2>10, <3>1, ReturnTypes
    <2> QED
        BY <1>1, <2>2, <2>8, <2>9, <2>11, AtRest DEF collector
<1> QED
    BY <1>2, <1>3

-----------------------------------------------------------------------------

\* The calls that begin a search, or answer at once.
LEMMA CallStep ==
    ASSUME ListAssumption, IInv, Caller
    PROVE  IInv'
<1>1. ASSUME NEW v \in Val, AddStart(v) PROVE IInv'
    BY <1>1, PushStep DEF AddStart
<1>2. ASSUME NEW v \in Val, AddLastCall(v) PROVE IInv'
    <2>1. CASE AtEnd(head)
        BY <1>2, <2>1, PushStep DEF AddLastCall
    <2>2. CASE ~AtEnd(head)
        <3>1. op = "idle" /\ iter = Null /\ Enter("add_last", v)
              /\ UNCHANGED <<still, ret, collector>>
            BY <1>2, <2>2 DEF AddLastCall, Idle, still
        <3>2. Spine' /\ Memory'
            BY <3>1, StillNodes DEF Enter, still
        <3>3. head = spine[1] /\ 1 \in 1 .. Len(spine) /\ Len(spine) \in Nat
            BY <3>1, Places DEF IInv, Spine
        <3>4. Len(spine) # 1
            BY <2>2, <3>3, Places
        <3>5. 0 + 2 <= Len(spine)
            <4> DEFINE n == Len(spine)
            <4>1. n \in Nat /\ 1 \in 1 .. n /\ n # 1
                BY <3>3, <3>4
            <4> HIDE DEF n
            <4>2. 0 + 2 <= n
                BY ONLY <4>1
            <4> QED
                BY <4>2 DEF n
        <3>6. TypeOK'
            BY <3>1 DEF IInv, TypeOK, Enter, still, collector, ListAssumption
        <3>7. Counting'
            BY <3>1, <3>3, <3>5 DEF Counting, Enter, still
        <3>8. Copying' /\ Collector'
            BY <3>1 DEF Copying, Collector, Enter, collector
        <3> QED
            BY <3>2, <3>6, <3>7, <3>8 DEF IInv
    <2> QED
        BY <2>1, <2>2
<1>3. ASSUME NEW v \in Val, FindCall(v) PROVE IInv'
    BY <1>3, EnterStep DEF FindCall, Idle, still, ListAssumption
<1>4. ASSUME NEW i \in Index, GetCall(i) \/ SliceCall(i) PROVE IInv'
    <2>1. i \in Int /\ op = "idle" /\ iter = Null
        BY <1>4 DEF Index, ListAssumption, GetCall, SliceCall, Idle
    <2>2. CASE Answer(Nothing)
        BY <2>1, <2>2, AnswerStep
    <2>3. CASE (Enter("get", i) \/ (i # 0 /\ Enter("slice", i)))
               /\ UNCHANGED <<heap, head, ret, collector, spine, given>>
        BY <2>1, <2>3, EnterStep DEF still
    <2> QED
        BY <1>4, <2>2, <2>3 DEF GetCall, SliceCall
<1>5. ASSUME NEW i \in Index, Delete(i) PROVE IInv'
    BY <1>5, DeleteStep
<1>6. CASE ToArrayCall
    BY <1>6, ToArrayStep
<1>7. CASE FreeCall
    BY <1>7, EnterStep DEF FreeCall, Idle, still
<1>8. ASSUME NEW D \in SUBSET Val, CollectCall(D) PROVE IInv'
    BY <1>8, CollectStep
<1> QED
    BY <1>1, <1>2, <1>3, <1>4, <1>5, <1>6, <1>7, <1>8 DEF Caller

LEMMA StepStep ==
    ASSUME ListAssumption, IInv, Step
    PROVE  IInv'
<1>1. CASE AddLastLoop \/ FindLoop \/ GetLoop \/ DeleteLoop \/ SliceLoop
    <2>1. Advance /\ op \in {"add_last", "find", "get", "delete", "slice"}
        BY <1>1 DEF AddLastLoop, FindLoop, GetLoop, DeleteLoop, SliceLoop
    <2>2. ~AtEnd(curr)
        <3>1. CASE AddLastLoop
            <4>1. index \in Nat /\ index + 1 \in 1 .. Len(spine) /\ curr = spine[index + 1]
                  /\ index + 2 <= Len(spine) /\ Len(spine) \in Nat
                BY <3>1, Places DEF IInv, TypeOK, Counting, AddLastLoop
            <4>2. index + 1 # Len(spine)
                BY <4>1
            <4> QED
                BY <4>1, <4>2, Places
        <3> QED
            BY <1>1, <3>1 DEF FindLoop, GetLoop, DeleteLoop, SliceLoop
    <2>3. (op = "add_last" => ~AtEnd(NextOf(curr))) /\ (op = "delete" => index # arg)
        BY <1>1 DEF AddLastLoop, FindLoop, GetLoop, DeleteLoop, SliceLoop
    <2> QED
        BY <2>1, <2>2, <2>3, AdvanceStep
<1>2. CASE AddLastEnd
    BY <1>2, AddLastStep
<1>3. CASE FindEnd \/ GetEnd \/ ToArrayEnd
    BY <1>3, AnswerStep DEF FindEnd, GetEnd, ToArrayEnd
<1>4. CASE DeleteEnd
    BY <1>4, DeleteEndStep
<1>5. CASE SliceEnd
    BY <1>5, SliceStep
<1>6. CASE ToArrayLoop
    BY <1>6, ToArrayStep
<1>7. CASE FreeLoop \/ FreeEnd
    BY <1>7, FreeStep
<1>8. CASE CollectKeep \/ CollectEnd
    BY <1>8, CollectStep
<1>9. CASE CollectDelete
    BY <1>9, CollectDeleteStep
<1> QED
    BY <1>1, <1>2, <1>3, <1>4, <1>5, <1>6, <1>7, <1>8, <1>9 DEF Step

LEMMA StutterStep == IInv /\ UNCHANGED vars => IInv'
    BY DEF IInv, vars, call, collector, TypeOK, Spine, Memory, Counting, Copying, Collector

LEMMA InvariantHolds == Spec => []IInv
<1>1. Init => IInv
    BY InitIInv, ListAssumption
<1>2. IInv /\ [Next]_vars => IInv'
    BY ListAssumption, CallStep, StepStep, StutterStep DEF Next
<1> QED
    BY <1>1, <1>2, PTL DEF Spec

\* list.c keeps its list linked: the next pointers lead from the head through the
\* nodes to the sentinel and nowhere else, whatever calls and collectors do.
THEOREM ListLinked == Spec => []Linked
<1>1. IInv => Linked
    <2> SUFFICES ASSUME IInv PROVE Linked
        OBVIOUS
    <2>1. heap \in [Addr -> Node \cup {Released}] /\ spine \in Seq(Addr)
        BY DEF IInv, TypeOK
    <2>2. DOMAIN spine = 1 .. Len(spine)
        BY <2>1
    <2>3. \A i \in DOMAIN spine : spine[i] \in Allocated
        <3> TAKE i \in DOMAIN spine
        <3>1. spine[i] \in Addr
            BY <2>1
        <3>2. heap[spine[i]] # Released
            BY <2>2 DEF IInv, Spine, Chain
        <3> QED
            BY <3>1, <3>2 DEF Allocated
    <2>4. \A i \in DOMAIN spine :
            NextOf(spine[i]) = IF i = Len(spine) THEN Null ELSE spine[i + 1]
        BY <2>2 DEF IInv, Spine, Chain, NextOf
    <2> QED
        BY <2>2, <2>3, <2>4 DEF IInv, Spine, Chain, Linked
<1> QED
    BY <1>1, InvariantHolds, PTL

\* No node is lost: what is allocated is in the list or was given away, and
\* list_free releases all of it.
THEOREM NothingLost == Spec => []NoLeak
<1>1. IInv => NoLeak
    <2> SUFFICES ASSUME IInv PROVE NoLeak
        OBVIOUS
    <2>1. spine \in Seq(Addr) /\ given \subseteq Addr /\ DOMAIN spine = 1 .. Len(spine)
        BY DEF IInv, TypeOK
    <2>2. \A i \in 1 .. Len(spine) : spine[i] \in Addr
        BY <2>1
    <2>3. ToSet(spine) = {spine[i] : i \in 1 .. Len(spine)}
        BY <2>1 DEF ToSet
    <2>4. Allocated = ToSet(spine) \cup given
        BY <2>1, <2>2, <2>3 DEF IInv, Memory, Allocated
    <2> QED
        BY <2>4 DEF IInv, Memory, NoLeak
<1> QED
    BY <1>1, InvariantHolds, PTL

\* No call and no collector uses a node that was released.
THEOREM NoUseAfterFree == Spec => []SafePointers
<1>1. IInv => SafePointers
    <2> SUFFICES ASSUME IInv PROVE SafePointers
        OBVIOUS
    <2>1. \A i \in 1 .. Len(spine) : spine[i] \in Allocated
        BY Places, ListAssumption DEF IInv, Spine, Chain, Allocated
    <2>2. Len(spine) \in Nat /\ (op # "gone" => 1 \in 1 .. Len(spine))
        BY Places, ListAssumption DEF IInv, Spine
    <2>3. op \notin {"free", "gone"} => head \in Allocated
        BY <2>1, <2>2 DEF IInv, Spine
    <2>4. op \notin {"idle", "gone"} => curr \in Allocated
        BY <2>1, <2>2 DEF IInv, TypeOK, Counting, Copying
    <2>5. op \in {"delete", "slice"} /\ index > 0 => prev \in Allocated
        <3> SUFFICES ASSUME op \in {"delete", "slice"}, index > 0 PROVE prev \in Allocated
            OBVIOUS
        <3>1. index \in 1 .. Len(spine) /\ prev = spine[index]
            BY <2>2 DEF IInv, TypeOK, Counting
        <3> QED
            BY <2>1, <3>1
    <2>6. op = "delete" /\ ~AtEnd(curr) /\ index = arg => index > 0
        BY DEF IInv, Counting
    <2>7. iter # Null => iter \in Allocated
        BY <2>1 DEF IInv, Collector
    <2> QED
        BY <2>3, <2>4, <2>5, <2>6, <2>7 DEF SafePointers
<1> QED
    BY <1>1, InvariantHolds, PTL

-----------------------------------------------------------------------------
(* The implementation of ListSpec: for any heap, values and indices, each    *)
(* call takes effect and answers in one step of its loop, as the sequence     *)
(* does, and the other steps change nothing.                                  *)

\* What a list of nodes holds.
ItemsOf(h, s) == [i \in 1 .. Len(s) - 1 |-> h[s[i]].data]

\* What a search knows of the nodes it has passed, and of its argument.
Searched ==
    /\ op = "find" => arg \in Val /\ \A i \in 1 .. index : heap[spine[i]].data # arg
    /\ op \in {"get", "delete", "slice"} => \A i \in 0 .. index - 1 : i # arg
    /\ op \in {"get", "slice"} => arg \in Index
    /\ op = "delete" => arg \in Index \cup 0 .. Len(spine) - 2

\* What list_to_array has copied.
Copied ==
    op = "to_array" =>
        /\ Len(array) + 1 \in 1 .. Len(spine) /\ curr = spine[Len(array) + 1]
        /\ \A i \in 1 .. Len(array) : array[i] = heap[spine[i]].data

RInv == IInv /\ Searched /\ Copied

-----------------------------------------------------------------------------
(* Sequences.                                                              *)

\* list_find: the first place that holds v, or 0.
Place(s, v) ==
    LET I == {i \in 1 .. Len(s) : s[i] = v}
    IN  IF I # {} THEN Abstract!Min(I) ELSE 0

LEMMA FirstPlace ==
    ASSUME NEW S, NEW s \in Seq(S), NEW v
    PROVE  /\ \A n \in 1 .. Len(s) :
                 s[n] = v /\ (\A i \in 1 .. n - 1 : s[i] # v) => Place(s, v) = n
           /\ (\A i \in 1 .. Len(s) : s[i] # v) => Place(s, v) = 0
<1> DEFINE I == {i \in 1 .. Len(s) : s[i] = v}
<1>1. Place(s, v) = IF I # {} THEN Abstract!Min(I) ELSE 0
    BY DEF Place
<1>2. ASSUME NEW n \in 1 .. Len(s), s[n] = v, \A i \in 1 .. n - 1 : s[i] # v
      PROVE  Abstract!Min(I) = n
    <2>1. n \in I /\ \A y \in I : n <= y
        BY <1>2
    <2>2. \A x \in I : (\A y \in I : x <= y) => x = n
        BY <2>1
    <2> QED
        BY <2>1, <2>2 DEF Abstract!Min
<1> QED
    BY <1>1, <1>2

\* The contents of a list are known from those of its nodes.
LEMMA Contents ==
    ASSUME NEW S, NEW h, NEW s, NEW t \in Seq(S), Len(s) = Len(t) + 1,
           \A i \in 1 .. Len(t) : h[s[i]].data = t[i]
    PROVE  ItemsOf(h, s) = t
<1>1. Len(t) \in Nat /\ Len(s) - 1 = Len(t) /\ DOMAIN t = 1 .. Len(t)
    OBVIOUS
<1>2. t = [i \in 1 .. Len(t) |-> t[i]]
    BY <1>1
<1> QED
    BY <1>1, <1>2 DEF ItemsOf

\* While the list exists.
LEMMA ItemsKnown ==
    ASSUME IInv, op \notin {"free", "gone"}
    PROVE  /\ Items = ItemsOf(heap, spine) /\ Items \in Seq(Val)
           /\ Len(spine) \in Nat /\ Len(spine) > 0 /\ Len(Items) = Len(spine) - 1
           /\ DOMAIN Items = 1 .. Len(spine) - 1
           /\ \A i \in 1 .. Len(spine) - 1 : Items[i] = heap[spine[i]].data
<1>1. Len(spine) \in Nat /\ Len(spine) > 0
    BY DEF IInv, TypeOK, Spine
<1>2. \A i \in 1 .. Len(spine) - 1 : heap[spine[i]].data \in Val
    BY DEF IInv, Spine, Chain
<1>3. Items = [i \in 1 .. Len(spine) - 1 |-> heap[spine[i]].data]
    BY DEF Items
<1>4. Len(spine) - 1 \in Nat
    BY <1>1
<1> QED
    BY <1>1, <1>2, <1>3, <1>4 DEF ItemsOf

-----------------------------------------------------------------------------
(* The invariant.                                                          *)

LEMMA RInvAtRest ==
    ASSUME IInv', op' \in {"idle", "add_last", "free", "gone"}
    PROVE  RInv'
    BY DEF RInv, Searched, Copied

\* A search begins.
LEMMA SearchBegins ==
    ASSUME ListAssumption, IInv', NEW name, NEW a, Enter(name, a), UNCHANGED spine,
           name = "find" => a \in Val,
           name \in {"get", "slice"} => a \in Index,
           name = "delete" => a \in Index \cup 0 .. Len(spine) - 2,
           name # "to_array"
    PROVE  RInv'
<1>1. op' = name /\ arg' = a /\ index' = 0
    BY DEF Enter
<1>2. Searched'
    BY <1>1 DEF Searched, Index
<1>3. Copied'
    BY <1>1 DEF Copied
<1> QED
    BY <1>2, <1>3 DEF RInv

\* A search goes on.
LEMMA SearchGoesOn ==
    ASSUME ListAssumption, RInv, IInv', Advance,
           op = "find" => heap[curr].data # arg,
           op \in {"get", "delete", "slice"} => index # arg,
           op # "to_array"
    PROVE  RInv'
<1>1. /\ op' = op /\ arg' = arg /\ index' = index + 1 /\ UNCHANGED <<heap, spine, array>>
      /\ index \in Nat
    BY DEF Advance, RInv, IInv, TypeOK
<1>2. op = "find" => \A i \in 1 .. index + 1 : heap[spine[i]].data # arg
    <2> SUFFICES ASSUME op = "find", NEW i \in 1 .. index + 1
                 PROVE  heap[spine[i]].data # arg
        OBVIOUS
    <2>1. CASE i \in 1 .. index
        BY <2>1 DEF RInv, Searched
    <2>2. CASE i = index + 1
        BY <2>2 DEF RInv, IInv, Counting
    <2> QED
        BY <1>1, <2>1, <2>2
<1>3. op \in {"get", "delete", "slice"} => \A i \in 0 .. (index + 1) - 1 : i # arg
    <2> SUFFICES ASSUME op \in {"get", "delete", "slice"}, NEW i \in 0 .. index
                 PROVE  i # arg
        BY <1>1
    <2>1. i = index \/ i \in 0 .. index - 1
        BY <1>1
    <2> QED
        BY <2>1 DEF RInv, Searched
<1>4. Searched'
    BY <1>1, <1>2, <1>3 DEF RInv, Searched, Index
<1>5. Copied'
    BY <1>1 DEF Copied
<1> QED
    BY <1>4, <1>5 DEF RInv

LEMMA CopyBegins ==
    ASSUME RInv, IInv', ToArrayCall
    PROVE  RInv'
<1>1. op' = "to_array" /\ curr' = head /\ array' = <<>> /\ UNCHANGED <<heap, spine>>
      /\ head = spine[1] /\ Len(spine) \in Nat /\ Len(spine) > 0
    BY ItemsKnown DEF ToArrayCall, Idle, RInv, IInv, Spine
<1>2. Copied'
    BY <1>1 DEF Copied
<1>3. Searched'
    BY <1>1 DEF Searched
<1> QED
    BY <1>2, <1>3 DEF RInv

LEMMA CopyGoesOn ==
    ASSUME ListAssumption, RInv, IInv', ToArrayLoop
    PROVE  RInv'
<1> DEFINE n == Len(array) + 1
<1>1. /\ array \in Seq(Val) /\ Len(array) \in Nat /\ n \in 1 .. Len(spine)
      /\ curr = spine[n] /\ Len(spine) \in Nat
      /\ \A i \in 1 .. Len(array) : array[i] = heap[spine[i]].data
    BY Places DEF RInv, Copied, IInv, TypeOK, ToArrayLoop
<1>2. n < Len(spine) /\ NextOf(curr) = spine[n + 1] /\ heap[curr].data \in Val
    BY <1>1, Places DEF ToArrayLoop, RInv
<1>3. /\ op' = "to_array" /\ curr' = spine[n + 1] /\ UNCHANGED <<heap, spine>>
      /\ Len(array') = n
      /\ \A i \in 1 .. n : array'[i] = IF i = n THEN heap[spine[n]].data ELSE array[i]
    BY <1>1, <1>2 DEF ToArrayLoop
<1>4. \A i \in 1 .. n : array'[i] = heap[spine[i]].data
    BY <1>1, <1>3
<1>5. Copied'
    BY <1>1, <1>2, <1>3, <1>4 DEF Copied
<1>6. Searched'
    BY <1>3 DEF Searched
<1> QED
    BY <1>5, <1>6 DEF RInv

\* list_delete(i), called by a caller or by a collector.
LEMMA DeleteBegins ==
    ASSUME ListAssumption, RInv, IInv', NEW i \in Index \cup 0 .. Len(spine) - 2,
           op = "idle", DeleteCall(i)
    PROVE  RInv'
<1>1. CASE op' = "idle"
    BY <1>1, RInvAtRest
<1>2. CASE op' # "idle"
    <2>1. Enter("delete", i) /\ UNCHANGED spine
        BY <1>2 DEF DeleteCall, DeleteFirst, call
    <2> QED
        BY <2>1, SearchBegins
<1> QED
    BY <1>1, <1>2

LEMMA RInvStep ==
    ASSUME ListAssumption, RInv, [Next]_vars
    PROVE  RInv'
<1>0. IInv'
    BY CallStep, StepStep, StutterStep DEF Next, RInv
<1>1. ASSUME NEW v \in Val, AddStart(v) PROVE RInv'
    BY <1>0, <1>1, RInvAtRest DEF AddStart, Push, Idle, call
<1>2. ASSUME NEW v \in Val, AddLastCall(v) PROVE RInv'
    BY <1>0, <1>2, RInvAtRest DEF AddLastCall, Push, Enter, Idle, call
<1>3. ASSUME NEW v \in Val, FindCall(v) PROVE RInv'
    BY <1>0, <1>3, SearchBegins DEF FindCall
<1>4. ASSUME NEW i \in Index, GetCall(i) \/ SliceCall(i) PROVE RInv'
    <2>1. CASE Answer(Nothing)
        BY <1>0, <2>1, RInvAtRest DEF Answer, Return
    <2>2. CASE (Enter("get", i) \/ Enter("slice", i)) /\ UNCHANGED spine
        BY <1>0, <2>2, SearchBegins
    <2> QED
        BY <1>4, <2>1, <2>2 DEF GetCall, SliceCall
<1>5. ASSUME NEW i \in Index, Delete(i) PROVE RInv'
    BY <1>0, <1>5, DeleteBegins DEF Delete, Idle
<1>6. CASE ToArrayCall
    BY <1>0, <1>6, CopyBegins
<1>7. CASE FreeCall
    BY <1>0, <1>7, RInvAtRest DEF FreeCall, Enter
<1>8. ASSUME NEW D \in SUBSET Val, CollectCall(D) PROVE RInv'
    BY <1>0, <1>8, RInvAtRest DEF CollectCall, Idle, call
<1>9. CASE AddLastLoop
    BY <1>0, <1>9, SearchGoesOn DEF AddLastLoop
<1>10. CASE FindLoop \/ GetLoop \/ DeleteLoop \/ SliceLoop
    BY <1>0, <1>10, SearchGoesOn DEF FindLoop, GetLoop, DeleteLoop, SliceLoop
<1>11. CASE AddLastEnd \/ FindEnd \/ GetEnd \/ DeleteEnd \/ SliceEnd \/ ToArrayEnd
    BY <1>0, <1>11, RInvAtRest
       DEF AddLastEnd, FindEnd, GetEnd, DeleteEnd, SliceEnd, ToArrayEnd, Answer, Return
<1>12. CASE ToArrayLoop
    BY <1>0, <1>12, CopyGoesOn
<1>13. CASE FreeLoop \/ FreeEnd
    BY <1>0, <1>13, RInvAtRest DEF FreeLoop, FreeEnd
<1>14. CASE CollectKeep \/ CollectEnd
    BY <1>0, <1>14, RInvAtRest DEF CollectKeep, CollectEnd, Collecting, call
<1>15. CASE CollectDelete
    <2>1. op = "idle" /\ iter # Null /\ ~AtEnd(iter) /\ DeleteCall(count)
        BY <1>15 DEF CollectDelete, Collecting
    <2>2. count \in Nat /\ count + 1 \in 1 .. Len(spine) /\ iter = spine[count + 1]
          /\ Len(spine) \in Nat
        BY <2>1, Places DEF RInv, IInv, TypeOK, Collector
    <2>3. count + 1 # Len(spine)
        BY <2>1, <2>2, Places DEF RInv
    <2>4. count \in 0 .. Len(spine) - 2
        BY <2>2, <2>3
    <2> QED
        BY <1>0, <2>1, <2>4, DeleteBegins
<1>16. CASE UNCHANGED vars
    BY <1>0, <1>16 DEF vars, call, RInv, Searched, Copied, Index
<1> QED
    BY <1>1, <1>2, <1>3, <1>4, <1>5, <1>6, <1>7, <1>8, <1>9, <1>10, <1>11, <1>12,
       <1>13, <1>14, <1>15, <1>16 DEF Next, Caller, Step

-----------------------------------------------------------------------------
(* Steps that leave the nodes as they are.                                 *)

AbstractNext == [Abstract!SpecNext]_<<Items, ret>>

\* Calls that begin, loops that go on, and collectors between two calls.
LEMMA Stutters ==
    ASSUME UNCHANGED <<heap, spine, ret>>,
           op \notin {"free", "gone"}, op' \notin {"free", "gone"}
    PROVE  AbstractNext
    BY DEF AbstractNext, Items

\* An answer that a step gives, without a change to the nodes.
LEMMA AnswerKeeps ==
    ASSUME NEW r, Answer(r), op \notin {"free", "gone"}
    PROVE  ret' = r /\ UNCHANGED Items
    BY DEF Answer, Return, Items

LEMMA FindSimulates ==
    ASSUME ListAssumption, RInv, FindEnd
    PROVE  AbstractNext
<1> DEFINE n == Len(spine)
<1>1. /\ op = "find" /\ n \in Nat /\ index \in Nat /\ index + 1 \in 1 .. n
      /\ curr = spine[index + 1] /\ arg \in Val
      /\ \A i \in 1 .. index : heap[spine[i]].data # arg
      /\ AtEnd(curr) <=> index + 1 = n
    BY Places DEF RInv, IInv, TypeOK, Counting, Searched, FindEnd
<1>2. /\ Items \in Seq(Val) /\ Len(Items) = n - 1
      /\ \A i \in 1 .. n - 1 : Items[i] = heap[spine[i]].data
    BY <1>1, ItemsKnown DEF RInv
<1>3. ret' = Number(IF AtEnd(curr) THEN -1 ELSE index) /\ UNCHANGED Items
    BY <1>1, AnswerKeeps DEF FindEnd
<1>4. Place(Items, arg) = IF AtEnd(curr) THEN 0 ELSE index + 1
    <2>1. CASE AtEnd(curr)
        <3>1. \A i \in 1 .. Len(Items) : Items[i] # arg
            BY <1>1, <1>2, <2>1
        <3>2. Place(Items, arg) = 0
            BY ONLY <1>2, <3>1, FirstPlace
        <3> QED
            BY <2>1, <3>2
    <2>2. CASE ~AtEnd(curr)
        <3>1. /\ index + 1 \in 1 .. Len(Items) /\ Items[index + 1] = arg
              /\ \A i \in 1 .. (index + 1) - 1 : Items[i] # arg
            BY <1>1, <1>2, <2>2 DEF FindEnd
        <3>2. Place(Items, arg) = index + 1
            BY ONLY <1>2, <3>1, FirstPlace
        <3> QED
            BY <2>2, <3>2
    <2> QED
        BY <2>1, <2>2
<1>5. ret' = Number(Place(Items, arg) - 1)
    BY <1>1, <1>3, <1>4
<1>6. Abstract!Find(arg)
    BY <1>3, <1>5 DEF Abstract!Find, Abstract!SelectInSeq, Place, Abstract!Number, Number
<1> QED
    BY <1>1, <1>6 DEF AbstractNext, Abstract!SpecNext

LEMMA GetSimulates ==
    ASSUME ListAssumption, RInv, GetEnd
    PROVE  AbstractNext
<1> DEFINE n == Len(spine)
<1>1. /\ op = "get" /\ n \in Nat /\ index \in Nat /\ index + 1 \in 1 .. n
      /\ curr = spine[index + 1] /\ arg \in Index /\ arg \in Int
      /\ \A i \in 0 .. index - 1 : i # arg
      /\ AtEnd(curr) <=> index + 1 = n
    BY Places DEF RInv, IInv, TypeOK, Counting, Searched, GetEnd
<1>2. /\ DOMAIN Items = 1 .. n - 1
      /\ \A i \in 1 .. n - 1 : Items[i] = heap[spine[i]].data
    BY <1>1, ItemsKnown DEF RInv
<1>3. /\ ret' = IF AtEnd(curr) THEN Nothing ELSE Data(heap[curr].data)
      /\ UNCHANGED Items
    BY <1>1, AnswerKeeps DEF GetEnd
<1>4. Abstract!Has(arg) <=> ~AtEnd(curr)
    BY <1>1, <1>2 DEF Abstract!Has, GetEnd
<1>5. ~AtEnd(curr) => arg = index /\ Items[arg + 1] = heap[curr].data
    BY <1>1, <1>2 DEF GetEnd
<1>6. Abstract!Get(arg)
    BY <1>3, <1>4, <1>5
       DEF Abstract!Get, Abstract!Data, Abstract!Nothing, Data, Nothing
<1> QED
    BY <1>1, <1>6 DEF AbstractNext, Abstract!SpecNext, Abstract!Passed, Abstract!Index, Index

\* A negative index, and list_slice(0).
LEMMA RefusalSimulates ==
    ASSUME ListAssumption, RInv, Idle, NEW i \in Index, Answer(Nothing), i <= 0,
           (GetCall(i) /\ i < 0) \/ (SliceCall(i) /\ i = 0)
    PROVE  AbstractNext
<1>1. ret' = Nothing /\ UNCHANGED Items
    BY AnswerKeeps DEF Idle
<1>2. i < 0 => ~Abstract!Has(i)
    BY ItemsKnown DEF Abstract!Has, Idle, RInv, Index
<1>3. CASE i < 0
    BY <1>1, <1>2, <1>3 DEF Abstract!Get, Abstract!Nothing, Nothing, AbstractNext,
                            Abstract!SpecNext, Abstract!Passed, Abstract!Index, Index
<1>4. CASE i = 0
    BY <1>1, <1>4 DEF Abstract!Slice, Abstract!Nothing, Nothing, AbstractNext,
                      Abstract!SpecNext, Abstract!Passed, Abstract!Index, Index
<1> QED
    BY <1>3, <1>4

LEMMA CopySimulates ==
    ASSUME ListAssumption, RInv, ToArrayEnd
    PROVE  AbstractNext
<1>1. /\ op = "to_array" /\ array \in Seq(Val) /\ Len(array) \in Nat
      /\ Len(array) + 1 \in 1 .. Len(spine) /\ curr = spine[Len(array) + 1]
      /\ Len(spine) \in Nat
      /\ \A i \in 1 .. Len(array) : array[i] = heap[spine[i]].data
    BY Places DEF RInv, IInv, TypeOK, Copied, ToArrayEnd
<1>2. Len(array) + 1 = Len(spine)
    BY <1>1, Places DEF RInv, ToArrayEnd
<1>3. ItemsOf(heap, spine) = array
    BY <1>1, <1>2, Contents
<1>4. Items = array
    BY <1>1, <1>3, ItemsKnown DEF RInv
<1>5. ret' = List(array) /\ UNCHANGED Items
    BY <1>1, AnswerKeeps DEF ToArrayEnd
<1>6. Abstract!ToArray
    BY <1>4, <1>5 DEF Abstract!ToArray, Abstract!List, List
<1> QED
    BY <1>6 DEF AbstractNext, Abstract!SpecNext

-----------------------------------------------------------------------------
(* Steps that change the nodes.                                            *)

LEMMA PushSimulates ==
    ASSUME ListAssumption, RInv, Idle, NEW v \in Val, Push(v)
    PROVE  AbstractNext
<1> DEFINE n == Len(spine)
<1>1. /\ op = "idle" /\ heap \in Heap /\ spine \in Seq(Addr) /\ n \in Nat /\ n > 0
      /\ Items \in Seq(Val) /\ Len(Items) = n - 1
      /\ \A i \in 1 .. n - 1 : Items[i] = heap[spine[i]].data
      /\ \A i \in 1 .. n : spine[i] \in Addr
    BY ItemsKnown, Places DEF RInv, Idle
<1>2. PICK a \in Addr \ Allocated :
        /\ heap' = [heap EXCEPT ![a] = [next |-> head, data |-> v]]
        /\ spine' = <<a>> \o spine
    BY DEF Push
<1>3. \A i \in 1 .. n : spine[i] # a
    BY <1>2 DEF RInv, IInv, Spine, Chain, Allocated
<1>4. /\ Len(spine') = n + 1
      /\ \A j \in 1 .. n + 1 : spine'[j] = IF j = 1 THEN a ELSE spine[j - 1]
    BY <1>1, <1>2, PushElements
<1>5. heap'[a].data = v /\ \A i \in 1 .. n : heap'[spine[i]] = heap[spine[i]]
    BY <1>1, <1>2, <1>3 DEF Heap
<1>6. /\ <<v>> \o Items \in Seq(Val) /\ Len(<<v>> \o Items) = n
      /\ \A j \in 1 .. n : (<<v>> \o Items)[j] = IF j = 1 THEN v ELSE Items[j - 1]
    BY <1>1, PushElements
<1>7. \A j \in 1 .. n : heap'[spine'[j]].data = (<<v>> \o Items)[j]
    <2> TAKE j \in 1 .. n
    <2>1. CASE j = 1
        BY <1>1, <1>4, <1>5, <1>6, <2>1
    <2>2. CASE j > 1
        <3>1. j - 1 \in 1 .. n - 1 /\ j - 1 \in 1 .. n /\ j \in 1 .. n + 1
            BY <1>1, <2>2
        <3>2. heap'[spine'[j]].data = Items[j - 1]
            <4>1. spine'[j] = spine[j - 1]
                BY ONLY <1>4, <2>2, <3>1
            <4>2. heap'[spine[j - 1]] = heap[spine[j - 1]]
                BY <1>5, <3>1
            <4> QED
                BY <1>1, <3>1, <4>1, <4>2
        <3>3. (<<v>> \o Items)[j] = Items[j - 1]
            BY ONLY <1>6, <2>2
        <3> QED
            BY <3>2, <3>3
    <2> QED
        BY <1>1, <2>1, <2>2
<1>8. ItemsOf(heap', spine') = <<v>> \o Items
    <2> DEFINE t == <<v>> \o Items
    <2>1. t \in Seq(Val) /\ Len(spine') = Len(t) + 1
        BY <1>1, <1>4, <1>6
    <2>2. \A j \in 1 .. Len(t) : heap'[spine'[j]].data = t[j]
        BY <1>6, <1>7
    <2> HIDE DEF t
    <2>3. ItemsOf(heap', spine') = t
        BY <2>1, <2>2, Contents
    <2> QED
        BY <2>3 DEF t
<1>9. op' = "idle" /\ ret' = ret
    BY <1>1 DEF Push, call
<1>10. Items' = <<v>> \o Items
    BY <1>8, <1>9 DEF Items, ItemsOf
<1>11. Abstract!AddStart(v)
    BY <1>9, <1>10 DEF Abstract!AddStart
<1> QED
    BY <1>11 DEF AbstractNext, Abstract!SpecNext

LEMMA AddLastSimulates ==
    ASSUME ListAssumption, RInv, AddLastEnd
    PROVE  AbstractNext
<1> DEFINE n == Len(spine)
<1>1. /\ op = "add_last" /\ heap \in Heap /\ spine \in Seq(Addr) /\ n \in Nat /\ n > 0
      /\ Items \in Seq(Val) /\ Len(Items) = n - 1 /\ arg \in Val
      /\ \A i \in 1 .. n - 1 : Items[i] = heap[spine[i]].data
      /\ \A i \in 1 .. n : spine[i] \in Addr /\ heap[spine[i]] \in Node
    BY ItemsKnown, Places DEF RInv, IInv, Counting, AddLastEnd
<1>2. index \in Nat /\ index + 1 \in 1 .. n /\ curr = spine[index + 1]
    BY <1>1 DEF RInv, IInv, Counting, TypeOK
<1>3. PICK a \in Addr \ Allocated :
        /\ heap' = [heap EXCEPT ![a] = [next |-> NextOf(curr), data |-> arg],
                                ![curr].next = a]
        /\ spine' = InsertAt(spine, Len(spine), a)
    BY DEF AddLastEnd
<1>4. a \in Addr /\ \A i \in 1 .. n : spine[i] # a
    BY <1>3 DEF RInv, IInv, Spine, Chain, Allocated
<1>5. /\ Len(spine') = n + 1
      /\ \A j \in 1 .. n + 1 :
            spine'[j] = IF j < n THEN spine[j] ELSE IF j = n THEN a ELSE spine[n]
    <2>1. spine # <<>>
        BY <1>1
    <2> QED
        BY <1>1, <1>3, <1>4, <2>1, InsertAtElements
<1>6. curr \in Addr /\ curr # a /\ heap[curr] \in Node
    BY <1>1, <1>2, <1>4
<1>7. heap'[a].data = arg /\ \A i \in 1 .. n : heap'[spine[i]].data = heap[spine[i]].data
    <2>1. heap'[a] = [next |-> NextOf(curr), data |-> arg]
        BY <1>1, <1>3, <1>4, <1>6 DEF Heap
    <2>2. ASSUME NEW i \in 1 .. n PROVE heap'[spine[i]].data = heap[spine[i]].data
        <3>1. CASE spine[i] = curr
            BY <1>1, <1>3, <1>4, <1>6, <3>1 DEF Heap, Node
        <3>2. CASE spine[i] # curr
            BY <1>1, <1>3, <1>4, <1>6, <3>2 DEF Heap
        <3> QED
            BY <3>1, <3>2
    <2> QED
        BY <2>1, <2>2
<1>8. /\ Append(Items, arg) \in Seq(Val) /\ Len(Append(Items, arg)) = n
      /\ \A j \in 1 .. n : Append(Items, arg)[j] = IF j < n THEN Items[j] ELSE arg
    BY <1>1
<1>9. \A j \in 1 .. n : heap'[spine'[j]].data = Append(Items, arg)[j]
    <2> TAKE j \in 1 .. n
    <2>1. CASE j < n
        BY <1>1, <1>5, <1>7, <1>8, <2>1
    <2>2. CASE j = n
        BY <1>1, <1>5, <1>7, <1>8, <2>2
    <2> QED
        BY <1>1, <2>1, <2>2
<1>10. ItemsOf(heap', spine') = Append(Items, arg)
    <2> DEFINE t == Append(Items, arg)
    <2>1. t \in Seq(Val) /\ Len(spine') = Len(t) + 1
        BY <1>1, <1>5, <1>8
    <2>2. \A j \in 1 .. Len(t) : heap'[spine'[j]].data = t[j]
        BY <1>8, <1>9
    <2> HIDE DEF t
    <2>3. ItemsOf(heap', spine') = t
        BY <2>1, <2>2, Contents
    <2> QED
        BY <2>3 DEF t
<1>11. op' = "idle" /\ ret' = ret
    BY DEF AddLastEnd, Return
<1>12. Items' = Append(Items, arg)
    BY <1>10, <1>11 DEF Items, ItemsOf
<1>13. Abstract!AddLast(arg)
    BY <1>11, <1>12 DEF Abstract!AddLast
<1> QED
    BY <1>1, <1>13 DEF AbstractNext, Abstract!SpecNext

\* What is deleted at place k of the nodes is deleted at place k of the items.
LEMMA Removed ==
    ASSUME ListAssumption, RInv, op \notin {"free", "gone"}, op' = "idle",
           NEW k \in 1 .. Len(spine) - 1,
           Len(spine') = Len(spine) - 1,
           \A j \in 1 .. Len(spine) - 1 :
              spine'[j] = IF j < k THEN spine[j] ELSE spine[j + 1],
           \A i \in 1 .. Len(spine) : i # k => heap'[spine[i]].data = heap[spine[i]].data
    PROVE  k \in DOMAIN Items /\ Items' = RemoveAt(Items, k)
<1> DEFINE n == Len(spine)
<1>0. /\ spine \in Seq(Addr) /\ n \in Nat /\ n > 0
      /\ Items \in Seq(Val) /\ Len(Items) = n - 1 /\ DOMAIN Items = 1 .. n - 1
      /\ \A i \in 1 .. n - 1 : Items[i] = heap[spine[i]].data
    BY ONLY ListAssumption, RInv, op \notin {"free", "gone"}, ItemsKnown, Places DEF RInv
<1>1. /\ spine \in Seq(Addr) /\ n \in Nat /\ n > 0 /\ k \in 1 .. n
      /\ Items \in Seq(Val) /\ Len(Items) = n - 1 /\ DOMAIN Items = 1 .. n - 1
      /\ \A i \in 1 .. n - 1 : Items[i] = heap[spine[i]].data
    BY <1>0
<1>2. /\ Len(spine') = n - 1
      /\ \A j \in 1 .. n - 1 : spine'[j] = IF j < k THEN spine[j] ELSE spine[j + 1]
    OBVIOUS
<1>3. k \in 1 .. Len(Items)
    BY <1>1
<1>4. /\ RemoveAt(Items, k) \in Seq(Val) /\ Len(RemoveAt(Items, k)) = n - 2
      /\ \A j \in 1 .. n - 2 :
            RemoveAt(Items, k)[j] = IF j < k THEN Items[j] ELSE Items[j + 1]
    <2>1. /\ RemoveAt(Items, k) \in Seq(Val) /\ Len(RemoveAt(Items, k)) = Len(Items) - 1
          /\ \A j \in 1 .. Len(Items) - 1 :
                RemoveAt(Items, k)[j] = IF j < k THEN Items[j] ELSE Items[j + 1]
        BY ONLY <1>1, <1>3, RemoveAtElements
    <2> QED
        BY <1>1, <2>1
<1>5. \A j \in 1 .. n - 2 : heap'[spine'[j]].data = RemoveAt(Items, k)[j]
    <2> TAKE j \in 1 .. n - 2
    <2>0. j \in 1 .. n - 1 /\ j + 1 \in 1 .. n - 1 /\ j \in 1 .. n /\ j + 1 \in 1 .. n
        BY <1>1
    <2>1. CASE j < k
        <3>1. spine'[j] = spine[j] /\ RemoveAt(Items, k)[j] = Items[j]
            BY <1>2, <1>4, <2>0, <2>1
        <3>2. j # k
            BY <1>1, <2>0, <2>1
        <3> QED
            BY <1>1, <2>0, <3>1, <3>2
    <2>2. CASE ~(j < k)
        <3>1. j + 1 # k
            BY <1>1, <2>0, <2>2
        <3>2. spine'[j] = spine[j + 1] /\ RemoveAt(Items, k)[j] = Items[j + 1]
            BY <1>2, <1>4, <2>0, <2>2
        <3> QED
            BY <1>1, <2>0, <3>1, <3>2
    <2> QED
        BY <2>1, <2>2
<1>6. ItemsOf(heap', spine') = RemoveAt(Items, k)
    <2>1. Len(spine') = Len(RemoveAt(Items, k)) + 1
        BY <1>1, <1>2, <1>4
    <2> QED
        BY <1>4, <1>5, <2>1, Contents
<1>7. Items' = RemoveAt(Items, k)
    BY <1>6 DEF Items, ItemsOf
<1> QED
    BY <1>1, <1>3, <1>7

\* That is what list_delete promises.
LEMMA Deleted ==
    ASSUME NEW k \in DOMAIN Items, k \in Nat, Items' = RemoveAt(Items, k),
           ret' = Number(1), k - 1 \in Abstract!Passed
    PROVE  AbstractNext
<1>1. (k - 1) + 1 = k /\ Abstract!Has(k - 1)
    BY DEF Abstract!Has
<1>2. Abstract!Delete(k - 1)
    BY <1>1
       DEF Abstract!Delete, Abstract!Number, Number, Abstract!RemoveAt, RemoveAt
<1> QED
    BY <1>2 DEF AbstractNext, Abstract!SpecNext

\* The first node is deleted.
LEMMA FirstRemoved ==
    ASSUME ListAssumption, RInv, op = "idle", op' = "idle", DeleteFirst, ~AtEnd(head)
    PROVE  1 \in DOMAIN Items /\ Items' = RemoveAt(Items, 1)
<1>1. /\ heap \in Heap /\ spine \in Seq(Addr) /\ Len(spine) \in Nat /\ Len(spine) > 0
      /\ head = spine[1] /\ \A i \in 1 .. Len(spine) : spine[i] \in Addr
    BY ItemsKnown, Places DEF RInv, IInv, Spine
<1>2. Len(spine) # 1
    BY <1>1, Places DEF RInv
<1>3. 1 \in 1 .. Len(spine) - 1
    <2>1. Len(spine) \in Nat /\ Len(spine) > 0 /\ Len(spine) # 1
        BY <1>1, <1>2
    <2>2. \A n \in Nat : n > 0 /\ n # 1 => 1 \in 1 .. n - 1
        OBVIOUS
    <2> QED
        BY ONLY <2>1, <2>2
<1>4. /\ Len(spine') = Len(spine) - 1
      /\ \A j \in 1 .. Len(spine) - 1 :
            spine'[j] = IF j < 1 THEN spine[j] ELSE spine[j + 1]
    BY <1>1 DEF DeleteFirst
<1>5. \A i \in 1 .. Len(spine) : i # 1 => spine[i] # head
    BY <1>1 DEF RInv, IInv, Spine, Chain
<1>6. \A i \in 1 .. Len(spine) : i # 1 => heap'[spine[i]].data = heap[spine[i]].data
    BY <1>1, <1>5 DEF DeleteFirst, Heap
<1> QED
    BY <1>3, <1>4, <1>6, Removed

LEMMA DeleteFirstSimulates ==
    ASSUME ListAssumption, RInv, op = "idle", op' = "idle", DeleteFirst, ~AtEnd(head)
    PROVE  AbstractNext
<1>1. 1 \in DOMAIN Items /\ Items' = RemoveAt(Items, 1)
    BY FirstRemoved
<1>2. 1 - 1 \in Abstract!Passed
    BY <1>1, ItemsKnown DEF RInv, Abstract!Passed
<1>3. ret' = Number(1)
    BY DEF DeleteFirst
<1> QED
    BY <1>1, <1>2, <1>3, Deleted

\* Nothing is deleted at a place that the list does not have.
LEMMA NotDeleted ==
    ASSUME NEW i \in Abstract!Passed, ~Abstract!Has(i), ret' = Number(-1), UNCHANGED Items
    PROVE  AbstractNext
<1>1. Abstract!Delete(i)
    BY DEF Abstract!Delete, Abstract!Number, Number
<1> QED
    BY <1>1 DEF AbstractNext, Abstract!SpecNext

\* list_delete(i), called by a caller or by a collector.
LEMMA DeleteCallSimulates ==
    ASSUME ListAssumption, RInv, op = "idle", NEW i \in Abstract!Passed, i \in Int,
           DeleteCall(i)
    PROVE  AbstractNext
<1>1. CASE i < 0 \/ AtEnd(head)
    <2>1. ret' = Number(-1) /\ UNCHANGED <<heap, head, call, spine, given>>
        BY <1>1 DEF DeleteCall
    <2>2. UNCHANGED Items
        BY <2>1 DEF Items, call
    <2>3. DOMAIN Items = 1 .. Len(spine) - 1 /\ Len(spine) \in Nat
          /\ Len(spine) > 0 /\ head = spine[1]
        BY ItemsKnown DEF RInv, IInv, Spine
    <2>4. ASSUME AtEnd(head) PROVE Len(spine) = 1
        <3>1. 1 \in 1 .. Len(spine) /\ AtEnd(spine[1])
            BY <2>3, <2>4
        <3> QED
            BY ONLY <3>1, ListAssumption, RInv, Places DEF RInv
    <2>5. ~Abstract!Has(i)
        <3>1. i < 0 \/ Len(spine) = 1
            BY <1>1, <2>4
        <3>2. i \in Int
            OBVIOUS
        <3>3. \A n \in Nat : i < 0 \/ n = 1 => i + 1 \notin 1 .. n - 1
            BY <3>2
        <3> QED
            BY ONLY <2>3, <3>1, <3>3 DEF Abstract!Has
    <2> QED
        BY <2>1, <2>2, <2>5, NotDeleted
<1>2. CASE i = 0 /\ ~AtEnd(head)
    <2>1. DeleteFirst /\ op' = "idle"
        BY <1>2 DEF DeleteCall, call
    <2> QED
        BY <1>2, <2>1, DeleteFirstSimulates
<1>3. CASE i # 0 /\ ~(i < 0 \/ AtEnd(head))
    <2>1. Enter("delete", i) /\ UNCHANGED <<heap, head, ret, spine, given>>
        BY <1>3 DEF DeleteCall
    <2> QED
        BY <2>1, Stutters DEF Enter
<1> QED
    BY <1>1, <1>2, <1>3

\* The node that the loop of list_delete has reached is deleted.
LEMMA ReachedRemoved ==
    ASSUME ListAssumption, RInv, DeleteEnd, ~AtEnd(curr)
    PROVE  /\ index = arg /\ index + 1 \in DOMAIN Items
           /\ Items' = RemoveAt(Items, index + 1) /\ ret' = Number(1)
<1> DEFINE n == Len(spine)
<1>1. /\ op = "delete" /\ n \in Nat /\ index \in Nat /\ index + 1 \in 1 .. n
      /\ curr = spine[index + 1] /\ (index > 0 => prev = spine[index])
      /\ arg \in Int /\ arg > 0
      /\ AtEnd(curr) <=> index + 1 = n
    BY Places DEF RInv, IInv, TypeOK, Counting, DeleteEnd
<1>2. index = arg /\ index + 1 \in 1 .. n - 1 /\ prev = spine[index]
      /\ index \in 1 .. n
    BY <1>1 DEF DeleteEnd
<1>3. /\ heap' = [heap EXCEPT ![prev].next = NextOf(curr), ![curr] = Released]
      /\ spine' = RemoveAt(spine, index + 1) /\ ret' = Number(1) /\ op' = "idle"
    BY DEF DeleteEnd, Return
<1>4. /\ heap \in Heap /\ spine \in Seq(Addr)
      /\ \A i \in 1 .. n : spine[i] \in Addr /\ heap[spine[i]] \in Node
    BY Places DEF RInv
<1>5. /\ Len(spine') = n - 1
      /\ \A j \in 1 .. n - 1 :
            spine'[j] = IF j < index + 1 THEN spine[j] ELSE spine[j + 1]
    BY <1>1, <1>3, <1>4, RemoveAtElements
<1>6. ASSUME NEW i \in 1 .. n, i # index + 1
      PROVE  heap'[spine[i]].data = heap[spine[i]].data
    <2>1. spine[i] # curr
        BY <1>1, <1>6 DEF RInv, IInv, Spine, Chain
    <2>2. CASE spine[i] = prev
        BY <1>1, <1>2, <1>3, <1>4, <2>1, <2>2 DEF Heap, Node
    <2>3. CASE spine[i] # prev
        BY <1>1, <1>2, <1>3, <1>4, <2>1, <2>3 DEF Heap
    <2> QED
        BY <2>2, <2>3
<1> QED
    BY <1>1, <1>2, <1>3, <1>5, <1>6, Removed

LEMMA DeleteEndSimulates ==
    ASSUME ListAssumption, RInv, DeleteEnd
    PROVE  AbstractNext
<1> DEFINE n == Len(spine)
<1>1. /\ op = "delete" /\ n \in Nat /\ index \in Nat /\ index + 1 \in 1 .. n
      /\ arg \in Index \cup 0 .. n - 2 /\ arg \in Int /\ arg > 0
      /\ \A i \in 0 .. index - 1 : i # arg
      /\ AtEnd(curr) <=> index + 1 = n
    BY Places DEF RInv, IInv, TypeOK, Counting, Searched, DeleteEnd
<1>2. DOMAIN Items = 1 .. n - 1 /\ Len(Items) = n - 1
    BY <1>1, ItemsKnown DEF RInv
<1>3. arg \in Abstract!Passed
    BY <1>1, <1>2 DEF Abstract!Passed, Abstract!Index, Index
<1>4. CASE AtEnd(curr)
    <2>1. ret' = Number(-1) /\ UNCHANGED Items
        BY <1>1, <1>4, AnswerKeeps DEF DeleteEnd
    <2>2. ~Abstract!Has(arg)
        BY <1>1, <1>2, <1>4 DEF Abstract!Has
    <2> QED
        BY <1>3, <2>1, <2>2, NotDeleted
<1>5. CASE ~AtEnd(curr)
    <2>1. (index + 1) - 1 \in Abstract!Passed /\ index + 1 \in Nat
        BY <1>1, <1>3, <1>5, ReachedRemoved
    <2> QED
        BY <1>5, <2>1, ReachedRemoved, Deleted
<1> QED
    BY <1>4, <1>5

LEMMA SliceSimulates ==
    ASSUME ListAssumption, RInv, SliceEnd
    PROVE  AbstractNext
<1> DEFINE n == Len(spine)
<1>1. /\ op = "slice" /\ n \in Nat /\ index \in Nat /\ index + 1 \in 1 .. n
      /\ curr = spine[index + 1] /\ (index > 0 => prev = spine[index])
      /\ arg \in Index /\ arg \in Int /\ arg # 0
      /\ \A i \in 0 .. index - 1 : i # arg
      /\ AtEnd(curr) <=> index + 1 = n
    BY Places DEF RInv, IInv, TypeOK, Counting, Searched, SliceEnd
<1>2. /\ Items \in Seq(Val) /\ DOMAIN Items = 1 .. n - 1 /\ Len(Items) = n - 1
      /\ \A i \in 1 .. n - 1 : Items[i] = heap[spine[i]].data
    BY <1>1, ItemsKnown DEF RInv
<1>3. arg \in Abstract!Passed
    BY <1>1 DEF Abstract!Passed, Abstract!Index, Index
<1>4. SUFFICES Abstract!Slice(arg)
    BY <1>3, <1>4 DEF AbstractNext, Abstract!SpecNext
<1>5. CASE AtEnd(curr)
    <2>1. ret' = Nothing /\ UNCHANGED Items
        BY <1>1, <1>5, AnswerKeeps DEF SliceEnd
    <2>2. ~Abstract!Has(arg)
        BY <1>1, <1>2, <1>5 DEF Abstract!Has
    <2> QED
        BY <2>1, <2>2 DEF Abstract!Slice, Abstract!Nothing, Nothing
<1>6. CASE ~AtEnd(curr)
    <2>1. index = arg /\ index + 1 \in 1 .. n - 1 /\ prev = spine[index]
          /\ index \in 1 .. n /\ index \in 0 .. n - 1
        BY <1>1, <1>6 DEF SliceEnd
    <2>2. PICK a \in Addr \ Allocated :
            /\ heap' = [heap EXCEPT ![a] = Sentinel, ![prev].next = a]
            /\ ret' = List([i \in 1 .. n - 1 - index |-> heap[spine[index + i]].data])
            /\ spine' = Append(SubSeq(spine, 1, index), a)
            /\ op' = "idle"
        BY <1>6 DEF SliceEnd, Return
    <2>3. /\ heap \in Heap /\ spine \in Seq(Addr)
          /\ \A i \in 1 .. n : spine[i] \in Addr /\ heap[spine[i]] \in Node
        BY Places DEF RInv
    <2>4. a \in Addr /\ \A i \in 1 .. n : spine[i] # a
        BY <2>2 DEF RInv, IInv, Spine, Chain, Allocated
    <2>5. /\ Len(spine') = index + 1
          /\ \A j \in 1 .. index + 1 : spine'[j] = IF j <= index THEN spine[j] ELSE a
        <3>1. index \in 0 .. Len(spine)
            BY <1>1
        <3> QED
            BY <2>2, <2>3, <2>4, <3>1, CutElements
    <2>6. \A i \in 1 .. index : heap'[spine[i]].data = heap[spine[i]].data
        <3> TAKE i \in 1 .. index
        <3>0. i \in 1 .. n
            BY <1>1
        <3>1. CASE spine[i] = prev
            BY <2>1, <2>2, <2>3, <2>4, <3>0, <3>1 DEF Heap, Node
        <3>2. CASE spine[i] # prev
            BY <2>1, <2>2, <2>3, <2>4, <3>0, <3>2 DEF Heap
        <3> QED
            BY <3>1, <3>2
    <2>7. /\ SubSeq(Items, 1, index) \in Seq(Val) /\ Len(SubSeq(Items, 1, index)) = index
          /\ \A j \in 1 .. index : SubSeq(Items, 1, index)[j] = Items[j]
        <3>1. index \in 0 .. Len(Items)
            BY <1>1, <1>2, <2>1
        <3> QED
            BY <1>2, <3>1, PrefixElements
    <2>8. Items' = SubSeq(Items, 1, index)
        <3> DEFINE t == SubSeq(Items, 1, index)
        <3>1. t \in Seq(Val) /\ Len(spine') = Len(t) + 1
            BY <1>1, <2>5, <2>7
        <3>2. \A j \in 1 .. Len(t) : heap'[spine'[j]].data = t[j]
            BY SMTT(20), <1>1, <1>2, <2>1, <2>5, <2>6, <2>7
        <3> HIDE DEF t
        <3>3. ItemsOf(heap', spine') = t
            BY <3>1, <3>2, Contents
        <3> QED
            BY <2>2, <3>3 DEF t, Items, ItemsOf
    <2>9. ret' = List(SubSeq(Items, index + 1, Len(Items)))
        <3>1. SubSeq(Items, index + 1, Len(Items)) =
                [i \in 1 .. n - 1 - index |-> Items[index + i]]
            BY <1>1, <1>2, <2>1
        <3>2. \A i \in 1 .. n - 1 - index : Items[index + i] = heap[spine[index + i]].data
            BY <1>1, <1>2
        <3>3. [i \in 1 .. n - 1 - index |-> Items[index + i]] =
                [i \in 1 .. n - 1 - index |-> heap[spine[index + i]].data]
            BY <3>2
        <3> QED
            BY <2>2, <3>1, <3>3
    <2>10. Abstract!Has(arg)
        BY <1>2, <2>1 DEF Abstract!Has
    <2> QED
        BY <1>1, <2>1, <2>8, <2>9, <2>10 DEF Abstract!Slice, Abstract!List, List
<1> QED
    BY <1>5, <1>6

\* list_free: the sequence is empty from the call on.
LEMMA FreeSimulates ==
    ASSUME FreeCall \/ FreeLoop \/ FreeEnd
    PROVE  AbstractNext
<1>1. CASE FreeCall
    <2>1. Abstract!Free
        BY <1>1 DEF FreeCall, Enter, Items, Abstract!Free
    <2> QED
        BY <2>1 DEF AbstractNext, Abstract!SpecNext
<1>2. CASE FreeLoop \/ FreeEnd
    BY <1>2 DEF FreeLoop, FreeEnd, Items, AbstractNext
<1> QED
    BY <1>1, <1>2

-----------------------------------------------------------------------------
(* The refinement.                                                         *)

LEMMA Simulates ==
    ASSUME ListAssumption, RInv, [Next]_vars
    PROVE  AbstractNext
<1>1. ASSUME NEW v \in Val, AddStart(v) PROVE AbstractNext
    BY <1>1, PushSimulates DEF AddStart
<1>2. ASSUME NEW v \in Val, AddLastCall(v) PROVE AbstractNext
    <2>1. CASE Push(v)
        BY <1>2, <2>1, PushSimulates DEF AddLastCall
    <2>2. CASE Enter("add_last", v) /\ UNCHANGED <<heap, head, ret, collector, spine, given>>
        BY <1>2, <2>2, Stutters DEF AddLastCall, Idle, Enter
    <2> QED
        BY <1>2, <2>1, <2>2 DEF AddLastCall
<1>3. ASSUME NEW v \in Val, FindCall(v) PROVE AbstractNext
    BY <1>3, Stutters DEF FindCall, Idle, Enter
<1>4. ASSUME NEW i \in Index, GetCall(i) \/ SliceCall(i) PROVE AbstractNext
    <2>1. CASE Answer(Nothing) /\ ((GetCall(i) /\ i < 0) \/ (SliceCall(i) /\ i = 0))
        BY <1>4, <2>1, RefusalSimulates DEF GetCall, SliceCall, Index
    <2>2. CASE (Enter("get", i) \/ Enter("slice", i))
               /\ UNCHANGED <<heap, head, ret, collector, spine, given>>
        BY <1>4, <2>2, Stutters DEF GetCall, SliceCall, Idle, Enter
    <2>3. CASE GetCall(i)
        BY <2>1, <2>2, <2>3 DEF GetCall
    <2>4. CASE SliceCall(i)
        BY <2>1, <2>2, <2>4 DEF SliceCall
    <2> QED
        BY <1>4, <2>3, <2>4
<1>5. ASSUME NEW i \in Index, Delete(i) PROVE AbstractNext
    <2>1. i \in Abstract!Passed /\ i \in Int
        BY DEF Abstract!Passed, Abstract!Index, Index
    <2> QED
        BY <1>5, <2>1, DeleteCallSimulates DEF Delete, Idle
<1>6. CASE ToArrayCall \/ ToArrayLoop
    BY <1>6, Stutters DEF ToArrayCall, ToArrayLoop, Idle
<1>7. CASE FreeCall \/ FreeLoop \/ FreeEnd
    BY <1>7, FreeSimulates
<1>8. ASSUME NEW D \in SUBSET Val, CollectCall(D) PROVE AbstractNext
    BY <1>8, Stutters DEF CollectCall, Idle, call
<1>9. CASE AddLastLoop \/ FindLoop \/ GetLoop \/ DeleteLoop \/ SliceLoop
    BY <1>9, Stutters DEF AddLastLoop, FindLoop, GetLoop, DeleteLoop, SliceLoop, Advance
<1>10. CASE AddLastEnd
    BY <1>10, AddLastSimulates
<1>11. CASE FindEnd
    BY <1>11, FindSimulates
<1>12. CASE GetEnd
    BY <1>12, GetSimulates
<1>13. CASE DeleteEnd
    BY <1>13, DeleteEndSimulates
<1>14. CASE SliceEnd
    BY <1>14, SliceSimulates
<1>15. CASE ToArrayEnd
    BY <1>15, CopySimulates
<1>16. CASE CollectKeep \/ CollectEnd
    BY <1>16, Stutters DEF CollectKeep, CollectEnd, Collecting, call
<1>17. CASE CollectDelete
    <2>1. op = "idle" /\ iter # Null /\ ~AtEnd(iter) /\ DeleteCall(count)
        BY <1>17 DEF CollectDelete, Collecting
    <2>2. count \in Nat /\ count + 1 \in 1 .. Len(spine) /\ iter = spine[count + 1]
          /\ Len(spine) \in Nat
        BY <2>1, Places DEF RInv, IInv, TypeOK, Collector
    <2>3. count + 1 # Len(spine)
        BY <2>1, <2>2, Places DEF RInv
    <2>4. Len(Items) = Len(spine) - 1
        BY <2>1, ItemsKnown DEF RInv
    <2>5. count \in Abstract!Passed /\ count \in Int
        BY <2>2, <2>3, <2>4 DEF Abstract!Passed
    <2> QED
        BY <2>1, <2>5, DeleteCallSimulates
<1>18. CASE UNCHANGED vars
    BY <1>18 DEF vars, call, Items, AbstractNext
<1> QED
    BY <1>1, <1>2, <1>3, <1>4, <1>5, <1>6, <1>7, <1>8, <1>9, <1>10, <1>11, <1>12,
       <1>13, <1>14, <1>15, <1>16, <1>17, <1>18 DEF Next, Caller, Step

LEMMA InitSimulates ==
    ASSUME ListAssumption, Init
    PROVE  RInv /\ Abstract!SpecInit
<1>1. IInv
    BY InitIInv
<1>2. RInv
    BY <1>1 DEF Init, RInv, Searched, Copied
<1>3. op = "idle" /\ Len(spine) = 1 /\ ret = Nothing
    BY DEF Init
<1>4. Items = <<>>
    BY <1>3 DEF Items
<1> QED
    BY <1>2, <1>3, <1>4 DEF Abstract!SpecInit, Abstract!Nothing, Nothing

\* list.c keeps what list.h promises: seen as the sequence of the data in its
\* nodes, each call takes effect in one step and answers what the sequence
\* answers, also list_delete when a collector calls it while it walks.
THEOREM ListImplemented == Spec => Implements
<1>1. Init => RInv /\ Abstract!SpecInit
    BY ListAssumption, InitSimulates
<1>2. RInv /\ [Next]_vars => RInv'
    BY ListAssumption, RInvStep
<1>3. RInv /\ [Next]_vars => [Abstract!SpecNext]_<<Items, ret>>
    BY ListAssumption, Simulates DEF AbstractNext
<1>4. Spec => Abstract!SpecInit /\ [][Abstract!SpecNext]_<<Items, ret>>
    BY <1>1, <1>2, <1>3, PTL DEF Spec
<1> QED
    BY <1>4 DEF Implements, Abstract!AbstractSpec

-----------------------------------------------------------------------------
(* The collectors.                                                         *)

\* What a collector has passed it keeps; the node it has list_delete look for is
\* one that it must delete.
Passing ==
    iter # Null =>
        /\ \A i \in 1 .. count : heap[spine[i]].data \notin doomed
        /\ op = "delete" => heap[spine[count + 1]].data \in doomed

\* A collector takes its next node.
LEMMA CollectorAt ==
    ASSUME ListAssumption, RInv, Collecting
    PROVE  /\ count \in Nat /\ count + 1 \in 1 .. Len(spine) /\ iter = spine[count + 1]
           /\ Len(spine) \in Nat /\ (AtEnd(iter) <=> count + 1 = Len(spine))
    BY Places DEF RInv, IInv, TypeOK, Collector, Collecting

\* list_delete, called by a collector, never misses: the index is the node's.
LEMMA CollectorHits ==
    ASSUME ListAssumption, RInv, iter # Null, DeleteEnd
    PROVE  ~AtEnd(curr) /\ index = count
<1>1. /\ op = "delete" /\ index \in Nat /\ count \in Nat /\ Len(spine) \in Nat
      /\ arg = count /\ index <= count /\ count + 2 <= Len(spine)
      /\ AtEnd(curr) <=> index + 1 = Len(spine)
    BY Places DEF RInv, IInv, TypeOK, Counting, Collector, DeleteEnd
<1> QED
    BY <1>1 DEF DeleteEnd

\* What a step of another kind leaves to the collector, while one walks.
LEMMA CollectorSteps ==
    ASSUME RInv, Next, iter # Null
    PROVE  CollectKeep \/ CollectDelete \/ CollectEnd \/ DeleteLoop \/ DeleteEnd
<1>1. op \in {"idle", "delete"} /\ ~Idle
    BY DEF RInv, IInv, Collector, Idle
<1>2. ~Caller
    BY <1>1 DEF Caller, AddStart, AddLastCall, FindCall, GetCall, Delete, SliceCall,
                ToArrayCall, FreeCall, CollectCall
<1>3. Step
    BY <1>2 DEF Next
<1> QED
    BY <1>1, <1>3 DEF Step, AddLastLoop, AddLastEnd, FindLoop, FindEnd, GetLoop, GetEnd,
                      SliceLoop, SliceEnd, ToArrayLoop, ToArrayEnd, FreeLoop, FreeEnd

LEMMA PassingStep ==
    ASSUME ListAssumption, RInv, Passing, [Next]_vars
    PROVE  Passing'
<1>1. CASE UNCHANGED vars
    BY <1>1 DEF vars, call, collector, Passing
<1>2. CASE iter = Null /\ Next
    <2>1. ASSUME NEW D \in SUBSET Val, CollectCall(D) PROVE Passing'
        BY <2>1 DEF CollectCall, Idle, call, Passing
    <2>2. CASE UNCHANGED iter
        BY <1>2, <2>2 DEF Passing
    <2> QED
        BY <1>2, <2>1, <2>2
           DEF Next, Caller, Step, AddStart, AddLastCall, FindCall, GetCall, Delete,
               SliceCall, ToArrayCall, FreeCall, AddLastLoop, AddLastEnd, FindLoop,
               FindEnd, GetLoop, GetEnd, DeleteLoop, DeleteEnd, SliceLoop, SliceEnd,
               ToArrayLoop, ToArrayEnd, FreeLoop, FreeEnd, CollectKeep, CollectDelete,
               CollectEnd, Collecting, Push, Answer, Advance, collector
<1>3. CASE CollectKeep
    <2>1. \A i \in 1 .. count + 1 : heap[spine[i]].data \notin doomed
        BY <1>3, CollectorAt DEF CollectKeep, Collecting, Passing
    <2>2. count' = count + 1 /\ op' = "idle" /\ UNCHANGED <<heap, spine, doomed>>
        BY <1>3 DEF CollectKeep, Collecting, call
    <2> QED
        BY <2>1, <2>2 DEF Passing
<1>4. CASE CollectDelete
    <2>1. /\ count \in Nat /\ count + 1 \in 1 .. Len(spine) /\ iter = spine[count + 1]
          /\ op = "idle" /\ iter # Null /\ heap[iter].data \in doomed
          /\ DeleteCall(count) /\ UNCHANGED <<count, doomed>>
        BY <1>4, CollectorAt DEF CollectDelete, Collecting
    <2>2. CASE UNCHANGED <<heap, spine>>
        <3>1. \A i \in 1 .. count : heap'[spine'[i]].data \notin doomed'
            BY <2>1, <2>2 DEF Passing
        <3>2. heap'[spine'[count' + 1]].data \in doomed'
            BY <2>1, <2>2
        <3> QED
            BY <2>1, <3>1, <3>2 DEF Passing
    <2>3. CASE DeleteFirst /\ UNCHANGED call /\ count = 0
        BY <2>1, <2>3 DEF call, Passing
    <2> QED
        BY <2>1, <2>2, <2>3 DEF DeleteCall
<1>5. CASE DeleteLoop
    BY <1>5 DEF DeleteLoop, Advance, collector, Passing
<1>6. CASE DeleteEnd /\ iter # Null
    <2>1. /\ ~AtEnd(curr) /\ index = count /\ op' = "idle"
          /\ heap' = [heap EXCEPT ![prev].next = NextOf(curr), ![curr] = Released]
          /\ spine' = RemoveAt(spine, index + 1) /\ UNCHANGED collector
        BY <1>6, CollectorHits DEF DeleteEnd, Return
    <2>2. /\ op = "delete" /\ index \in Nat /\ index + 1 \in 1 .. Len(spine)
          /\ Len(spine) \in Nat /\ curr = spine[index + 1]
          /\ index + 2 \in 1 .. Len(spine)
        BY <1>6, <2>1, Places DEF RInv, IInv, TypeOK, Counting, Collector, DeleteEnd
    <2>3. /\ heap \in Heap /\ spine \in Seq(Addr)
          /\ \A i \in 1 .. Len(spine) : spine[i] \in Addr /\ heap[spine[i]] \in Node
        BY Places DEF RInv
    <2>4. \A i \in 1 .. count : heap'[spine'[i]].data = heap[spine[i]].data
        <3> TAKE i \in 1 .. count
        <3>1. i \in 1 .. Len(spine) - 1 /\ i < index + 1 /\ i \in 1 .. Len(spine)
            BY <2>1, <2>2
        <3>2. spine'[i] = spine[i]
            BY <2>1, <2>2, <2>3, <3>1, RemoveAtElements
        <3>3. spine[i] # curr
            BY <2>2, <3>1 DEF RInv, IInv, Spine, Chain
        <3>4. prev \in Addr /\ heap[prev] \in Node
            BY <2>1, <2>2, <2>3, <3>1 DEF RInv, IInv, Counting
        <3>5. heap'[spine[i]].data = heap[spine[i]].data
            <4>1. CASE spine[i] = prev
                BY <2>1, <2>3, <3>1, <3>3, <3>4, <4>1 DEF Heap, Node
            <4>2. CASE spine[i] # prev
                BY <2>1, <2>3, <3>1, <3>3, <3>4, <4>2 DEF Heap
            <4> QED
                BY <4>1, <4>2
        <3> QED
            BY <3>2, <3>5
    <2>5. op' = "idle" /\ iter # Null /\ UNCHANGED <<iter, count, doomed>>
        BY <1>6, <2>1 DEF collector
    <2>6. \A i \in 1 .. count : heap'[spine'[i]].data \notin doomed
        BY ONLY Passing, <2>4, <2>5 DEF Passing
    <2> QED
        BY ONLY <2>5, <2>6 DEF Passing
<1>7. CASE CollectEnd
    BY <1>7 DEF CollectEnd, Passing
<1> QED
    BY <1>1, <1>2, <1>3, <1>4, <1>5, <1>6, <1>7, CollectorSteps

\* A collector takes out only what it must.
LEMMA CollectorTakes ==
    ASSUME ListAssumption, RInv, Passing, [Next]_vars, iter # Null
    PROVE  \/ Items' = Items
           \/ \E i \in DOMAIN Items : Items[i] \in doomed /\ Items' = RemoveAt(Items, i)
<1>0. op \in {"idle", "delete"} /\ op \notin {"free", "gone"}
    BY DEF RInv, IInv, Collector
<1>1. CASE UNCHANGED <<heap, spine>> /\ op' \notin {"free", "gone"}
    BY <1>0, <1>1 DEF Items
<1>2. CASE UNCHANGED vars \/ CollectKeep \/ CollectEnd \/ DeleteLoop
    BY <1>0, <1>1, <1>2 DEF vars, call, CollectKeep, CollectEnd, DeleteLoop, Advance
<1>3. CASE CollectDelete
    <2>1. /\ count \in Nat /\ count + 1 \in 1 .. Len(spine) /\ iter = spine[count + 1]
          /\ op = "idle" /\ heap[iter].data \in doomed /\ DeleteCall(count)
        BY <1>3, CollectorAt DEF CollectDelete, Collecting
    <2>2. CASE DeleteFirst /\ UNCHANGED call /\ count = 0 /\ ~AtEnd(head)
        <3>1. 1 \in DOMAIN Items /\ Items' = RemoveAt(Items, 1)
            BY <2>1, <2>2, FirstRemoved DEF call
        <3>2. Items[1] \in doomed
            BY <1>0, <2>1, <2>2, <3>1, ItemsKnown DEF RInv
        <3> QED
            BY <3>1, <3>2
    <2>3. CASE UNCHANGED <<heap, spine>> /\ op' \in {"idle", "delete"}
        BY <1>1, <2>3
    <2> QED
        BY <2>1, <2>2, <2>3 DEF DeleteCall, Enter, call
<1>4. CASE DeleteEnd
    <2>1. /\ index = count /\ index + 1 \in DOMAIN Items
          /\ Items' = RemoveAt(Items, index + 1)
        BY <1>4, CollectorHits, ReachedRemoved
    <2>2. Items[count + 1] = heap[spine[count + 1]].data
        BY <1>0, <2>1, ItemsKnown DEF RInv
    <2>3. heap[spine[count + 1]].data \in doomed
        BY <1>4 DEF DeleteEnd, Passing
    <2> QED
        BY <2>1, <2>2, <2>3
<1> QED
    BY <1>2, <1>3, <1>4, CollectorSteps

\* A collector that comes to the end of the list has left no node it must delete.
LEMMA CollectorDone ==
    ASSUME ListAssumption, RInv, Passing, [Next]_vars, Collecting, iter' = Null
    PROVE  \A i \in DOMAIN Items : Items[i] \notin doomed
<1>1. iter # Null /\ op = "idle" /\ Idle = FALSE
    BY DEF Collecting, Idle
<1>2. /\ count \in Nat /\ count + 1 \in 1 .. Len(spine) /\ iter = spine[count + 1]
      /\ Len(spine) \in Nat /\ (AtEnd(iter) <=> count + 1 = Len(spine))
    BY CollectorAt
<1>3. AtEnd(iter)
    BY <1>1, CollectorSteps
       DEF vars, collector, CollectKeep, CollectDelete, CollectEnd, DeleteLoop, DeleteEnd,
           AtEnd
<1>4. DOMAIN Items = 1 .. count /\ \A i \in 1 .. count : Items[i] = heap[spine[i]].data
    BY <1>1, <1>2, <1>3, ItemsKnown DEF RInv
<1> QED
    BY <1>1, <1>4 DEF Passing

\* garb_collec_old_packets and garb_collec_old_conn delete while they walk, and by an
\* index: when one comes to its end every item it must delete is gone, and until then
\* each of its steps takes out one such item or none.  The node it stands on is at its
\* index, and list_delete, which walks the list again, finds that very node.
THEOREM CollectorsExact == Spec => CollectedAll /\ OthersKept
<1>1. Init => RInv /\ Passing
    BY ListAssumption, InitSimulates DEF Init, Passing
<1>2. RInv /\ Passing /\ [Next]_vars => (RInv /\ Passing)'
    BY ListAssumption, RInvStep, PassingStep
<1> DEFINE All == Collecting /\ iter' = Null =>
                      \A i \in DOMAIN Items : Items[i] \notin doomed
           One == iter # Null =>
                      \/ Items' = Items
                      \/ \E i \in DOMAIN Items :
                            Items[i] \in doomed /\ Items' = RemoveAt(Items, i)
<1>3. RInv /\ Passing /\ [Next]_vars => [All]_vars /\ [One]_vars
    BY ListAssumption, CollectorTakes, CollectorDone
<1> HIDE DEF All, One
<1>4. Spec => [][All]_vars /\ [][One]_vars
    BY <1>1, <1>2, <1>3, PTL DEF Spec
<1> QED
    BY <1>4 DEF CollectedAll, OthersKept, All, One

-----------------------------------------------------------------------------
(* Calls and collectors end.                                               *)

\* The sizes that Left is made of.
LEMMA Sizes ==
    ASSUME ListAssumption, RInv, op # "gone"
    PROVE  /\ Len(spine) \in Nat /\ Len(array) \in Nat /\ index \in Nat /\ count \in Nat
           /\ 1 <= Len(spine)
           /\ op \in {"add_last", "find", "get", "delete", "slice"} =>
                index + 1 <= Len(spine)
           /\ op = "to_array" => Len(array) + 1 <= Len(spine)
           /\ iter # Null => count + 1 <= Len(spine) /\ op \in {"idle", "delete"}
<1>1. /\ Len(spine) \in Nat /\ Len(array) \in Nat /\ index \in Nat /\ count \in Nat
      /\ spine # <<>> /\ spine \in Seq(Addr)
    BY DEF RInv, IInv, TypeOK, Spine
<1>2. 1 <= Len(spine)
    BY <1>1
<1> QED
    BY <1>1, <1>2 DEF RInv, IInv, Counting, Collector, Copied

\* Left, call by call.
LEMMA LeftIs ==
    /\ Left[1] = IF iter # Null THEN Len(spine) - count ELSE 0
    /\ op = "idle" => Left[2] = Len(spine) + 1
    /\ op = "to_array" => Left[2] = Len(spine) - Len(array)
    /\ op = "free" => Left[2] = Len(spine)
    /\ op \in {"add_last", "find", "get", "delete", "slice"} => Left[2] = Len(spine) - index
BY DEF Left

\* The same after a step.
LEMMA LeftThen ==
    /\ Left'[1] = IF iter' # Null THEN Len(spine') - count' ELSE 0
    /\ op' = "idle" => Left'[2] = Len(spine') + 1
    /\ op' = "to_array" => Left'[2] = Len(spine') - Len(array')
    /\ op' = "free" => Left'[2] = Len(spine')
    /\ op' \in {"add_last", "find", "get", "delete", "slice"} =>
            Left'[2] = Len(spine') - index'
BY DEF Left

\* Left is a measure.
LEMMA LeftType ==
    ASSUME ListAssumption, RInv, op # "gone"
    PROVE  Left \in Nat \X Nat
<1>1. op \in {"idle", "add_last", "find", "get", "delete", "slice", "to_array", "free"}
    BY DEF RInv, IInv, TypeOK
<1>2. Left[1] \in Nat /\ Left[2] \in Nat
    BY <1>1, Sizes, LeftIs
<1>3. Left = <<Left[1], Left[2]>>
    BY DEF Left
<1> QED
    BY <1>2, <1>3

\* A loop that looks at the next node.
LEMMA AdvanceLess ==
    ASSUME ListAssumption, RInv, Advance,
           op \in {"add_last", "find", "get", "delete", "slice"}
    PROVE  Less(Left', Left)
<1>1. /\ index' = index + 1 /\ op' = op
      /\ UNCHANGED <<spine, iter, count>>
    BY DEF Advance, collector
<1>2. Left'[1] = Left[1]
    BY <1>1, LeftIs, LeftThen
<1>3. Left'[2] = Len(spine) - (index + 1) /\ Left[2] = Len(spine) - index
    BY <1>1, LeftIs, LeftThen
<1>4. Len(spine) \in Nat /\ index \in Nat
    BY Sizes
<1>5. Left'[2] < Left[2]
    BY ONLY <1>3, <1>4
<1> QED
    BY <1>2, <1>5 DEF Less

\* A call that returns, when no collector made it.
LEMMA ReturnEnds ==
    ASSUME iter = Null, Return, UNCHANGED collector
    PROVE  Idle'
    BY DEF Return, Idle, collector

\* list_to_array and list_free.
LEMMA WalkLess ==
    ASSUME ListAssumption, RInv, ToArrayLoop \/ FreeLoop
    PROVE  Less(Left', Left)
<1>1. op \in {"to_array", "free"} /\ iter = Null /\ iter' = Null /\ op' = op
    BY DEF ToArrayLoop, FreeLoop, RInv, IInv, Collector, collector
<1>2. Left'[1] = 0 /\ Left[1] = 0
    BY <1>1, LeftIs, LeftThen
<1>3. Len(spine) \in Nat /\ Len(array) \in Nat /\ 1 <= Len(spine)
    BY <1>1, Sizes
<1>4. CASE ToArrayLoop
    <2>1. op = "to_array" /\ array' = Append(array, heap[curr].data) /\ UNCHANGED spine
        BY <1>4 DEF ToArrayLoop
    <2>2. Len(array') = Len(array) + 1
        <3>1. array \in Seq(Val) /\ heap[curr].data \in Val
            <4>1. /\ Len(array) + 1 \in 1 .. Len(spine) /\ curr = spine[Len(array) + 1]
                  /\ ~AtEnd(curr)
                BY <1>4, <2>1 DEF RInv, Copied, ToArrayLoop
            <4>2. heap[curr].data \in Val
                BY <1>3, <4>1, Places DEF RInv
            <4> QED
                BY <4>2 DEF RInv, IInv, TypeOK
        <3> QED
            BY <2>1, <3>1, AppendProperties
    <2>3. Left'[2] = Len(spine) - (Len(array) + 1) /\ Left[2] = Len(spine) - Len(array)
        BY <1>1, <2>1, <2>2, LeftIs, LeftThen
    <2>4. Left'[2] < Left[2]
        BY ONLY <1>3, <2>3
    <2> QED
        BY <1>2, <2>4 DEF Less
<1>5. CASE FreeLoop
    <2>1. op = "free" /\ spine' = Tail(spine) /\ spine \in Seq(Addr) /\ spine # <<>>
        BY <1>5 DEF FreeLoop, RInv, IInv, TypeOK, Spine
    <2>2. Len(spine') = Len(spine) - 1
        BY <2>1, HeadTailProperties
    <2>3. Left'[2] = Len(spine) - 1 /\ Left[2] = Len(spine)
        BY <1>1, <2>1, <2>2, LeftIs, LeftThen
    <2>4. Left'[2] < Left[2]
        BY ONLY <1>3, <2>3
    <2> QED
        BY <1>2, <2>4 DEF Less
<1> QED
    BY <1>4, <1>5

\* A collector that keeps its node, and one that has it deleted.
LEMMA CollectLess ==
    ASSUME ListAssumption, RInv, CollectKeep \/ CollectDelete
    PROVE  Less(Left', Left) \/ Idle'
<1>1. /\ op = "idle" /\ iter # Null /\ count \in Nat /\ Len(spine) \in Nat
      /\ count + 1 \in 1 .. Len(spine) /\ iter = spine[count + 1]
      /\ (AtEnd(iter) <=> count + 1 = Len(spine)) /\ ~AtEnd(iter)
    BY CollectorAt DEF CollectKeep, CollectDelete, Collecting
<1>2. iter' # Null
    <2>1. iter' = NextOf(iter) /\ ~AtEnd(iter)
        BY <1>1 DEF CollectKeep, CollectDelete
    <2> QED
        BY <2>1 DEF AtEnd
<1>3. Left[1] = Len(spine) - count /\ Left'[1] = Len(spine') - count'
    BY <1>1, <1>2, LeftIs, LeftThen
<1>4. CASE CollectKeep
    <2>1. count' = count + 1 /\ spine' = spine
        BY <1>4 DEF CollectKeep
    <2>2. Left'[1] < Left[1]
        BY ONLY <1>1, <1>3, <2>1
    <2> QED
        BY <2>2 DEF Less
<1>5. CASE CollectDelete
    <2>1. count' = count /\ DeleteCall(count)
        BY <1>5 DEF CollectDelete
    <2>2. ~AtEnd(head) /\ ~(count < 0)
        BY <1>1, Places DEF RInv, IInv, Spine
    <2>3. CASE count = 0
        <3>1. spine' = Tail(spine) /\ spine \in Seq(Addr) /\ spine # <<>>
            BY <1>1, <2>1, <2>2, <2>3 DEF DeleteCall, DeleteFirst, RInv, IInv, TypeOK, Spine
        <3>2. Len(spine') = Len(spine) - 1
            BY <3>1, HeadTailProperties
        <3>3. Left'[1] < Left[1]
            BY ONLY <1>1, <1>3, <2>1, <3>2
        <3> QED
            BY <3>3 DEF Less
    <2>4. CASE count # 0
        <3>1. op' = "delete" /\ index' = 0 /\ spine' = spine
            BY <2>1, <2>2, <2>4 DEF DeleteCall, Enter
        <3>2. Left'[1] = Left[1]
            BY <1>3, <2>1, <3>1
        <3>3. Left'[2] = Len(spine) - 0 /\ Left[2] = Len(spine) + 1
            BY <1>1, <3>1, LeftIs, LeftThen
        <3>4. Left'[2] < Left[2]
            BY ONLY <1>1, <3>3
        <3> QED
            BY <3>2, <3>4 DEF Less
    <2> QED
        BY <2>3, <2>4
<1> QED
    BY <1>4, <1>5

\* list_delete ends, and if a collector called it, the list is shorter.
LEMMA DeleteLess ==
    ASSUME ListAssumption, RInv, DeleteEnd
    PROVE  Less(Left', Left) \/ Idle'
<1>1. CASE iter = Null
    BY <1>1, ReturnEnds DEF DeleteEnd, Answer, Idle
<1>2. CASE iter # Null
    <2>1. ~AtEnd(curr) /\ index = count
        BY <1>2, CollectorHits
    <2>2. spine' = RemoveAt(spine, index + 1) /\ UNCHANGED collector
        BY <2>1 DEF DeleteEnd
    <2>3. /\ spine \in Seq(Addr) /\ Len(spine) \in Nat /\ count \in Nat
          /\ index + 1 \in 1 .. Len(spine)
        BY Places DEF DeleteEnd, RInv, IInv, TypeOK, Counting
    <2>4. Len(spine') = Len(spine) - 1
        BY <2>2, <2>3, RemoveAtElements
    <2>5. Left[1] = Len(spine) - count /\ Left'[1] = Len(spine') - count
        BY <1>2, <2>2, LeftIs, LeftThen DEF collector
    <2>6. Left'[1] < Left[1]
        BY ONLY <2>3, <2>4, <2>5
    <2> QED
        BY <2>6 DEF Less
<1> QED
    BY <1>1, <1>2

\* Every step of a call or of a collector.
LEMMA StepLess ==
    ASSUME ListAssumption, RInv, Next, ~Idle, op # "gone"
    PROVE  Idle' \/ op' = "gone" \/ Less(Left', Left)
<1>1. ~Caller
    BY DEF Caller, AddStart, AddLastCall, FindCall, GetCall, Delete, SliceCall,
           ToArrayCall, FreeCall, CollectCall
<1>2. CASE AddLastLoop \/ FindLoop \/ GetLoop \/ DeleteLoop \/ SliceLoop
    BY <1>2, AdvanceLess DEF AddLastLoop, FindLoop, GetLoop, DeleteLoop, SliceLoop
<1>3. CASE AddLastEnd \/ FindEnd \/ GetEnd \/ SliceEnd \/ ToArrayEnd
    <2>1. iter = Null
        BY <1>3 DEF AddLastEnd, FindEnd, GetEnd, SliceEnd, ToArrayEnd, RInv, IInv, Collector
    <2>2. Return /\ UNCHANGED collector
        BY <1>3 DEF AddLastEnd, FindEnd, GetEnd, SliceEnd, ToArrayEnd, Answer
    <2> QED
        BY <2>1, <2>2, ReturnEnds
<1>4. CASE ToArrayLoop \/ FreeLoop
    BY <1>4, WalkLess
<1>5. CASE FreeEnd
    BY <1>5 DEF FreeEnd
<1>6. CASE CollectKeep \/ CollectDelete
    BY <1>6, CollectLess
<1>7. CASE DeleteEnd
    BY <1>7, DeleteLess
<1>8. CASE CollectEnd
    BY <1>8 DEF CollectEnd, Collecting, Idle, call
<1> QED
    BY <1>1, <1>2, <1>3, <1>4, <1>5, <1>6, <1>7, <1>8 DEF Next, Step

\* Each step of a call or of a collector ends it or leaves less of it, so that none
\* of them runs for ever: not list_free, which takes the list down under its own
\* pointer, nor the collectors, which delete from the list that they walk.
THEOREM CallsMustEnd == Spec => CallsEnd
<1> DEFINE Ends == ~Idle /\ op # "gone" =>
                     /\ Left \in Nat \X Nat
                     /\ Idle' \/ op' = "gone" \/ Less(Left', Left)
<1>1. Init => RInv
    BY ListAssumption, InitSimulates
<1>2. RInv /\ [Next]_vars => RInv'
    BY ListAssumption, RInvStep
<1>3. RInv /\ [Next]_vars => [Ends]_vars
    BY ListAssumption, LeftType, StepLess
<1> HIDE DEF Ends
<1>4. Spec => [][Ends]_vars
    BY <1>1, <1>2, <1>3, PTL DEF Spec
<1> QED
    BY <1>4 DEF CallsEnd, Ends
=============================================================================
