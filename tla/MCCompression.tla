---- MODULE MCCompression ----
EXTENDS Compression

\* Short logs of every kind, and longer ones: runs, periods that wrap around the
\* dictionary, matches that get longer at the next place, and noise.
Short == UNION {[1..n -> {7, 200}] : n \in 0..3}
Long ==
  { [k \in 1..n |-> 7] : n \in {9, 40} } \cup
  { [k \in 1..4 * p |-> k % p] : p \in {3, 7, 11} } \cup
  { [k \in 1..45 |-> (k * k * 7) % 11], [k \in 1..36 |-> (k * k * 37) % 251],
    [k \in 1..50 |-> ((k \div 5) % 3) + (k % 2)],
    <<9, 9, 9, 9, 9, 9, 1, 2, 3, 0, 0, 0, 0, 1, 2, 3>> \o [k \in 1..30 |-> 9],
    <<1, 2, 3, 9, 2, 3, 4, 5, 9, 1, 2, 3, 4, 5, 6, 1, 2, 3, 4, 5, 6, 7, 8, 9, 9>> }
MCInputs == Short \cup Long

\* Frequencies: all small ones, powers of two and Fibonacci numbers, whose codes
\* are the longest.
Fib[n \in Nat] == IF n < 2 THEN 1 ELSE Fib[n - 1] + Fib[n - 2]
MCWeights ==
  [1..5 -> {0, 1, 2, 5}] \cup
  { [k \in 1..n |-> 2^(n - k)] : n \in 6..15 } \cup
  { [k \in 1..n |-> Fib[k]] : n \in 6..18 } \cup
  { [k \in 1..n |-> 300] : n \in 1..19 }
====
