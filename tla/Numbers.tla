------------------------------ MODULE Numbers -------------------------------
(* What is listed in the order of numbers, primes, and products of some of *)
(* the numbers of a list.                                                  *)
EXTENDS Integers, Sequences, FiniteSets

(* sorted(...) of different numbers: the i-th has i - 1 smaller ones.      *)
Ascending(numbers) ==
    [i \in 1..Cardinality(numbers) |->
       CHOOSE k \in numbers : Cardinality({l \in numbers : l < k}) = i - 1]

(* What a loop over s that skips all other places appends, in its order.   *)
Kept(s, places) == [i \in 1..Cardinality(places) |-> s[Ascending(places)[i]]]

IsPrime(n) == n > 1 /\ \A k \in 2..(n - 1) : k * k <= n => n % k # 0

(* The product of the numbers at some of their places.                     *)
Product(numbers, places) ==
    LET product[n \in 0..Len(numbers)] ==
          IF n = 0 THEN 1
          ELSE IF n \in places THEN product[n - 1] * numbers[n] ELSE product[n - 1]
    IN  product[Len(numbers)]
=============================================================================
