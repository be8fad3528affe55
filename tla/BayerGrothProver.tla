-------------------------- MODULE BayerGrothProver --------------------------
(***************************************************************************)
(* A prover for BayerGroth, outside of the repository.  It knows how s was *)
(* shuffled: shuffled[i] is ciphertexts[perm[i] + 1] re-encrypted with     *)
(* randomness rho[i].  It follows the protocol even if perm is not a       *)
(* permutation or the ciphertexts are others.  Each part of its argument   *)
(* is a function of the challenges that come before.                       *)
(***************************************************************************)
EXTENDS BayerGroth

Coin(s, k) == (s.coin * k + k * k + 1) % Q
Coins(s, from, n) == [k \in 1..n |-> Coin(s, from + k)]
Sum(f) == FoldFunctionOnSet(LAMBDA a, b : (a + b) % Q, 0, f, DOMAIN f)

(* The exponents committed to in c_A and c_B, and those of the product     *)
(* argument, as rows.                                                      *)
Size(s) == Len(s.ciphertexts)
PermRows(s) == ToMatrix(s.perm, Rows(Size(s)))
PowerRows(s, c) == ToMatrix([i \in 1..Size(s) |-> Power(c.x, s.perm[i])], Rows(Size(s)))
CoinsA(s) == Coins(s, 0, Rows(Size(s)))
CoinsB(s) == Coins(s, 10, Rows(Size(s)))
FactorRows(s, c) ==
    [i \in 1..Rows(Size(s)) |->
       [k \in DOMAIN PermRows(s)[i] |-> (c.y * PermRows(s)[i][k] + PowerRows(s, c)[i][k] - c.z) % Q]]
FactorCoins(s, c) == [i \in 1..Rows(Size(s)) |-> (c.y * CoinsA(s)[i] + CoinsB(s)[i]) % Q]
CommitRows(rows, coins) == [i \in DOMAIN rows |-> Commit(rows[i], coins[i])]

(* Place by place the product of the first i rows, and its randomness.     *)
Partial(s, c) ==
    LET rows == FactorRows(s, c)
        partial[i \in DOMAIN rows] ==
          IF i = 1 THEN rows[1] ELSE [k \in DOMAIN rows[i] |-> (partial[i - 1][k] * rows[i][k]) % Q]
    IN  [i \in DOMAIN rows |-> partial[i]]
PartialCoins(s, c) == [i \in 1..Rows(Size(s)) |-> IF i = 1 THEN FactorCoins(s, c)[1] ELSE Coin(s, 20 + i)]

(* The exponents of x in a product of two polynomials.                     *)
ZeroArgument(s, c) ==
    LET rows == FactorRows(s, c)  partial == Partial(s, c)  m == Len(rows)  n == Len(rows[1])
        weights == Tail(Powers(c.hx, m))
        as == <<Coins(s, 30, n)>> \o Tail(rows) \o <<[k \in 1..n |-> Q - 1]>>
        ra == <<Coin(s, 35)>> \o Tail(FactorCoins(s, c)) \o <<0>>
        bs == [i \in 1..(m - 1) |-> Combine(<<partial[i]>>, <<weights[i]>>)]
                \o <<Combine(Tail(partial), weights), Coins(s, 40, n)>>
        rb == [i \in 1..(m - 1) |-> (weights[i] * PartialCoins(s, c)[i]) % Q]
                \o <<Sum([i \in 1..(m - 1) |-> weights[i] * PartialCoins(s, c)[i + 1]]), Coin(s, 45)>>
        d == [k \in 1..(2 * m + 1) |->
                Sum([pair \in {q \in (1..(m + 1)) \X (1..(m + 1)) : q[2] = m + 1 - k + q[1]} |->
                       StarMap(c.hy, as[pair[1]], bs[pair[2]])])]
        t == [k \in 1..(2 * m + 1) |-> IF k = m + 2 THEN 0 ELSE Coin(s, 50 + k)]
        powers == Powers(c.zero, 2 * m + 1)
        up == SubSeq(powers, 1, m + 1)
    IN  [cA0 |-> Commit(as[1], ra[1]), cBm |-> Commit(bs[m + 1], rb[m + 1]),
         cD |-> [k \in DOMAIN d |-> Commit(<<d[k]>>, t[k])],
         a |-> Combine(as, up), r |-> Sum([i \in DOMAIN ra |-> up[i] * ra[i]]),
         b |-> Combine(bs, Reverse(up)), s |-> Sum([i \in DOMAIN rb |-> Reverse(up)[i] * rb[i]]),
         t |-> Sum([k \in DOMAIN t |-> powers[k] * t[k]])]

SvpArgument(s, c, values, randomness) ==
    LET n == Len(values)
        product[k \in 1..n] == IF k = 1 THEN values[1] ELSE (product[k - 1] * values[k]) % Q
        d == Coins(s, 60, n)
        delta == [k \in 1..n |-> IF k = 1 THEN d[1] ELSE IF k = n THEN 0 ELSE Coin(s, 70 + k)]
    IN  [cD |-> Commit(d, Coin(s, 80)),
         cLower |-> Commit([k \in 1..(n - 1) |-> -delta[k] * d[k + 1]], Coin(s, 81)),
         cUpper |-> Commit([k \in 1..(n - 1) |->
                              delta[k + 1] - values[k + 1] * delta[k] - product[k] * d[k + 1]], Coin(s, 82)),
         a |-> [k \in 1..n |-> (c.svp * values[k] + d[k]) % Q],
         b |-> [k \in 1..n |-> (c.svp * product[k] + delta[k]) % Q],
         r |-> (c.svp * randomness + Coin(s, 80)) % Q,
         s |-> (c.svp * Coin(s, 82) + Coin(s, 81)) % Q]

MultiArgument(s, c) ==
    LET rows == ToMatrix(s.shuffled, Rows(Size(s)))  m == Len(rows)  n == Len(rows[1])
        width == Width(s.shuffled[1])
        powers == Powers(c.multi, 2 * m)
        up == SubSeq(powers, 1, m + 1)
        as == <<Coins(s, 90, n)>> \o PowerRows(s, c)
        ra == <<Coin(s, 95)>> \o CoinsB(s)
        rho == Sum([i \in 1..Size(s) |-> -Power(c.x, s.perm[i]) * s.rho[i]])
        b == [k \in 1..(2 * m) |-> IF k = m + 1 THEN 0 ELSE Coin(s, 100 + k)]
        r == [k \in 1..(2 * m) |-> IF k = m + 1 THEN 0 ELSE Coin(s, 110 + k)]
        tau == [k \in 1..(2 * m) |-> IF k = m + 1 THEN rho ELSE Coin(s, 120 + k)]
        e(k) == LET on == SelectSeq([i \in 1..m |-> i], LAMBDA i : k - m + i \in 1..(m + 1))
                    terms == <<EncryptConstant(b[k], tau[k], width)>>
                               \o [l \in DOMAIN on |-> Combine(rows[on[l]], as[k - m + on[l]])]
                IN  Combine(terms, [l \in DOMAIN terms |-> 1])
    IN  [cA0 |-> Commit(as[1], ra[1]),
         cB |-> [k \in DOMAIN b |-> Commit(<<b[k]>>, r[k])],
         e |-> [k \in DOMAIN b |-> e(k)],
         a |-> Combine(as, up), r |-> Sum([i \in DOMAIN ra |-> up[i] * ra[i]]),
         b |-> Sum([k \in DOMAIN b |-> powers[k] * b[k]]),
         s |-> Sum([k \in DOMAIN r |-> powers[k] * r[k]]),
         tau |-> Sum([k \in DOMAIN tau |-> powers[k] * tau[k]])]

Prove(s, c, part) ==
    CASE part = "cA" -> CommitRows(PermRows(s), CoinsA(s))
      [] part = "cB" -> CommitRows(PowerRows(s, c), CoinsB(s))
      [] part = "product cB" -> CommitRows(Partial(s, c), PartialCoins(s, c))[Rows(Size(s))]
      [] part = "hadamard" ->
           [cUpperB |-> CommitRows(Partial(s, c), PartialCoins(s, c)), zero |-> ZeroArgument(s, c)]
      [] part = "svp" -> SvpArgument(s, c, Partial(s, c)[Rows(Size(s))], PartialCoins(s, c)[Rows(Size(s))])
      [] part = "multi" -> MultiArgument(s, c)
=============================================================================
