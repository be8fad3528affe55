------------------------------- MODULE Group --------------------------------
(***************************************************************************)
(* Arithmetic of the group of squares modulo a safe prime p = 2q + 1, as   *)
(* far as crypto.py does it itself.  A group is a record of p, q and g.    *)
(***************************************************************************)
EXTENDS Integers

(* pow(value, exponent, modulus) of a natural exponent.                    *)
PowMod(value, exponent, modulus) ==
    LET pow[e \in 0..exponent] ==
          IF e = 0 THEN 1 % modulus
          ELSE LET half == pow[e \div 2]
               IN  (((half * half) % modulus) * (IF e % 2 = 1 THEN value ELSE 1)) % modulus
    IN  pow[exponent]

(* group_member.                                                           *)
GroupMember(group, value, allowOne) ==
    /\ value \in 1..(group.p - 1)
    /\ allowOne \/ value # 1
    /\ PowMod(value, group.q, group.p) = 1
=============================================================================
