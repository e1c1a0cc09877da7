---------------------------- MODULE TypeNumTests ----------------------------
(***************************************************************************)
(* The operations on numbers as types against those on numbers: what the   *)
(* test ops() of stabby-abi/src/typenum2/unsigned.rs:632-787 asserts of 21 *)
(* pairs, and what the docs of the traits say, for every pair of small     *)
(* numbers.  TLC evaluates the assumptions of this module in every run of  *)
(* a module that extends it.                                               *)
(***************************************************************************)
EXTENDS Integers, FiniteSetsExt
LOCAL N == INSTANCE TypeNum

Numbers == 0 .. 20
Canonical == [i \in 0 .. 400 |-> N!U(i)]
Powers == {1, 2, 4, 8, 16, 32}

\* The type is the one that the build script names for the number.
Is(a, i) == a = Canonical[i]

ASSUME ComparesNumbers ==
  \A i, j \in Numbers :
    LET a == Canonical[i]  b == Canonical[j] IN
    /\ N!Greater(a, b) <=> i > j
    /\ N!GreaterOrEq(a, b) <=> i >= j
    /\ N!Smaller(a, b) <=> i < j
    /\ N!SmallerOrEq(a, b) <=> i <= j
    /\ N!Equals(a, b) <=> i = j
    /\ N!Cmp(a, b) = IF i = j THEN "Equal" ELSE IF i > j THEN "Greater" ELSE "Lesser"
    /\ Is(N!Least(a, b), Min({i, j})) /\ Is(N!Greatest(a, b), Max({i, j}))

ASSUME ComputesNumbers ==
  \A i, j \in Numbers :
    LET a == Canonical[i]  b == Canonical[j]
        bits(n) == {k \in 0 .. 4 : (n \div 2^k) % 2 = 1}
    IN
    /\ bits(N!U128(N!BitAnd(a, b))) = bits(i) \cap bits(j)
    /\ bits(N!U128(N!BitOr(a, b))) = bits(i) \cup bits(j)
    /\ Is(N!Add(a, b), i + j)
    /\ Is(N!AbsSub(a, b), Max({i - j, j - i}))
    /\ Is(N!Mul(a, b), i * j)
    /\ Is(N!Truncate(a, b), i % 2^j)

ASSUME ComputesPowers ==
  \A i \in Numbers :
    LET a == Canonical[i] IN
    /\ i > 0 => Is(N!SatDecrement(a), i - 1) /\ Is(N!Increment(N!SatDecrement(a)), i)
    /\ N!IsPowerOf2(a) <=> i \in Powers
    /\ \A p \in Powers :
         /\ Is(N!Modulate(Canonical[p], a), i % p)
         /\ Is(N!Divide(Canonical[p], a), i \div p)
         /\ Is(N!NextMultipleOf(a, Canonical[p]), Min({m \in i .. i + p : m % p = 0}))

\* Layouts are made of them: as many bytes of padding, all of them unused, and
\* as many elements of an array.
ASSUME MakesArrays ==
  \A i \in Numbers :
    LET a == Canonical[i] IN
    /\ Is(N!PaddingSize(a), i)
    /\ N!PaddingBitMask(a) = [k \in 1 .. i |-> Canonical[k - 1]]
    /\ \A size \in {0, 1, 2, 12} : Is(N!ArraySize(a, Canonical[size]), i * size)

\* "Self >> (Self.trailing_zeros())", says the doc of TruncateAtRightmostOne
\* (unsigned.rs:452-453); it is 1 << Self.trailing_zeros().
ASSUME KeepsRightmostOne ==
  \A i \in Numbers \ {0} :
    Is(N!TruncateAtRightmostOne(Canonical[i]), Max({p \in Powers : i % p = 0}))

\* NextPow2 is how many bits the number has, as the test has it.
ASSUME CountsBits ==
  \A i \in Numbers : Is(N!NextPow2(Canonical[i]), Min({n \in 0 .. 5 : i < 2^n}))

\* Log2 has its name from elsewhere: no test asserts it.
ASSUME LogsPowers == \A k \in 0 .. 7 : Is(N!Log2(Canonical[2^k]), k)

\* Only some results are simplified: 1 - 1 is 0 as a number and, before it is
\* simplified, not as a type.
ASSUME LeadingZeros ==
  LET zero == N!SubCarry(N!U1, N!U1, FALSE) IN N!U128(zero) = 0 /\ zero # N!UTerm
=============================================================================
