----------------------------- MODULE WordArith -----------------------------
(* Arithmetic of a machine word with W values: what ++ and -- of an atomic *)
(* uint32_t do to a number that is only known modulo W.                    *)
EXTENDS Integers, TLAPS

(* The remainder of x is the only number of 0 .. W-1 that differs from x by *)
(* a multiple of W.                                                         *)
LEMMA ModUnique ==
  ASSUME NEW W \in Nat, W > 0, NEW x \in Int, NEW q \in Int,
         NEW r \in 0 .. W - 1, x = W * q + r
  PROVE  x % W = r
BY SMT

(* Quotient and remainder.                                                  *)
LEMMA DivMod ==
  ASSUME NEW W \in Nat, W > 0, NEW x \in Int
  PROVE  /\ x \div W \in Int
         /\ x % W \in 0 .. W - 1
         /\ x = W * (x \div W) + (x % W)
BY SMT

(* ++ on a word.                                                            *)
LEMMA ModSucc ==
  ASSUME NEW W \in Nat, W > 0, NEW x \in Int
  PROVE  ((x % W) + 1) % W = (x + 1) % W
<1> DEFINE q == x \div W
           r == x % W
<1>1. q \in Int /\ r \in 0 .. W - 1 /\ x = W * q + r
  BY DivMod
<1> HIDE DEF q, r
<1>2. CASE r + 1 < W
  <2>1. r + 1 \in 0 .. W - 1 /\ x + 1 = W * q + (r + 1)
    BY <1>1, <1>2
  <2>2. (x + 1) % W = r + 1
    BY <2>1, <1>1, ModUnique
  <2>3. (r + 1) % W = r + 1
    BY <1>1, <1>2
  <2> QED BY <2>2, <2>3 DEF r
<1>3. CASE r + 1 = W
  <2>1. 0 \in 0 .. W - 1 /\ q + 1 \in Int /\ x + 1 = W * (q + 1) + 0
    BY <1>1, <1>3
  <2>2. (x + 1) % W = 0
    BY <2>1, <1>1, ModUnique
  <2>3. (r + 1) % W = 0
    BY <1>1, <1>3
  <2> QED BY <2>2, <2>3 DEF r
<1> QED BY <1>1, <1>2, <1>3

(* -- on a word.                                                            *)
LEMMA ModPred ==
  ASSUME NEW W \in Nat, W > 0, NEW x \in Int
  PROVE  ((x % W) - 1) % W = (x - 1) % W
<1> DEFINE q == x \div W
           r == x % W
<1>1. q \in Int /\ r \in 0 .. W - 1 /\ x = W * q + r
  BY DivMod
<1> HIDE DEF q, r
<1>2. CASE r > 0
  <2>1. r - 1 \in 0 .. W - 1 /\ x - 1 = W * q + (r - 1)
    BY <1>1, <1>2
  <2>2. (x - 1) % W = r - 1
    BY <2>1, <1>1, ModUnique
  <2>3. (r - 1) % W = r - 1
    BY <1>1, <1>2
  <2> QED BY <2>2, <2>3 DEF r
<1>3. CASE r = 0
  <2>1. PICK p \in Int, s \in 0 .. W - 1 : p = q - 1 /\ s = W - 1
    BY <1>1
  <2>2. (x - 1) % W = s
    <3>1. x - 1 \in Int /\ x - 1 = W * p + s
      BY <1>1, <1>3, <2>1
    <3> QED BY <3>1, <2>1, ModUnique
  <2>3. PICK m \in Int : m = -1
    OBVIOUS
  <2>4. (r - 1) % W = s
    <3>1. r - 1 \in Int /\ r - 1 = W * m + s
      BY <1>1, <1>3, <2>1, <2>3
    <3> QED BY <3>1, <2>1, <2>3, ModUnique
  <2> QED BY <2>2, <2>4 DEF r
<1> QED BY <1>1, <1>2, <1>3
=============================================================================
