------------------------------- MODULE ArbProofs -------------------------------
(***************************************************************************)
(* Theorems about ArbSimulation, for words of every width, every fee, and  *)
(* every amount: isqrt, the sizes computed from it, amm_out, and what the  *)
(* simulations make of them and of stable_amm_out.                         *)
(***************************************************************************)
EXTENDS ArbSimulation, TLAPS

LEMMA Quotient ==
  ASSUME NEW a \in Nat, NEW b \in Nat \ {0}
  PROVE  /\ a \div b \in Nat
         /\ b * (a \div b) <= a
         /\ a < b * ((a \div b) + 1)
<1>1. a \div b \in Nat
  OBVIOUS
<1>2. a = b * (a \div b) + (a % b) /\ a % b \in 0..(b - 1)
  OBVIOUS
<1>3. b * ((a \div b) + 1) = b * (a \div b) + b
  BY <1>1
<1>4. b * (a \div b) \in Nat
  BY <1>1
<1> QED BY <1>1, <1>2, <1>3, <1>4

LEMMA ProductNat == \A a, b \in Nat : a * b \in Nat
  OBVIOUS

LEMMA ProductMonotone ==
  ASSUME NEW a \in Nat, NEW b \in Nat, NEW c \in Nat, NEW d \in Nat, a <= c, b <= d
  PROVE  a * b <= c * d
<1>1. a * b <= c * b
  <2>1. (c - a) * b >= 0
    OBVIOUS
  <2>2. (c - a) * b = c * b - a * b
    OBVIOUS
  <2> QED BY <2>1, <2>2, ProductNat
<1>2. c * b <= c * d
  <2>1. c * (d - b) >= 0
    OBVIOUS
  <2>2. c * (d - b) = c * d - c * b
    OBVIOUS
  <2> QED BY <2>1, <2>2, ProductNat
<1> QED BY <1>1, <1>2, ProductNat

\* A word whose square is not above another's is not above it.
LEMMA SquareOrder ==
  ASSUME NEW a \in Nat, NEW b \in Nat, a * a < b * b
  PROVE  a < b
<1>1. CASE b <= a
  BY <1>1, ProductMonotone, ProductNat
<1> QED BY <1>1

\* Newton's step from an x in 1..n: the next guess is positive, its successor's square is
\* above n, the sum it halves is at most n + 1, and if it is no smaller than x, x is the root.
LEMMA NewtonStep ==
  ASSUME NEW m \in Nat \ {0}, NEW a \in 1..m
  PROVE  LET q == m \div a
             g == (a + q) \div 2
         IN /\ g \in Nat \ {0} /\ a + q \in Nat /\ a + q <= m + 1
            /\ m < (g + 1) * (g + 1)
            /\ g >= a => a * a <= m
<1> DEFINE q == m \div a
           g == (a + q) \div 2
<1>1. q \in Nat /\ a * q <= m /\ m < a * (q + 1)
  BY Quotient
<1>2. q >= 1
  <2>1. CASE q = 0
    BY <1>1, <2>1
  <2> QED BY <1>1, <2>1
<1>3. g \in Nat /\ 2 * g <= a + q /\ a + q < 2 * (g + 1)
  BY <1>1, Quotient
<1> HIDE DEF q, g
<1>4. a + q <= m + 1
  <2>1. (a - 1) * (q - 1) >= 0
    BY <1>1, <1>2
  <2>2. (a - 1) * (q - 1) = a * q - a - q + 1
    BY <1>1
  <2> QED BY <1>1, <2>1, <2>2, ProductNat
<1>5. m < (g + 1) * (g + 1)
  <2> DEFINE p == q + 1
  <2>1. 4 * (a * p) <= (a + p) * (a + p)
    <3>1. (a - p) * (a - p) >= 0
      BY <1>1
    <3>2. (a + p) * (a + p) = (a - p) * (a - p) + 4 * (a * p)
      BY <1>1
    <3> QED BY <1>1, <3>1, <3>2
  <2>2. a + p <= 2 * (g + 1)
    BY <1>1, <1>3
  <2>3. (a + p) * (a + p) <= (2 * (g + 1)) * (2 * (g + 1))
    BY <1>1, <1>3, <2>2, ProductMonotone
  <2>4. (2 * (g + 1)) * (2 * (g + 1)) = 4 * ((g + 1) * (g + 1))
    BY <1>3
  <2>5. a * p \in Nat /\ (g + 1) * (g + 1) \in Nat /\ (a + p) * (a + p) \in Nat
    BY <1>1, <1>3, ProductNat
  <2> QED BY <1>1, <2>1, <2>3, <2>4, <2>5
<1>6. g >= a => a * a <= m
  <2>1. SUFFICES ASSUME g >= a PROVE a * a <= m
    OBVIOUS
  <2>2. a <= q
    BY <1>1, <1>3, <2>1
  <2>3. a * a <= a * q
    BY <1>1, <2>2, ProductMonotone
  <2> QED BY <1>1, <2>3, ProductNat
<1>7. g # 0
  BY <1>1, <1>2, <1>3
<1> QED BY <1>1, <1>3, <1>4, <1>5, <1>6, <1>7 DEF q, g

-----------------------------------------------------------------------------
(* Words.                                                                  *)

LEMMA MaxType == Max \in Nat /\ Max >= 3
<1>1. (Radix - 2) * (Radix + 2) >= 0
  BY ArbAssumption DEF ArbAssumption
<1>2. (Radix - 2) * (Radix + 2) = Radix * Radix - 4
  BY ArbAssumption DEF ArbAssumption
<1> QED BY <1>1, <1>2, ArbAssumption DEF ArbAssumption, Max

\* A checked product is the product if that is a word, and the default otherwise.
LEMMA Checked ==
  ASSUME NEW a \in Nat, NEW b \in Nat, NEW d
  PROVE  MulOr(a, b, d) = IF a * b <= Max THEN a * b ELSE d
<1>1. CASE a = 0
  <2>1. MulOr(a, b, d) = a * b
    BY <1>1, Zenon DEF MulOr
  <2>2. a * b <= Max
    BY <1>1, MaxType
  <2> QED BY <2>1, <2>2, Zenon
<1>2. CASE a # 0
  <2> DEFINE q == Max \div a
             p == a * b
             lo == a * q
             hi == a * (q + 1)
  <2>1. q \in Nat /\ lo <= Max /\ Max < hi
    BY <1>2, MaxType, Quotient
  <2>2. MulOr(a, b, d) = IF b <= q THEN p ELSE d
    BY <1>2 DEF MulOr
  <2>3. b <= q => p <= lo
    BY <2>1, ProductMonotone
  <2>4. b > q => hi <= p
    BY <2>1, ProductMonotone
  <2>5. p \in Nat /\ lo \in Nat /\ hi \in Nat
    BY <2>1, ProductNat
  <2> HIDE DEF q, p, lo, hi
  <2>6. b <= q <=> p <= Max
    BY <2>1, <2>3, <2>4, <2>5, MaxType
  <2> QED BY <2>2, <2>6 DEF p
<1> QED BY <1>1, <1>2

\* amm_out, where nothing overflows: it leaves the pool something, its reserves' product does
\* not fall, and what it pays is no better than the price (math.rs:83-96).
THEOREM SwapKeepsProduct ==
  ASSUME NEW rIn \in Nat \ {0}, NEW rOut \in Nat \ {0}, NEW amount \in Nat, NEW fee \in 0..(Scale - 1),
         (rIn + amount) * Scale <= Max
  PROVE  LET o == AmmOut(rIn, rOut, amount, fee)
         IN /\ o \in 0..(rOut - 1)
            /\ rIn * rOut <= (rIn + amount) * (rOut - o)
            /\ rIn * o <= amount * rOut
<1> DEFINE o    == AmmOut(rIn, rOut, amount, fee)
           kept == Scale - fee
           paid == amount * kept
           d    == rIn * Scale + paid
<1>1. Scale \in Nat \ {0} /\ kept \in 1..Scale
  BY ArbAssumption DEF ArbAssumption
<1>2. paid \in Nat /\ paid <= amount * Scale
  BY <1>1, ProductNat, ProductMonotone
<1>3. /\ rIn * Scale \in Nat \ {0} /\ amount * Scale \in Nat
      /\ (rIn + amount) * Scale = rIn * Scale + amount * Scale
  <2>1. rIn * Scale >= 1 * 1
    BY <1>1, ProductMonotone
  <2>2. rIn * Scale \in Nat /\ amount * Scale \in Nat
    BY <1>1, ProductNat
  <2>3. (rIn + amount) * Scale = rIn * Scale + amount * Scale
    BY <1>1
  <2> QED BY <2>1, <2>2, <2>3
<1>4. d \in Nat \ {0} /\ d <= Max /\ d <= rIn * Scale + amount * Scale
  BY <1>2, <1>3, MaxType
<1>5. \/ o = 0
      \/ o = (paid * rOut) \div d
  <2>1. MulOr(amount, kept, 0) = paid
    BY <1>1, <1>2, <1>3, Checked, MaxType
  <2>2. MulOr(rIn, Scale, Max) = rIn * Scale
    BY <1>1, <1>2, <1>3, Checked, MaxType
  <2>3. SatAdd(rIn * Scale, paid) = d
    BY <1>2, <1>3, <1>4, MaxType DEF SatAdd
  <2>4. MulOr(paid, rOut, 0) \in {0, paid * rOut}
    BY <1>2, Checked
  <2>5. 0 \div d = 0
    BY <1>4
  <2> QED BY <2>1, <2>2, <2>3, <2>4, <2>5 DEF AmmOut
<1>6. o \in Nat /\ d * o <= paid * rOut
  <2>1. paid * rOut \in Nat
    BY <1>2, ProductNat
  <2>2. CASE o = 0
    BY <1>4, <2>1, <2>2
  <2>3. CASE o = (paid * rOut) \div d
    BY <1>4, <2>1, <2>3, Quotient
  <2> QED BY <1>5, <2>2, <2>3
<1> HIDE DEF o, kept, paid, d
<1>7. o < rOut
  <2>1. SUFFICES ASSUME o >= rOut PROVE FALSE
    BY <1>6
  <2>2. d * rOut <= d * o
    BY <1>4, <1>6, <2>1, ProductMonotone
  <2>3. d * rOut = (rIn * Scale) * rOut + paid * rOut
    BY <1>2, <1>3 DEF d
  <2>4. 1 * 1 <= (rIn * Scale) * rOut
    BY <1>3, ProductMonotone
  <2> QED BY <1>2, <1>3, <1>4, <1>6, <2>2, <2>3, <2>4, ProductNat
<1>8. (rIn * Scale) * rOut <= d * (rOut - o)
  <2>1. d * (rOut - o) = d * rOut - d * o
    BY <1>4, <1>6
  <2>2. d * rOut = (rIn * Scale) * rOut + paid * rOut
    BY <1>2, <1>3 DEF d
  <2> QED BY <1>2, <1>3, <1>4, <1>6, <2>1, <2>2, ProductNat
<1>9. rIn * rOut <= (rIn + amount) * (rOut - o)
  <2> DEFINE p == (rIn + amount) * (rOut - o)
  <2>1. d * (rOut - o) <= ((rIn + amount) * Scale) * (rOut - o)
    BY <1>3, <1>4, <1>6, <1>7, ProductMonotone
  <2>2. ((rIn + amount) * Scale) * (rOut - o) = Scale * p
    BY <1>1, <1>6
  <2>3. (rIn * Scale) * rOut = Scale * (rIn * rOut)
    BY <1>1
  <2>4. p \in Nat /\ rIn * rOut \in Nat
    BY <1>6, <1>7, ProductNat
  <2>5. Scale * (rIn * rOut) <= Scale * p
    BY <1>1, <1>3, <1>4, <1>6, <1>7, <1>8, <2>1, <2>2, <2>3, <2>4, ProductNat
  <2> HIDE DEF p
  <2>6. CASE p < rIn * rOut
    <3>1. Scale * (p + 1) <= Scale * (rIn * rOut)
      BY <1>1, <2>4, <2>6, ProductMonotone
    <3>2. Scale * (p + 1) = Scale * p + Scale
      BY <1>1, <2>4
    <3> QED BY <1>1, <2>4, <2>5, <3>1, <3>2, ProductNat
  <2> QED BY <2>4, <2>6 DEF p
<1>10. rIn * o <= amount * rOut
  <2>1. (rIn + amount) * (rOut - o) = rIn * rOut + amount * rOut - rIn * o - amount * o
    BY <1>6
  <2> QED BY <1>6, <1>9, <2>1, ProductNat
<1> QED BY <1>6, <1>7, <1>9, <1>10 DEF o

-----------------------------------------------------------------------------
(* The invariant of a sizing call.                                         *)

IsRoot(r, m) == r * r <= m /\ m < (r + 1) * (r + 1)

\* what the root in progress is taken of
Taken ==
  IF plain = None THEN Product # None /\ n = Product
                  ELSE Adjusted # None /\ n = Adjusted \div (Scale * Scale)

Sized ==
  \/ Product = None /\ plain = 0
  \/ Product # None /\ \E r \in Nat : IsRoot(r, Product) /\ plain = Capped(r)

ArbInv ==
  /\ call \in Calls
  /\ pc # "panic"
  /\ pc \in {"call", "plain"} => plain = None /\ size = None
  /\ pc \in {"plain", "fees"} => call.of = "size"
  /\ pc = "call" => call.of = "root"
  /\ pc = "fees" => plain # None /\ size = None
  /\ pc \in {"sqrt", "rooted"} => /\ call.of \in {"root", "size"}
                                  /\ call.of = "size" => Taken
                                  /\ size = None
  /\ pc = "sqrt" => n \in 1..(Max - 1) /\ x \in 1..n /\ n < (x + 1) * (x + 1) /\ y = Guess(x)
  /\ pc = "rooted" => n \in Nat /\ x \in Nat /\ IsRoot(x, n)
  /\ plain # None => call.of = "size" /\ Sized
  /\ size # None => plain # None /\ (call.feeIn <= call.feeOut => size <= plain)

LEMMA SizeCall ==
  ASSUME call \in Calls, call.of = "size"
  PROVE  /\ call.rIn \in Nat /\ call.rIn <= Max /\ call.rOut \in Nat /\ call.rOut <= Max
         /\ call.feeIn \in 0..(Scale - 1) /\ call.feeOut \in 0..(Scale - 1)
<1>1. call \in [of : {"size"}, rIn : Sizes, rOut : Sizes, feeIn : Fees, feeOut : Fees]
  BY DEF Calls
<1>2. Sizes \subseteq 0..Max /\ Fees \subseteq 0..(Scale - 1) /\ Scale \in Nat
  BY ArbAssumption DEF ArbAssumption
<1>3. call.rIn \in Sizes /\ call.rOut \in Sizes /\ call.feeIn \in Fees /\ call.feeOut \in Fees
  BY <1>1
<1>4. call.rIn \in 0..Max /\ call.rOut \in 0..Max
  BY <1>2, <1>3, Zenon
<1>5. call.feeIn \in 0..(Scale - 1) /\ call.feeOut \in 0..(Scale - 1)
  BY <1>2, <1>3, Zenon
<1> QED BY <1>2, <1>4, <1>5, MaxType

LEMMA ProductType ==
  ASSUME call \in Calls, call.of = "size"
  PROVE  Product = None \/ (Product \in 0..Max /\ Product = call.rIn * call.rOut)
  BY SizeCall, Checked, ProductNat DEF Product

LEMMA AdjustedType ==
  ASSUME call \in Calls, call.of = "size", Adjusted # None
  PROVE  /\ Product \in 0..Max /\ Adjusted \in 0..Max
         /\ Adjusted = (Product * (Scale - call.feeIn)) * (Scale - call.feeOut)
<1> DEFINE fi == Scale - call.feeIn
           fo == Scale - call.feeOut
           p  == MulOr(Product, fi, None)
<1>1. fi \in Nat /\ fo \in Nat
  BY SizeCall, ArbAssumption DEF ArbAssumption
<1>2. Product \in 0..Max
  BY ProductType DEF Adjusted
<1>3. Adjusted = IF p = None THEN None ELSE MulOr(p, fo, None)
  BY <1>2, MaxType DEF Adjusted, None
<1>4. p \in 0..Max /\ p = Product * fi
  BY <1>1, <1>2, <1>3, Checked, ProductNat
<1> HIDE DEF p, fi, fo
<1>5. Adjusted \in 0..Max /\ Adjusted = p * fo
  BY <1>1, <1>3, <1>4, Checked, ProductNat
<1> QED BY <1>2, <1>4, <1>5 DEF fi, fo

\* The size with fees comes from a root that is no larger.
LEMMA RootShrinks ==
  ASSUME NEW p \in Nat, NEW fi \in Nat \ {0}, NEW fo \in Nat, fo <= fi, NEW r \in Nat, IsRoot(r, p),
         NEW s \in Nat, NEW c \in Nat \ {0}, s * s <= ((p * fi) * fo) \div (c * c)
  PROVE  (s * c) \div fi <= r
<1> DEFINE t == (s * c) \div fi
           m == (p * fi) * fo
           v == m \div (c * c)
<1>1. s * c \in Nat /\ t \in Nat /\ fi * t <= s * c
  BY Quotient, ProductNat
<1>2. c * c \in Nat \ {0}
  <2>1. 1 * 1 <= c * c
    BY ProductMonotone
  <2> QED BY <2>1, ProductNat
<1>3. m \in Nat /\ p * fi \in Nat /\ m <= (p * fi) * fi
  BY ProductNat, ProductMonotone
<1>4. v \in Nat /\ (c * c) * v <= m
  BY <1>2, <1>3, Quotient
<1> HIDE DEF t, v, m
<1>5. (s * c) * (s * c) <= m
  <2>1. s * s <= v
    BY DEF v, m
  <2>2. (c * c) * (s * s) <= (c * c) * v
    BY <1>2, <1>4, <2>1, ProductMonotone, ProductNat
  <2>3. (s * c) * (s * c) = (c * c) * (s * s)
    OBVIOUS
  <2>4. (c * c) * (s * s) \in Nat /\ (c * c) * v \in Nat
    BY <1>2, <1>4, ProductNat
  <2> QED BY <1>3, <1>4, <2>2, <2>3, <2>4
<1>6. (fi * t) * (fi * t) <= (p * fi) * fi
  <2>1. fi * t \in Nat
    BY <1>1, ProductNat
  <2>2. (fi * t) * (fi * t) <= (s * c) * (s * c)
    BY <1>1, <2>1, ProductMonotone
  <2>3. (fi * t) * (fi * t) \in Nat /\ (s * c) * (s * c) \in Nat /\ (p * fi) * fi \in Nat
    BY <1>1, <1>3, <2>1, ProductNat
  <2> QED BY <1>3, <1>5, <2>2, <2>3
<1>7. CASE r < t
  <2>1. (fi * (r + 1)) * (fi * (r + 1)) <= (fi * t) * (fi * t)
    <3>1. fi * (r + 1) <= fi * t
      BY <1>1, <1>7, ProductMonotone
    <3>2. fi * (r + 1) \in Nat /\ fi * t \in Nat
      BY <1>1, ProductNat
    <3> QED BY <3>1, <3>2, ProductMonotone
  <2>2. p + 1 <= (r + 1) * (r + 1)
    BY ProductNat DEF IsRoot
  <2>3. (fi * fi) * (p + 1) <= (fi * fi) * ((r + 1) * (r + 1))
    BY <2>2, ProductMonotone, ProductNat
  <2>4. (fi * (r + 1)) * (fi * (r + 1)) = (fi * fi) * ((r + 1) * (r + 1))
    OBVIOUS
  <2>5. (fi * fi) * (p + 1) = (p * fi) * fi + fi * fi
    OBVIOUS
  <2>6. 1 * 1 <= fi * fi
    BY ProductMonotone
  <2> DEFINE e1 == (fi * fi) * (p + 1)
             e2 == (fi * (r + 1)) * (fi * (r + 1))
             e3 == (fi * t) * (fi * t)
             e4 == (p * fi) * fi
             e5 == fi * fi
  <2>7. e1 \in Nat /\ e2 \in Nat /\ e3 \in Nat /\ e4 \in Nat /\ e5 \in Nat
    BY <1>1, ProductNat
  <2>8. e1 <= e2 /\ e2 <= e3 /\ e3 <= e4 /\ e1 = e4 + e5 /\ 1 <= e5
    BY <1>6, <2>1, <2>3, <2>4, <2>5, <2>6
  <2> HIDE DEF e1, e2, e3, e4, e5
  <2> QED BY <2>7, <2>8
<1> QED BY <1>1, <1>7 DEF t

LEMMA CappedMonotone ==
  ASSUME call \in Calls, call.of = "size", NEW a \in Nat, NEW b \in Nat, a <= b
  PROVE  Capped(a) \in Nat /\ Capped(b) \in Nat /\ Capped(a) <= Capped(b)
<1> DEFINE cap == (call.rIn * MaxPct) \div 100
<1>1. call.rIn \in Nat
  BY SizeCall
<1>2. cap \in Nat
  BY <1>1, ProductNat, Quotient, ArbAssumption DEF ArbAssumption
<1> HIDE DEF cap
<1>3. \A c \in Nat : Capped(c) = IF (IF c < call.rIn THEN 0 ELSE c - call.rIn) < cap
                                THEN (IF c < call.rIn THEN 0 ELSE c - call.rIn) ELSE cap
  BY DEF Capped, Least, SatSub, cap
<1> QED BY <1>1, <1>2, <1>3

LEMMA UnscaledType ==
  ASSUME call \in Calls, call.of = "size", NEW r \in Nat
  PROVE  /\ Scale - call.feeIn \in Nat \ {0} /\ Scale \in Nat \ {0}
         /\ Unscaled(r) \in Nat
         /\ Unscaled(r) \in {0, (r * Scale) \div (Scale - call.feeIn)}
<1>1. Scale - call.feeIn \in Nat \ {0} /\ Scale \in Nat \ {0}
  BY SizeCall, ArbAssumption DEF ArbAssumption
<1>2. MulOr(r, Scale, 0) \in {0, r * Scale} /\ r * Scale \in Nat
  BY <1>1, Checked, ProductNat
<1>3. 0 \div (Scale - call.feeIn) = 0 /\ (r * Scale) \div (Scale - call.feeIn) \in Nat
  BY <1>1, <1>2, Quotient
<1> QED BY <1>1, <1>2, <1>3 DEF Unscaled

-----------------------------------------------------------------------------
(* Entering the root, and what follows from the parts of a sizing call.    *)

LEMMA Entered ==
  ASSUME NEW m \in 0..Max, EnterRoot(m)
  PROVE  /\ n' = m /\ pc' \in {"sqrt", "rooted"}
         /\ pc' = "sqrt" => /\ n' \in 1..(Max - 1) /\ x' \in 1..n'
                            /\ n' < (x' + 1) * (x' + 1) /\ y' = Guess(x)'
         /\ pc' = "rooted" => n' \in Nat /\ x' \in Nat /\ IsRoot(x, n)'
<1>1. CASE m = 0
  BY <1>1, MaxType DEF EnterRoot, Special, IsRoot
<1>2. CASE m = Max
  <2>1. n' = m /\ pc' = "rooted" /\ x' = Radix - 1
    BY <1>2 DEF EnterRoot, Special
  <2>2. Radix \in Nat /\ Radix >= 2
    BY ArbAssumption DEF ArbAssumption
  <2>3. x' * x' <= n'
    <3>1. (Radix - 1) * (Radix - 1) = Radix * Radix - 2 * Radix + 1
      BY <2>2
    <3> QED BY <1>2, <2>1, <2>2, <3>1, ProductNat DEF Max
  <2>4. n' < (x' + 1) * (x' + 1)
    BY <1>2, <2>1, <2>2, ProductNat DEF Max
  <2> QED BY <2>1, <2>2, <2>3, <2>4, MaxType, <1>2 DEF IsRoot
<1>3. CASE m # 0 /\ m # Max
  <2>1. n' = m /\ x' = m /\ y' = (m + 1) \div 2 /\ pc' = "sqrt" /\ m \in 1..(Max - 1)
    BY <1>3, MaxType DEF EnterRoot, Special
  <2>2. m \div m = 1
    <3> DEFINE q == m \div m
    <3>1. q \in Nat /\ m * q <= m /\ m < m * (q + 1)
      BY <2>1, Quotient
    <3> HIDE DEF q
    <3>2. CASE q = 0
      BY <2>1, <3>1, <3>2
    <3>3. CASE q >= 2
      <4>1. m * 2 <= m * q
        BY <2>1, <3>1, <3>3, ProductMonotone
      <4> QED BY <2>1, <3>1, <4>1, ProductNat
    <3> QED BY <3>1, <3>2, <3>3 DEF q
  <2>3. m < (m + 1) * (m + 1)
    <3>1. (m + 1) * (m + 1) = m * m + 2 * m + 1
      BY <2>1
    <3> QED BY <2>1, <3>1, ProductNat
  <2> QED BY <2>1, <2>2, <2>3 DEF Guess
<1> QED BY <1>1, <1>2, <1>3

LEMMA FeesGiveLess ==
  ASSUME call \in Calls, call.of = "size", Sized, plain # None, NEW s \in Nat, Adjusted # None,
         s * s <= Adjusted \div (Scale * Scale), call.feeIn <= call.feeOut
  PROVE  Capped(Unscaled(s)) <= plain
<1> DEFINE fi == Scale - call.feeIn
           fo == Scale - call.feeOut
<1>1. Product \in Nat /\ Adjusted = (Product * fi) * fo
  BY AdjustedType, MaxType
<1>2. PICK r \in Nat : IsRoot(r, Product) /\ plain = Capped(r)
  BY <1>1 DEF Sized, None
<1>3. fi \in Nat \ {0} /\ fo \in Nat /\ fo <= fi /\ Scale \in Nat \ {0}
  BY SizeCall, ArbAssumption DEF ArbAssumption
<1> HIDE DEF fi, fo
<1>4. (s * Scale) \div fi <= r
  BY <1>1, <1>2, <1>3, RootShrinks
<1>5. Unscaled(s) \in Nat /\ Unscaled(s) <= r
  BY <1>2, <1>4, UnscaledType DEF fi
<1> QED BY <1>2, <1>5, CappedMonotone

-----------------------------------------------------------------------------
(* The invariant.                                                          *)

LEMMA ArbInit == Init => ArbInv
<1> SUFFICES ASSUME Init PROVE ArbInv
  OBVIOUS
<1>1. call \in Calls /\ plain = None /\ size = None
  BY DEF Init, Idle
<1>2. /\ pc \in {"call", "plain", "leg"}
      /\ pc = "call" => call.of = "root"
      /\ pc = "plain" => call.of = "size"
  BY DEF Init
<1> QED BY <1>1, <1>2 DEF ArbInv

\* A step of a simulation concerns neither the roots nor the sizes.
LEMMA ArbElsewhere ==
  ASSUME ArbInv, UNCHANGED <<call, plain, size>>,
         pc' \notin {"call", "plain", "fees", "sqrt", "rooted", "panic"}
  PROVE  ArbInv'
<1>1. Sized' <=> Sized
  BY DEF Sized, Product, Capped
<1> QED BY <1>1 DEF ArbInv

LEMMA ArbRootStep ==
  ASSUME ArbInv, RootStep
  PROVE  ArbInv'
<1>1. /\ pc = "sqrt" /\ n \in 1..(Max - 1) /\ x \in 1..n /\ y = Guess(x) /\ y < x
      /\ x' = y /\ UNCHANGED <<call, n, plain, size>>
  BY DEF ArbInv, RootStep, legs
<1>2. n \in Nat \ {0} /\ n + 1 <= Max
  BY <1>1, MaxType
<1>3. y \in 1..n /\ n < (y + 1) * (y + 1)
  <2> DEFINE g == (x + n \div x) \div 2
  <2>1. g \in Nat \ {0} /\ n < (g + 1) * (g + 1)
    BY <1>1, <1>2, NewtonStep
  <2>2. y = g
    BY <1>1 DEF Guess
  <2> HIDE DEF g
  <2> QED BY <1>1, <1>2, <2>1, <2>2
<1>4. y + n \div y \in Nat /\ y + n \div y <= n + 1
  BY <1>2, <1>3, NewtonStep
<1>5. y' = Guess(y) /\ pc' = "sqrt"
  BY <1>1, <1>2, <1>3, <1>4, MaxType DEF RootStep
<1>6. y' = Guess(x)' /\ x' \in 1..n' /\ n' < (x' + 1) * (x' + 1) /\ n' \in 1..(Max - 1)
  BY <1>1, <1>3, <1>5 DEF Guess
<1>7. Taken' = Taken /\ Sized' = Sized
  BY <1>1 DEF Taken, Sized, Product, Adjusted, Capped
<1> QED BY <1>1, <1>5, <1>6, <1>7 DEF ArbInv

LEMMA ArbRootEnds ==
  ASSUME ArbInv, RootEnds
  PROVE  ArbInv'
<1>1. /\ pc = "sqrt" /\ n \in 1..(Max - 1) /\ x \in 1..n /\ y = Guess(x) /\ y >= x
      /\ n < (x + 1) * (x + 1)
      /\ pc' = "rooted" /\ UNCHANGED <<call, n, x, plain, size>>
  BY DEF ArbInv, RootEnds, root
<1>2. n \in Nat \ {0}
  BY <1>1, MaxType
<1>3. x * x <= n
  BY <1>1, <1>2, NewtonStep DEF Guess
<1>4. IsRoot(x, n)' /\ n' \in Nat /\ x' \in Nat
  BY <1>1, <1>2, <1>3 DEF IsRoot
<1>5. Taken' = Taken /\ Sized' = Sized
  BY <1>1 DEF Taken, Sized, Product, Adjusted, Capped
<1> QED BY <1>1, <1>4, <1>5 DEF ArbInv

LEMMA ArbCallRoot ==
  ASSUME ArbInv, CallRoot
  PROVE  ArbInv'
<1>1. pc = "call" /\ call.of = "root" /\ plain = None /\ size = None /\ call \in Calls
      /\ EnterRoot(call.radicand) /\ UNCHANGED <<call, plain, size>>
  BY DEF ArbInv, CallRoot
<1>2. call.radicand \in 0..Max
  <2>1. call \in [of : {"root"}, radicand : Radicands \union {Max - 1, Max}]
    BY <1>1 DEF Calls
  <2>2. call.radicand \in Radicands \union {Max - 1, Max} /\ Radicands \subseteq 0..Max
    BY <2>1, ArbAssumption DEF ArbAssumption
  <2>3. CASE call.radicand \in Radicands
    BY <2>2, <2>3, Zenon
  <2>4. CASE call.radicand \in {Max - 1, Max}
    BY <2>4, MaxType
  <2> QED BY <2>2, <2>3, <2>4
<1>3. /\ pc' \in {"sqrt", "rooted"}
      /\ pc' = "sqrt" => /\ n' \in 1..(Max - 1) /\ x' \in 1..n'
                         /\ n' < (x' + 1) * (x' + 1) /\ y' = Guess(x)'
      /\ pc' = "rooted" => n' \in Nat /\ x' \in Nat /\ IsRoot(x, n)'
  BY <1>1, <1>2, Entered
<1> QED BY <1>1, <1>3 DEF ArbInv

LEMMA ArbSizePlain ==
  ASSUME ArbInv, SizePlain
  PROVE  ArbInv'
<1>1. /\ call \in Calls /\ call.of = "size" /\ plain = None /\ size = None
      /\ UNCHANGED <<call, size>>
  BY DEF ArbInv, SizePlain
<1>2. Product' = Product
  BY <1>1 DEF Product
<1>3. CASE Product = None /\ plain' = 0 /\ pc' = "fees"
  <2>1. Sized'
    BY <1>2, <1>3 DEF Sized
  <2> QED BY <1>1, <1>3, <2>1 DEF ArbInv, None
<1>4. CASE Product # None /\ EnterRoot(Product) /\ UNCHANGED plain
  <2>1. Product \in 0..Max
    BY <1>1, <1>4, ProductType
  <2>2. /\ n' = Product /\ pc' \in {"sqrt", "rooted"}
        /\ pc' = "sqrt" => /\ n' \in 1..(Max - 1) /\ x' \in 1..n'
                           /\ n' < (x' + 1) * (x' + 1) /\ y' = Guess(x)'
        /\ pc' = "rooted" => n' \in Nat /\ x' \in Nat /\ IsRoot(x, n)'
    BY <1>4, <2>1, Entered
  <2>3. Taken'
    BY <1>1, <1>2, <1>4, <2>2 DEF Taken
  <2> QED BY <1>1, <1>4, <2>2, <2>3 DEF ArbInv
<1> QED BY <1>3, <1>4 DEF SizePlain

LEMMA ArbSizeWithFees ==
  ASSUME ArbInv, SizeWithFees
  PROVE  ArbInv'
<1>1. /\ call \in Calls /\ call.of = "size" /\ plain # None /\ size = None /\ Sized
      /\ UNCHANGED <<call, plain>>
  BY DEF ArbInv, SizeWithFees
<1>2. Adjusted' = Adjusted /\ Product' = Product /\ Sized'
  BY <1>1 DEF Adjusted, Product, Sized, Capped
<1>3. CASE Adjusted = None /\ size' = 0 /\ pc' = "done"
  <2>1. plain >= 0
    <3>1. CASE plain = 0
      BY <3>1
    <3>2. CASE \E r \in Nat : plain = Capped(r)
      BY <1>1, <3>2, CappedMonotone
    <3> QED BY <1>1, <3>1, <3>2 DEF Sized
  <2> QED BY <1>1, <1>2, <1>3, <2>1 DEF ArbInv
<1>4. CASE Adjusted # None /\ EnterRoot(Adjusted \div (Scale * Scale)) /\ UNCHANGED size
  <2> DEFINE m == Adjusted \div (Scale * Scale)
  <2>1. m \in 0..Max
    <3>1. Adjusted \in 0..Max /\ Scale * Scale \in Nat \ {0}
      <4>1. Scale \in Nat /\ 1 <= Scale
        BY ArbAssumption DEF ArbAssumption
      <4>2. 1 * 1 <= Scale * Scale
        BY <4>1, ProductMonotone
      <4> QED BY <1>1, <1>4, <4>1, <4>2, AdjustedType, ProductNat
    <3>2. m \in Nat /\ (Scale * Scale) * m <= Adjusted
      BY <3>1, MaxType, Quotient
    <3>3. 1 * m <= (Scale * Scale) * m
      BY <3>1, <3>2, ProductMonotone
    <3> HIDE DEF m
    <3> QED BY <3>1, <3>2, <3>3, ProductNat, MaxType
  <2>2. /\ n' = m /\ pc' \in {"sqrt", "rooted"}
        /\ pc' = "sqrt" => /\ n' \in 1..(Max - 1) /\ x' \in 1..n'
                           /\ n' < (x' + 1) * (x' + 1) /\ y' = Guess(x)'
        /\ pc' = "rooted" => n' \in Nat /\ x' \in Nat /\ IsRoot(x, n)'
    BY <1>4, <2>1, Entered
  <2>3. Taken'
    BY <1>1, <1>2, <1>4, <2>2 DEF Taken
  <2> QED BY <1>1, <1>2, <1>4, <2>2, <2>3 DEF ArbInv
<1> QED BY <1>3, <1>4 DEF SizeWithFees

LEMMA ArbRooted ==
  ASSUME ArbInv, Rooted
  PROVE  ArbInv'
<1>1. /\ pc = "rooted" /\ call \in Calls /\ call.of \in {"root", "size"} /\ size = None
      /\ call.of = "size" => Taken
      /\ plain # None => call.of = "size" /\ Sized
      /\ n \in Nat /\ x \in Nat /\ IsRoot(x, n) /\ UNCHANGED <<call, n, x>>
  BY DEF ArbInv, Rooted
<1>2. CASE call.of = "root" /\ pc' = "done" /\ UNCHANGED <<plain, size>>
  BY <1>2, ArbElsewhere, <1>1
<1>3. CASE call.of = "size" /\ plain = None /\ plain' = Capped(x) /\ pc' = "fees" /\ UNCHANGED size
  <2>1. Product # None /\ IsRoot(x, Product)
    BY <1>1, <1>3 DEF Taken
  <2>2. Capped(x) \in Nat
    BY <1>1, <1>3, CappedMonotone
  <2>3. Sized'
    <3>1. Product' = Product /\ \A r : Capped(r)' = Capped(r)
      BY <1>1 DEF Product, Capped
    <3> QED BY <1>1, <1>3, <2>1, <3>1 DEF Sized, IsRoot, Capped
  <2> QED BY <1>1, <1>3, <2>2, <2>3 DEF ArbInv, None
<1>4. CASE call.of = "size" /\ plain # None /\ size' = Capped(Unscaled(x)) /\ pc' = "done" /\ UNCHANGED plain
  <2>1. Adjusted # None /\ x * x <= Adjusted \div (Scale * Scale)
    BY <1>1, <1>4 DEF Taken, IsRoot
  <2>2. call.feeIn <= call.feeOut => size' <= plain'
    BY <1>1, <1>4, <2>1, FeesGiveLess
  <2>3. Sized' = Sized
    BY <1>1, <1>4 DEF Sized, Product, Capped
  <2> QED BY <1>1, <1>4, <2>2, <2>3 DEF ArbInv
<1> QED BY <1>2, <1>3, <1>4 DEF Rooted

LEMMA ArbNext == ArbInv /\ [Next]_vars => ArbInv'
<1> SUFFICES ASSUME ArbInv, [Next]_vars PROVE ArbInv'
  OBVIOUS
<1>1. CASE CallRoot
  BY <1>1, ArbCallRoot
<1>2. CASE RootStep
  BY <1>2, ArbRootStep
<1>3. CASE RootEnds
  BY <1>3, ArbRootEnds
<1>4. CASE SizePlain
  BY <1>4, ArbSizePlain
<1>5. CASE SizeWithFees
  BY <1>5, ArbSizeWithFees
<1>6. CASE Rooted
  BY <1>6, ArbRooted
<1>7. CASE CrossLeg \/ AeroLeg \/ UniLeg \/ UnreadLeg
  <2>1. ASSUME NEW pool, NEW cost, Leg(pool, cost) PROVE ArbInv'
    BY <2>1, ArbElsewhere DEF Leg, root
  <2> QED BY <1>7, <2>1 DEF CrossLeg, AeroLeg, UniLeg, UnreadLeg
<1>8. CASE Newton
  <2>1. pc' \in {"stable", "newton"}
    BY <1>8 DEF Newton
  <2> QED BY <1>8, <2>1, ArbElsewhere DEF Newton, root
<1>9. CASE StablePays \/ NextLeg \/ Rejected \/ Profitable
  BY <1>9, ArbElsewhere DEF StablePays, NextLeg, Rejected, Profitable, root
<1>10. CASE UNCHANGED vars
  <2>1. Taken' = Taken /\ Sized' = Sized
    BY <1>10 DEF vars, Taken, Sized, Product, Adjusted, Capped
  <2>2. Guess(x)' = Guess(x)
    BY <1>10 DEF vars, Guess
  <2> QED BY <1>10, <2>1, <2>2 DEF vars, ArbInv, IsRoot
<1> QED BY <1>1, <1>2, <1>3, <1>4, <1>5, <1>6, <1>7, <1>8, <1>9, <1>10 DEF Next

\* isqrt neither overflows nor divides by zero and ends in the floor of the root of every word,
\* for words of every width, and fees with the dearer one on the sell leg shrink the size.
THEOREM SizesAreSound == Spec => []SizingIsSound
<1>1. ArbInv => SizingIsSound
  BY DEF ArbInv, SizingIsSound, RootIsFloor, FeesShrinkSize, IsRoot
<1> QED BY <1>1, ArbInit, ArbNext, PTL DEF Spec

-----------------------------------------------------------------------------
(* Stable pools.                                                           *)

\* what the loop divides k by
Divisor(a, b) == MulOr(a, SatAdd(MulOr(a, a, Max), MulOr(b, b, Max)), Max)

\* A saturating product or sum is the true one, or the largest word below it.
LEMMA Saturated ==
  ASSUME NEW a \in Nat, NEW b \in Nat
  PROVE  /\ MulOr(a, b, Max) \in 0..Max /\ MulOr(a, b, Max) <= a * b
         /\ MulOr(a, b, Max) = a * b \/ MulOr(a, b, Max) = Max
         /\ SatAdd(a, b) \in 0..Max /\ SatAdd(a, b) <= a + b
         /\ SatAdd(a, b) = a + b \/ SatAdd(a, b) = Max
<1>1. MulOr(a, b, Max) = IF a * b <= Max THEN a * b ELSE Max
  BY Checked
<1>2. a * b \in Nat
  BY ProductNat
<1>3. SatAdd(a, b) \in 0..Max /\ SatAdd(a, b) <= a + b /\ (SatAdd(a, b) = a + b \/ SatAdd(a, b) = Max)
  BY MaxType DEF SatAdd
<1> HIDE DEF MulOr
<1>4. MulOr(a, b, Max) \in 0..Max /\ MulOr(a, b, Max) <= a * b
  BY <1>1, <1>2, MaxType
<1>5. MulOr(a, b, Max) = a * b \/ MulOr(a, b, Max) = Max
  BY <1>1, Zenon
<1> QED BY <1>3, <1>4, <1>5

\* Saturating sums of squares.
LEMMA SumOfSquaresIs ==
  ASSUME NEW a \in Nat, NEW b \in Nat
  PROVE  /\ SumOfSquares(a, b) \in 0..Max /\ SumOfSquares(a, b) <= a * a + b * b
         /\ SumOfSquares(a, b) = a * a + b * b \/ SumOfSquares(a, b) = Max
         /\ a >= 1 => SumOfSquares(a, b) >= 1
<1> DEFINE p == MulOr(a, a, Max)
           q == MulOr(b, b, Max)
           s == SatAdd(p, q)
<1>1. p \in 0..Max /\ p <= a * a /\ (p = a * a \/ p = Max)
  BY Saturated
<1>2. q \in 0..Max /\ q <= b * b /\ (q = b * b \/ q = Max)
  BY Saturated
<1>3. p \in Nat /\ q \in Nat /\ a * a \in Nat /\ b * b \in Nat
  BY <1>1, <1>2, ProductNat, MaxType
<1>4. a >= 1 => a * a >= 1
  <2>1. a >= 1 => 1 * 1 <= a * a
    BY ProductMonotone
  <2> QED BY <2>1
<1>5. s = IF p + q > Max THEN Max ELSE p + q
  BY DEF SatAdd
<1> HIDE DEF p, q, s
<1>6. s \in 0..Max /\ s <= a * a + b * b /\ (s = a * a + b * b \/ s = Max) /\ (a >= 1 => s >= 1)
  BY <1>1, <1>2, <1>3, <1>4, <1>5, MaxType
<1> QED BY <1>6 DEF SumOfSquares, s, p, q

\* k never exceeds the curve.
LEMMA StableKIs ==
  ASSUME NEW a \in Nat, NEW b \in Nat
  PROVE  StableK(a, b) \in 0..Max /\ StableK(a, b) <= Cubic(a, b)
<1> DEFINE p == MulOr(a, b, Max)
           s == SumOfSquares(a, b)
           k == MulOr(p, s, Max)
<1>1. p \in Nat /\ p <= a * b /\ a * b \in Nat
  BY Saturated, ProductNat, MaxType
<1>2. s \in Nat /\ s <= a * a + b * b /\ a * a + b * b \in Nat
  <2>1. s \in 0..Max /\ s <= a * a + b * b
    BY SumOfSquaresIs
  <2> HIDE DEF s
  <2> QED BY <2>1, ProductNat, MaxType
<1> HIDE DEF p, s
<1>3. k \in 0..Max /\ k <= p * s
  BY <1>1, <1>2, Saturated
<1>4. p * s <= (a * b) * (a * a + b * b)
  BY <1>1, <1>2, ProductMonotone
<1>5. k <= (a * b) * (a * a + b * b)
  BY <1>1, <1>2, <1>3, <1>4, ProductNat, MaxType
<1> QED BY <1>3, <1>5 DEF StableK, Cubic, k, p, s

\* The divisor grows with b, and is the true one unless that does not fit.
LEMMA DivisorIs ==
  ASSUME NEW a \in Nat \ {0}, NEW b \in Nat
  PROVE  /\ Divisor(a, b) \in 1..Max
         /\ Divisor(a, b) = a * (a * a + b * b) \/ Divisor(a, b) = Max
<1> DEFINE s == SumOfSquares(a, b)
           d == MulOr(a, s, Max)
<1>1. s \in 1..Max /\ (s = a * a + b * b \/ s = Max)
  BY SumOfSquaresIs
<1> HIDE DEF s
<1>2. d \in 0..Max /\ (d = a * s \/ d = Max)
  <2>1. s \in Nat
    BY <1>1, MaxType
  <2> QED BY <2>1, Saturated
<1>3. a * s >= s
  <2>1. 1 * s <= a * s
    BY <1>1, MaxType, ProductMonotone
  <2> QED BY <1>1, <2>1, MaxType
<1>4. d \in 1..Max
  BY <1>1, <1>2, <1>3, MaxType
<1>5. d = a * (a * a + b * b) \/ d = Max
  <2>1. CASE s = Max
    <3>1. a * s >= Max
      BY <1>3, <2>1
    <3>2. a * s \in Nat /\ d = IF a * s <= Max THEN a * s ELSE Max
      BY <1>1, MaxType, Checked, ProductNat
    <3> QED BY <3>1, <3>2, MaxType
  <2>2. CASE s = a * a + b * b
    BY <1>2, <2>2, Zenon
  <2> QED BY <1>1, <2>1, <2>2
<1> QED BY <1>4, <1>5 DEF Divisor, SumOfSquares, d, s

LEMMA SumOfSquaresGrows ==
  ASSUME NEW a \in Nat, NEW b \in Nat, NEW c \in 0..b
  PROVE  SumOfSquares(a, c) <= SumOfSquares(a, b)
<1> DEFINE p == MulOr(a, a, Max)
           q == MulOr(b, b, Max)
           r == MulOr(c, c, Max)
<1>1. p \in Nat /\ q \in Nat /\ r \in Nat
  <2>1. p \in 0..Max
    BY Saturated
  <2>2. q \in 0..Max
    BY Saturated
  <2>3. r \in 0..Max
    BY Saturated
  <2> HIDE DEF p, q, r
  <2> QED BY <2>1, <2>2, <2>3, MaxType
<1>2. r <= q
  <2>1. c * c <= b * b /\ c * c \in Nat /\ b * b \in Nat
    BY ProductMonotone, ProductNat
  <2>2. q = IF b * b <= Max THEN b * b ELSE Max
    BY Checked
  <2>3. r = IF c * c <= Max THEN c * c ELSE Max
    BY Checked
  <2> HIDE DEF q, r
  <2> QED BY <2>1, <2>2, <2>3, MaxType
<1> HIDE DEF p, q, r
<1>3. SatAdd(p, r) <= SatAdd(p, q)
  BY <1>1, <1>2, MaxType DEF SatAdd
<1> QED BY <1>3 DEF SumOfSquares, p, q, r

LEMMA DivisorGrows ==
  ASSUME NEW a \in Nat, NEW b \in Nat, NEW c \in 0..b
  PROVE  Divisor(a, c) <= Divisor(a, b)
<1> DEFINE s == SumOfSquares(a, b)
           t == SumOfSquares(a, c)
<1>1. s \in Nat /\ t \in Nat /\ t <= s
  BY SumOfSquaresIs, SumOfSquaresGrows, MaxType
<1> HIDE DEF s, t
<1>2. a * t <= a * s /\ a * t \in Nat /\ a * s \in Nat
  BY <1>1, ProductMonotone, ProductNat
<1>3. MulOr(a, s, Max) = IF a * s <= Max THEN a * s ELSE Max
  BY <1>1, Checked
<1>4. MulOr(a, t, Max) = IF a * t <= Max THEN a * t ELSE Max
  BY <1>1, Checked
<1>5. MulOr(a, t, Max) <= MulOr(a, s, Max)
  <2> HIDE DEF MulOr
  <2> QED BY <1>2, <1>3, <1>4, MaxType
<1> QED BY <1>5 DEF Divisor, SumOfSquares, s, t

\* A smaller divisor gives no smaller a quotient.
LEMMA QuotientGrows ==
  ASSUME NEW k \in Nat, NEW d \in Nat \ {0}, NEW e \in Nat \ {0}, e <= d
  PROVE  k \div d <= k \div e
<1> DEFINE p == k \div d
           q == k \div e
<1>1. p \in Nat /\ d * p <= k
  BY Quotient
<1>2. q \in Nat /\ k < e * (q + 1)
  BY Quotient
<1> HIDE DEF p, q
<1>3. SUFFICES ASSUME q + 1 <= p PROVE FALSE
  BY <1>1, <1>2 DEF p, q
<1>4. e * (q + 1) <= d * p
  BY <1>1, <1>2, <1>3, ProductMonotone
<1> QED BY <1>1, <1>2, <1>4, ProductNat

\* Whatever a round makes of b, z units of the other token are within the curve c if z is not
\* above b nor above what the round gives -- saturating or not, if one unit is.
LEMMA RoundWithin ==
  ASSUME NEW a \in Nat \ {0}, NEW b \in Nat, NEW k \in 0..Max, NEW c \in Nat, k <= c,
         Cubic(a, 1) <= Max \/ Cubic(a, 1) <= c,
         NEW z \in 0..b, z <= k \div Divisor(a, b)
  PROVE  Cubic(a, z) <= c
<1> DEFINE d == Divisor(a, b)
           q == k \div d
<1>1. d \in 1..Max /\ (d = a * (a * a + b * b) \/ d = Max)
  BY DivisorIs
<1>2. d \in Nat \ {0} /\ k \in Nat
  BY <1>1, MaxType
<1> HIDE DEF d
<1>3. q \in Nat /\ d * q <= k
  BY <1>2, Quotient
<1> HIDE DEF q
<1>4. z * d <= k
  <2>1. d * z <= d * q
    BY <1>2, <1>3, ProductMonotone DEF q, d
  <2>2. d * z = z * d /\ d * z \in Nat /\ d * q \in Nat
    BY <1>2, <1>3, ProductNat
  <2> QED BY <1>2, <1>3, <2>1, <2>2
<1>5. CASE z = 0
  BY <1>5 DEF Cubic
<1>6. CASE z # 0 /\ d = a * (a * a + b * b)
  <2>1. z * z <= b * b /\ a * a \in Nat /\ b * b \in Nat /\ z * z \in Nat
    BY ProductMonotone, ProductNat
  <2>2. a * (a * a + z * z) <= a * (a * a + b * b)
    BY <2>1, ProductMonotone
  <2>3. a * (a * a + z * z) \in Nat /\ a * (a * a + b * b) \in Nat
    BY <2>1, ProductNat
  <2>4. z * (a * (a * a + z * z)) <= z * d
    BY <1>6, <2>2, <2>3, ProductMonotone
  <2>5. Cubic(a, z) = z * (a * (a * a + z * z))
    <3> DEFINE s == a * a + z * z
    <3>1. s \in Nat
      BY <2>1
    <3> HIDE DEF s
    <3>2. (a * z) * s = z * (a * s)
      BY <3>1
    <3> QED BY <3>2 DEF Cubic, s
  <2>6. z * (a * (a * a + z * z)) \in Nat /\ z * d \in Nat
    BY <1>2, <2>3, ProductNat
  <2> QED BY <1>2, <1>4, <2>4, <2>5, <2>6
<1>7. CASE z # 0 /\ d = Max
  <2>1. z = 1
    <3>1. SUFFICES ASSUME z >= 2 PROVE FALSE
      BY <1>7
    <3>2. 2 * d <= z * d
      BY <1>2, <3>1, ProductMonotone
    <3> QED BY <1>2, <1>4, <1>7, <3>2, ProductNat, MaxType
  <2>2. k = Max
    BY <1>2, <1>4, <1>7, <2>1, MaxType
  <2>3. Cubic(a, 1) \in Nat
    BY ProductNat DEF Cubic
  <2> QED BY <2>1, <2>2, <2>3, MaxType
<1> QED BY <1>1, <1>5, <1>6, <1>7

-----------------------------------------------------------------------------
(* The invariant of a simulation.                                          *)

LegPcs == {"leg", "newton", "stable", "paid", "loss", "profit"}

\* the pools of legs: read ones, and what stands for one that cannot be read
ReadPools   == [rIn : Reserves, rOut : Reserves, fee : Fees, stable : BOOLEAN, read : {TRUE}]
UnreadPools == [rIn : {1}, rOut : {1}, fee : Fees, stable : {FALSE}, read : {FALSE}]
Pools       == ReadPools \union UnreadPools

\* what goes into a leg is no more than an amount or a reserve
Fitting(v) == v \in Nat /\ \E r \in Reserves \union Amounts : v <= r

AllRead    == \A i \in DOMAIN path : path[i].read
NoneStable == \A i \in DOMAIN path : ~path[i].stable

\* the amount has been exchanged at no better than the prices so far
Bargain == NoneStable => Sold(path) >= 1 /\ Sold(path) * out <= call.amount * Bought(path)

LegTypes ==
  pc \in LegPcs =>
    /\ call.of \in {"cross", "tri"} /\ call.amount \in Amounts
    /\ path \in Seq(Pools) /\ Len(path) <= Wanted
    /\ Fitting(out) /\ Fitting(given)

\* a leg is entered with something in hand, and only a leg that pays is followed by another
LegOrder ==
  /\ pc = "leg" => Len(path) < Wanted /\ out # 0 /\ AllRead /\ Bargain
  /\ pc = "paid" /\ out # 0 => AllRead /\ Bargain
  /\ pc \in {"newton", "stable", "paid"} => Len(path) >= 1
  /\ pc \in {"newton", "stable"} => AllRead /\ Now.stable /\ Now.rIn # 0 /\ Now.rOut # 0

\* before the second round of the loop, and after its last
Iterate ==
  LET first == Better(StableIn(Now.rIn, given, Now.fee), Now.rOut, StableK(Now.rIn, Now.rOut))
  IN pc = "newton" => \/ round = 0 /\ rest = Now.rOut
                      \/ round = 1 /\ rest = first /\ first \in 0..Now.rOut
Remainder == pc = "stable" => rest \in 0..Now.rOut

LegInv == LegTypes /\ LegOrder /\ Iterate /\ Remainder /\ StableOverpays /\ NoFreeProfit

LEMMA BoundTypes ==
  /\ Scale \in Nat \ {0} /\ Reserves \subseteq Nat /\ Amounts \subseteq Nat \ {0}
  /\ Fees \subseteq 0..(Scale - 1) /\ AeroFee \in Fees /\ UniFee \in Fees
<1>1. Reserves \subseteq 0..Max /\ Amounts \subseteq 1..Max
  BY ArbAssumption DEF ArbAssumption
<1>2. Reserves \subseteq Nat
  BY <1>1, MaxType
<1>3. Amounts \subseteq Nat \ {0}
  BY <1>1, MaxType
<1> QED BY <1>2, <1>3, ArbAssumption DEF ArbAssumption

\* A longer path multiplies its reserves.
LEMMA PathGrows ==
  ASSUME NEW p \in Seq(Pools), Len(p) <= 2, NEW pool \in Pools
  PROVE  LET q == Append(p, pool)
         IN /\ q \in Seq(Pools) /\ Len(q) = Len(p) + 1 /\ q[Len(q)] = pool
            /\ \A i \in DOMAIN p : i \in DOMAIN q /\ q[i] = p[i]
            /\ \A i \in DOMAIN q : i \in DOMAIN p \/ q[i] = pool
            /\ Sold(p) \in Nat /\ Bought(p) \in Nat
            /\ Sold(q) = Sold(p) * pool.rIn /\ Bought(q) = Bought(p) * pool.rOut
<1> DEFINE q == Append(p, pool)
<1>1. /\ q \in Seq(Pools) /\ Len(q) = Len(p) + 1 /\ q[Len(q)] = pool
      /\ \A i \in 1..Len(p) : q[i] = p[i]
  OBVIOUS
<1>2. /\ Len(p) \in 0..2
      /\ DOMAIN p = 1..Len(p) /\ DOMAIN q = 1..Len(q)
      /\ \A i \in DOMAIN p : p[i] \in Pools
  <2>1. Len(p) \in Nat /\ DOMAIN p = 1..Len(p)
    OBVIOUS
  <2>2. DOMAIN q = 1..Len(q)
    BY <1>1
  <2>3. \A i \in DOMAIN p : p[i] \in Pools
    OBVIOUS
  <2> HIDE DEF q
  <2> QED BY <2>1, <2>2, <2>3
<1>3. ASSUME NEW r \in Pools PROVE r.rIn \in Nat /\ r.rOut \in Nat
  <2>1. CASE r \in ReadPools
    <3>1. r.rIn \in Reserves /\ r.rOut \in Reserves
      BY <2>1 DEF ReadPools
    <3> QED BY <3>1, BoundTypes
  <2>2. CASE r \in UnreadPools
    BY <2>2 DEF UnreadPools
  <2> QED BY <2>1, <2>2 DEF Pools
<1> HIDE DEF q
<1>4. CASE Len(p) = 0
  <2>1. /\ 1 \in DOMAIN q /\ 2 \notin DOMAIN q /\ 3 \notin DOMAIN q /\ q[1] = pool
        /\ 1 \notin DOMAIN p /\ 2 \notin DOMAIN p /\ 3 \notin DOMAIN p
    BY <1>1, <1>2, <1>4
  <2>2. Sold(p) = 1 * 1 * 1 /\ Bought(p) = 1 * 1 * 1
    BY <2>1, Zenon DEF Sold, Bought
  <2>3. Sold(q) = pool.rIn * 1 * 1 /\ Bought(q) = pool.rOut * 1 * 1
    BY <2>1, Zenon DEF Sold, Bought
  <2> QED BY <1>1, <1>2, <1>3, <2>2, <2>3 DEF q
<1>5. CASE Len(p) = 1
  <2>1. /\ 1 \in DOMAIN q /\ 2 \in DOMAIN q /\ 3 \notin DOMAIN q /\ q[1] = p[1] /\ q[2] = pool
        /\ 1 \in DOMAIN p /\ 2 \notin DOMAIN p /\ 3 \notin DOMAIN p
    BY <1>1, <1>2, <1>5
  <2>2. Sold(p) = p[1].rIn * 1 * 1 /\ Bought(p) = p[1].rOut * 1 * 1
    BY <2>1, Zenon DEF Sold, Bought
  <2>3. Sold(q) = p[1].rIn * pool.rIn * 1 /\ Bought(q) = p[1].rOut * pool.rOut * 1
    BY <2>1, Zenon DEF Sold, Bought
  <2>4. p[1].rIn \in Nat /\ p[1].rOut \in Nat
    BY <1>2, <1>3, <2>1
  <2> QED BY <1>1, <1>2, <1>3, <2>2, <2>3, <2>4, ProductNat DEF q
<1>6. CASE Len(p) = 2
  <2>1. /\ 1 \in DOMAIN q /\ 2 \in DOMAIN q /\ 3 \in DOMAIN q
        /\ q[1] = p[1] /\ q[2] = p[2] /\ q[3] = pool
        /\ 1 \in DOMAIN p /\ 2 \in DOMAIN p /\ 3 \notin DOMAIN p
    BY <1>1, <1>2, <1>6
  <2>2. Sold(p) = p[1].rIn * p[2].rIn * 1 /\ Bought(p) = p[1].rOut * p[2].rOut * 1
    BY <2>1, Zenon DEF Sold, Bought
  <2>3. /\ Sold(q) = p[1].rIn * p[2].rIn * pool.rIn
        /\ Bought(q) = p[1].rOut * p[2].rOut * pool.rOut
    BY <2>1, Zenon DEF Sold, Bought
  <2>4. p[1].rIn \in Nat /\ p[1].rOut \in Nat /\ p[2].rIn \in Nat /\ p[2].rOut \in Nat
    BY <1>2, <1>3, <2>1
  <2>5. Sold(p) \in Nat /\ Bought(p) \in Nat
    BY <2>2, <2>4, ProductNat
  <2>6. Sold(q) = Sold(p) * pool.rIn /\ Bought(q) = Bought(p) * pool.rOut
    BY <1>3, <2>2, <2>3, <2>4
  <2> QED BY <1>1, <1>2, <2>5, <2>6 DEF q
<1> QED BY <1>2, <1>4, <1>5, <1>6

\* The fields of a leg's pool.
LEMMA PoolFields ==
  ASSUME NEW pool \in Pools
  PROVE  /\ pool.rIn \in Reserves \union {1} /\ pool.rOut \in Reserves \union {1}
         /\ pool.rIn \in Nat /\ pool.rOut \in Nat
         /\ pool.fee \in Fees /\ pool.fee \in 0..(Scale - 1)
         /\ pool.stable \in BOOLEAN /\ pool.read \in BOOLEAN
         /\ pool.read \/ (pool.rOut = 1 /\ ~pool.stable)
         /\ pool.read => pool.rIn \in Reserves /\ pool.rOut \in Reserves
<1>1. CASE pool \in ReadPools
  <2>1. /\ pool.rIn \in Reserves /\ pool.rOut \in Reserves /\ pool.fee \in Fees
        /\ pool.stable \in BOOLEAN /\ pool.read = TRUE
    BY <1>1 DEF ReadPools
  <2>2. pool.fee \in 0..(Scale - 1)
    BY <2>1, BoundTypes, Zenon
  <2>3. pool.rIn \in Nat /\ pool.rOut \in Nat
    BY <2>1, BoundTypes, Zenon
  <2>4. pool.rIn \in Reserves \union {1} /\ pool.rOut \in Reserves \union {1}
    BY <2>1
  <2> QED BY <2>1, <2>2, <2>3, <2>4, Zenon
<1>2. CASE pool \in UnreadPools
  <2>1. /\ pool.rIn = 1 /\ pool.rOut = 1 /\ pool.fee \in Fees
        /\ pool.stable = FALSE /\ pool.read = FALSE
    BY <1>2 DEF UnreadPools
  <2>2. pool.fee \in 0..(Scale - 1)
    BY <2>1, BoundTypes, Zenon
  <2>3. pool.rIn \in Nat /\ pool.rOut \in Nat
    BY <2>1
  <2>4. pool.rIn \in Reserves \union {1} /\ pool.rOut \in Reserves \union {1}
    BY <2>1
  <2> QED BY <2>1, <2>2, <2>3, <2>4, Zenon
<1> QED BY <1>1, <1>2 DEF Pools

\* What the reserves of a path multiply to is a number.
LEMMA Multiplied ==
  ASSUME NEW p \in Seq(Pools), Len(p) \in 1..3
  PROVE  Sold(p) \in Nat /\ Bought(p) \in Nat
<1> DEFINE In(i)  == IF i \in DOMAIN p THEN p[i].rIn ELSE 1
           Out(i) == IF i \in DOMAIN p THEN p[i].rOut ELSE 1
<1>1. ASSUME NEW i PROVE In(i) \in Nat /\ Out(i) \in Nat
  <2>1. CASE i \in DOMAIN p
    <3>1. p[i] \in Pools
      BY <2>1
    <3> QED BY <2>1, <3>1, PoolFields
  <2>2. CASE i \notin DOMAIN p
    BY <2>2
  <2> QED BY <2>1, <2>2
<1>2. Sold(p) = In(1) * In(2) * In(3) /\ Bought(p) = Out(1) * Out(2) * Out(3)
  BY DEF Sold, Bought
<1> HIDE DEF In, Out
<1>3. In(1) * In(2) \in Nat /\ Out(1) * Out(2) \in Nat
  BY <1>1, ProductNat
<1> QED BY <1>1, <1>2, <1>3, ProductNat

\* A leg after others: what comes out of it is bought no better than at the prices so far.
LEMMA BargainGoesOn ==
  ASSUME NEW s \in Nat \ {0}, NEW b \in Nat, NEW m \in Nat, NEW v \in Nat, s * v <= m * b,
         NEW r \in Nat \ {0}, NEW t \in Nat, NEW o \in Nat, r * o <= v * t
  PROVE  s * r >= 1 /\ (s * r) * o <= m * (b * t)
<1>1. s * r \in Nat /\ 1 * 1 <= s * r
  BY ProductNat, ProductMonotone
<1>2. s * (r * o) <= s * (v * t)
  BY ProductNat, ProductMonotone
<1>3. (s * v) * t <= (m * b) * t
  BY ProductNat, ProductMonotone
<1>4. (s * r) * o = s * (r * o) /\ s * (v * t) = (s * v) * t /\ (m * b) * t = m * (b * t)
  OBVIOUS
<1>5. s * (r * o) \in Nat /\ (s * v) * t \in Nat /\ (m * b) * t \in Nat
  BY ProductNat
<1> QED BY <1>1, <1>2, <1>3, <1>4, <1>5

LEMMA RangeOf ==
  ASSUME NEW r \in Reserves \union {1}, NEW v, Fitting(v), NEW a \in Amounts
  PROVE  (r + v) * Scale <= Max
<1>1. PICK s \in Reserves \union Amounts : v <= s
  BY DEF Fitting
<1>2. PICK t \in Reserves \union Amounts : r <= t
  BY BoundTypes
<1>3. r \in Nat /\ v \in Nat /\ s \in Nat /\ t \in Nat /\ Scale \in Nat
  BY BoundTypes DEF Fitting
<1>4. (t + s) * Scale <= Max
  BY RangeAssumption DEF RangeAssumption
<1>5. (r + v) * Scale <= (t + s) * Scale
  BY <1>1, <1>2, <1>3, ProductMonotone
<1> QED BY <1>3, <1>4, <1>5, ProductNat, MaxType

\* What amm_out pays for what goes into a leg.
LEMMA LegPays ==
  ASSUME NEW pool \in Pools, NEW v, Fitting(v), NEW a \in Amounts
  PROVE  LET o == AmmOut(pool.rIn, pool.rOut, v, pool.fee)
         IN \/ o = 0
            \/ /\ o \in Nat /\ o <= pool.rOut /\ pool.read /\ pool.rIn \in Nat \ {0}
               /\ pool.rIn * o <= v * pool.rOut
<1> DEFINE o == AmmOut(pool.rIn, pool.rOut, v, pool.fee)
<1>1. CASE pool.rIn = 0 \/ pool.rOut = 0
  <2>1. o = 0
    BY <1>1 DEF AmmOut
  <2> QED BY <2>1
<1>2. CASE pool.rIn # 0 /\ pool.rOut # 0
  <2>1. pool.rIn \in Nat \ {0} /\ pool.rOut \in Nat \ {0} /\ v \in Nat /\ pool.fee \in 0..(Scale - 1)
    BY <1>2, PoolFields DEF Fitting
  <2>2. (pool.rIn + v) * Scale <= Max
    BY PoolFields, RangeOf
  <2>3. o \in 0..(pool.rOut - 1) /\ pool.rIn * o <= v * pool.rOut
    BY <2>1, <2>2, SwapKeepsProduct
  <2> HIDE DEF o
  <2>4. pool.read \/ o = 0
    BY <2>1, <2>3, PoolFields
  <2>5. o \in Nat /\ o <= pool.rOut
    BY <2>1, <2>3
  <2> QED BY <2>1, <2>3, <2>4, <2>5 DEF o
<1> QED BY <1>1, <1>2

LEMMA FittingReserve ==
  ASSUME NEW r \in Reserves, NEW v \in Nat, v <= r
  PROVE  Fitting(v)
  BY DEF Fitting

LEMMA FittingZero ==
  ASSUME NEW a \in Amounts
  PROVE  Fitting(0) /\ Fitting(a)
<1>1. a \in Nat /\ 0 <= a /\ a <= a
  BY BoundTypes
<1> QED BY <1>1 DEF Fitting

\* A leg.
LEMMA LegLeg ==
  ASSUME LegInv, NEW pool \in Pools, NEW cost, Leg(pool, cost)
  PROVE  LegInv'
<1>1. /\ pc = "leg" /\ path' = Append(path, pool) /\ given' = out
      /\ UNCHANGED <<call, sim>> /\ pc' \in {"newton", "paid"}
  BY DEF Leg
<1>2. /\ call.of \in {"cross", "tri"} /\ call.amount \in Amounts /\ path \in Seq(Pools)
      /\ Fitting(out) /\ Len(path) < Wanted /\ out # 0 /\ AllRead /\ Bargain
  BY <1>1 DEF LegInv, LegTypes, LegOrder, LegPcs
<1>3. Wanted \in {2, 3} /\ Wanted' = Wanted /\ Len(path) \in Nat /\ Len(path) <= 2
  BY <1>1, <1>2 DEF Wanted
<1>4. /\ path' \in Seq(Pools) /\ Len(path') = Len(path) + 1 /\ path'[Len(path')] = pool
      /\ \A i \in DOMAIN path : i \in DOMAIN path' /\ path'[i] = path[i]
      /\ \A i \in DOMAIN path' : i \in DOMAIN path \/ path'[i] = pool
      /\ Sold(path) \in Nat /\ Bought(path) \in Nat
      /\ Sold(path') = Sold(path) * pool.rIn /\ Bought(path') = Bought(path) * pool.rOut
  BY <1>1, <1>2, <1>3, PathGrows
<1>5. Len(path') <= Wanted' /\ Len(path') >= 1
  BY <1>2, <1>3, <1>4
<1>6. Now' = pool
  BY <1>4 DEF Now
<1>7. pool.read => AllRead'
  <2> SUFFICES ASSUME pool.read, NEW i \in DOMAIN path' PROVE path'[i].read
    BY DEF AllRead
  <2>1. CASE i \in DOMAIN path
    BY <1>2, <1>4, <2>1 DEF AllRead
  <2>2. CASE i \notin DOMAIN path
    BY <1>4, <2>2
  <2> QED BY <2>1, <2>2
<1>8. NoneStable' => NoneStable
  BY <1>4 DEF NoneStable
<1>9. CASE pool.stable /\ pool.rIn # 0 /\ pool.rOut # 0
  <2>1. pc' = "newton" /\ rest' = pool.rOut /\ round' = 0 /\ out' = out
    BY <1>9 DEF Leg
  <2>2. LegTypes'
    BY <1>1, <1>2, <1>4, <1>5, <2>1 DEF LegTypes, Fitting
  <2>3. LegOrder'
    BY <1>5, <1>6, <1>7, <1>9, <2>1, PoolFields DEF LegOrder
  <2>4. Iterate' /\ Remainder'
    BY <1>6, <2>1 DEF Iterate, Remainder
  <2>5. StableOverpays' /\ NoFreeProfit'
    BY <2>1 DEF StableOverpays, NoFreeProfit
  <2> QED BY <2>2, <2>3, <2>4, <2>5 DEF LegInv
<1>10. CASE ~(pool.stable /\ pool.rIn # 0 /\ pool.rOut # 0)
  <2>1. /\ pc' = "paid"
        /\ out' = IF pool.stable THEN 0 ELSE AmmOut(pool.rIn, pool.rOut, out, pool.fee)
    BY <1>10 DEF Leg
  <2>2. \/ out' = 0
        \/ /\ out' \in Nat /\ out' <= pool.rOut /\ pool.read /\ pool.rIn \in Nat \ {0}
           /\ pool.rIn * out' <= out * pool.rOut
    BY <1>2, <2>1, LegPays
  <2>3. Fitting(out')
    <3>1. CASE out' = 0
      BY <1>2, <3>1, FittingZero
    <3>2. CASE out' # 0
      BY <2>2, <3>2, PoolFields, FittingReserve
    <3> QED BY <3>1, <3>2
  <2>4. LegTypes'
    BY <1>1, <1>2, <1>4, <1>5, <2>3 DEF LegTypes, Fitting
  <2>5. ASSUME out' # 0 PROVE AllRead' /\ Bargain'
    <3>1. AllRead'
      BY <1>7, <2>2, <2>5
    <3>2. ASSUME NoneStable'
          PROVE  Sold(path') >= 1 /\ Sold(path') * out' <= call'.amount * Bought(path')
      <4>1. Sold(path) \in Nat \ {0} /\ Sold(path) * out <= call.amount * Bought(path)
        BY <1>2, <1>4, <1>8, <3>2 DEF Bargain
      <4>2. out \in Nat /\ call.amount \in Nat /\ pool.rOut \in Nat
        BY <1>2, BoundTypes, PoolFields DEF Fitting
      <4>3. /\ Sold(path) * pool.rIn >= 1
            /\ (Sold(path) * pool.rIn) * out' <= call.amount * (Bought(path) * pool.rOut)
        BY <1>4, <2>2, <2>5, <4>1, <4>2, BargainGoesOn
      <4> QED BY <1>1, <1>4, <4>3
    <3> QED BY <3>1, <3>2 DEF Bargain
  <2>6. LegOrder'
    BY <1>5, <2>1, <2>5 DEF LegOrder
  <2>7. Iterate' /\ Remainder' /\ StableOverpays' /\ NoFreeProfit'
    BY <2>1 DEF Iterate, Remainder, StableOverpays, NoFreeProfit
  <2> QED BY <2>4, <2>6, <2>7 DEF LegInv
<1> QED BY <1>9, <1>10

\* What the loop of stable_amm_out works on.
LEMMA InLoop ==
  ASSUME LegInv, pc = "newton"
  PROVE  LET a == StableIn(Now.rIn, given, Now.fee)
             k == StableK(Now.rIn, Now.rOut)
             c == Cubic(Now.rIn, Now.rOut)
         IN /\ a \in Nat \ {0} /\ k \in 0..Max /\ c \in Nat /\ k <= c
            /\ Cubic(a, 1) <= Max \/ Cubic(a, 1) <= c
            /\ Now.rOut \in Nat
<1>1. path \in Seq(Pools) /\ Len(path) >= 1 /\ Fitting(given)
  BY DEF LegInv, LegTypes, LegOrder, LegPcs
<1>2. Now \in Pools /\ Len(path) \in DOMAIN path
  BY <1>1 DEF Now
<1>3. Now.read /\ Now.rIn # 0 /\ Now.rOut # 0
  BY <1>2 DEF LegInv, LegOrder, AllRead, Now
<1>4. /\ Now.rIn \in Reserves \ {0} /\ Now.rOut \in Reserves \ {0}
      /\ Now.rIn \in Nat \ {0} /\ Now.rOut \in Nat \ {0} /\ Now.fee \in 0..(Scale - 1)
  BY <1>2, <1>3, PoolFields
<1> DEFINE r == Now.rIn
           b == Now.rOut
           fee == Now.fee
           a == StableIn(r, given, fee)
           k == StableK(r, b)
           c == Cubic(r, b)
<1>5. /\ r \in Reserves \ {0} /\ b \in Reserves \ {0}
      /\ r \in Nat \ {0} /\ b \in Nat \ {0} /\ fee \in 0..(Scale - 1)
  BY <1>4
<1> HIDE DEF r, b, fee
<1>6. k \in 0..Max /\ k <= c
  BY <1>5, StableKIs
<1>7. c \in Nat
  BY <1>5, ProductNat DEF Cubic
<1>8. a \in Nat \ {0} /\ a <= r + given
  <2> DEFINE paid == MulOr(given, Scale - fee, 0)
  <2>1. Scale - fee \in 1..Scale /\ Scale \in Nat \ {0} /\ given \in Nat
    BY <1>1, <1>5, BoundTypes DEF Fitting
  <2>2. paid \in Nat /\ paid <= given * Scale
    <3>1. given * (Scale - fee) \in Nat /\ given * (Scale - fee) <= given * Scale /\ given * Scale \in Nat
      BY <2>1, ProductNat, ProductMonotone
    <3>2. paid = IF given * (Scale - fee) <= Max THEN given * (Scale - fee) ELSE 0
      BY <2>1, Checked
    <3> HIDE DEF paid
    <3> QED BY <3>1, <3>2
  <2> HIDE DEF paid
  <2>3. paid \div Scale \in Nat /\ Scale * (paid \div Scale) <= paid
    BY <2>1, <2>2, Quotient
  <2> DEFINE q == paid \div Scale
  <2>4. q \in Nat /\ Scale * q <= given * Scale
    BY <2>1, <2>2, <2>3, ProductNat
  <2> HIDE DEF q
  <2>5. q <= given
    <3>1. SUFFICES ASSUME given + 1 <= q PROVE FALSE
      BY <2>1, <2>4
    <3>2. Scale * (given + 1) <= Scale * q
      BY <2>1, <2>4, <3>1, ProductMonotone
    <3>3. Scale * (given + 1) = given * Scale + Scale
      BY <2>1
    <3> QED BY <2>1, <2>4, <3>2, <3>3, ProductNat
  <2>6. a = r + q
    BY DEF StableIn, q, paid
  <2> QED BY <1>5, <2>1, <2>4, <2>5, <2>6
<1>9. Cubic(a, 1) <= Max \/ Cubic(a, 1) <= c
  <2>1. PICK s \in Reserves \union Amounts : given <= s
    BY <1>1 DEF Fitting
  <2>2. s \in Nat /\ given \in Nat
    BY <1>1, BoundTypes DEF Fitting
  <2> DEFINE t == r + s
  <2>3. t \in Nat /\ a <= t
    BY <1>5, <1>8, <2>1, <2>2
  <2>4. Cubic(t, 1) <= Max \/ Cubic(t, 1) <= c
    BY <1>5, CurveAssumption DEF CurveAssumption
  <2> HIDE DEF t, a
  <2>5. Cubic(a, 1) <= Cubic(t, 1) /\ Cubic(a, 1) \in Nat /\ Cubic(t, 1) \in Nat
    <3>1. a * a <= t * t /\ a * a \in Nat /\ t * t \in Nat
      BY <1>8, <2>3, ProductMonotone, ProductNat
    <3>2. (a * 1) * (a * a + 1 * 1) <= (t * 1) * (t * t + 1 * 1)
      BY <1>8, <2>3, <3>1, ProductMonotone
    <3>3. (a * 1) * (a * a + 1 * 1) \in Nat /\ (t * 1) * (t * t + 1 * 1) \in Nat
      BY <1>8, <2>3, ProductNat
    <3> QED BY <3>2, <3>3 DEF Cubic
  <2> QED BY <1>7, <2>4, <2>5, MaxType
<1>10. a \in Nat \ {0} /\ b \in Nat
  BY <1>5, <1>8
<1> QED BY <1>6, <1>7, <1>9, <1>10 DEF r, b, fee

LEMMA LegNewton ==
  ASSUME LegInv, Newton
  PROVE  LegInv'
<1> DEFINE a   == StableIn(Now.rIn, given, Now.fee)
           k   == StableK(Now.rIn, Now.rOut)
           c   == Cubic(Now.rIn, Now.rOut)
           b   == Now.rOut
           new == Better(a, rest, k)
<1>1. /\ pc = "newton" /\ UNCHANGED <<call, root, path, given, out, gas, sim>>
      /\ IF new >= rest THEN pc' = "stable" /\ UNCHANGED <<rest, round>>
         ELSE /\ rest' = new /\ round' = round + 1
              /\ pc' = IF rest - new <= 1 \/ round' = Rounds THEN "stable" ELSE pc
  BY DEF Newton
<1>2. /\ a \in Nat \ {0} /\ k \in 0..Max /\ c \in Nat /\ k <= c /\ b \in Nat
      /\ Cubic(a, 1) <= Max \/ Cubic(a, 1) <= c
  BY <1>1, InLoop
<1>3. \/ round = 0 /\ rest = b
      \/ round = 1 /\ rest = Better(a, b, k) /\ rest \in 0..b
  BY <1>1 DEF LegInv, Iterate
<1>4. Now' = Now /\ given' = given /\ path' = path /\ out' = out /\ call' = call
  BY <1>1 DEF Now
<1>5. pc' \in {"newton", "stable"}
  BY <1>1
<1>6. LegTypes' /\ LegOrder'
  <2>1. LegTypes'
    BY <1>1, <1>4, <1>5 DEF LegInv, LegTypes, LegPcs, Wanted, Fitting
  <2>2. LegOrder'
    BY <1>1, <1>4, <1>5 DEF LegInv, LegOrder, AllRead
  <2> QED BY <2>1, <2>2
<1>7. NoFreeProfit'
  BY <1>5 DEF NoFreeProfit
<1>8. rest \in 0..b /\ rest \in Nat
  BY <1>2, <1>3
<1>9. new = k \div Divisor(a, rest) /\ Better(a, b, k) = k \div Divisor(a, b)
  BY DEF Better, Divisor
<1>10. new \in Nat /\ Better(a, b, k) \in Nat
  <2>1. Divisor(a, rest) \in Nat \ {0} /\ Divisor(a, b) \in Nat \ {0} /\ k \in Nat
    <3>1. Divisor(a, rest) \in 1..Max
      BY <1>2, <1>8, DivisorIs
    <3>2. Divisor(a, b) \in 1..Max
      BY <1>2, DivisorIs
    <3> HIDE DEF a, b, k
    <3> QED BY <1>2, <3>1, <3>2, MaxType
  <2>2. k \div Divisor(a, rest) \in Nat
    BY <2>1, Quotient
  <2>3. k \div Divisor(a, b) \in Nat
    BY <2>1, Quotient
  <2> QED BY <1>9, <2>2, <2>3
<1>11. ASSUME round = 1 PROVE new >= rest
  <2>1. rest \in 0..b /\ rest = Better(a, b, k)
    BY <1>3, <1>11
  <2>2. Divisor(a, rest) <= Divisor(a, b)
    BY <1>2, <2>1, DivisorGrows
  <2>3. Divisor(a, rest) \in Nat \ {0} /\ Divisor(a, b) \in Nat \ {0} /\ k \in Nat
    <3>1. Divisor(a, rest) \in 1..Max
      BY <1>2, <1>8, DivisorIs
    <3>2. Divisor(a, b) \in 1..Max
      BY <1>2, DivisorIs
    <3> HIDE DEF a, b, k
    <3> QED BY <1>2, <3>1, <3>2, MaxType
  <2>4. k \div Divisor(a, b) <= k \div Divisor(a, rest)
    BY <2>2, <2>3, QuotientGrows
  <2> QED BY <1>9, <1>10, <2>1, <2>4
<1>12. ASSUME NEW z \in 0..rest, z <= new PROVE Cubic(a, z) <= c
  <2>1. z <= k \div Divisor(a, rest)
    BY <1>9, <1>12
  <2> HIDE DEF a, k, c, b, new
  <2> QED BY <1>2, <1>8, <1>12, <2>1, RoundWithin
<1>13. a' = a /\ c' = c /\ b' = b /\ k' = k
  BY <1>4
<1> HIDE DEF new
<1>14. CASE new >= rest
  <2>1. pc' = "stable" /\ rest' = rest /\ round' = round
    BY <1>1, <1>14
  <2>2. Cubic(a, rest) <= c
    <3>1. rest \in 0..rest /\ rest <= new
      BY <1>8, <1>10, <1>14
    <3> QED BY <1>12, <3>1
  <2>3. StableOverpays'
    BY <1>3, <1>4, <2>1, <2>2 DEF StableOverpays
  <2>4. Iterate' /\ Remainder'
    BY <1>4, <1>8, <2>1 DEF Iterate, Remainder
  <2> QED BY <1>6, <1>7, <2>3, <2>4 DEF LegInv
<1>15. CASE ~(new >= rest)
  <2>1. rest' = new /\ round' = round + 1 /\ new < rest /\ new \in 0..rest
    BY <1>1, <1>8, <1>10, <1>15
  <2>2. round = 0 /\ rest = b /\ round' = 1
    BY <1>3, <1>11, <1>15, <2>1
  <2>3. Cubic(a, new) <= c
    BY <1>10, <1>12, <2>1
  <2>4. StableOverpays'
    BY <1>4, <2>1, <2>2, <2>3 DEF StableOverpays
  <2>5. new = Better(a, b, k)
    BY <2>2 DEF new
  <2>6. Iterate'
    BY <1>4, <2>1, <2>2, <2>5 DEF Iterate
  <2>7. Remainder'
    BY <1>4, <2>1, <2>2 DEF Remainder
  <2> QED BY <1>6, <1>7, <2>4, <2>6, <2>7 DEF LegInv
<1> QED BY <1>14, <1>15

LEMMA LegPaid ==
  ASSUME LegInv, StablePays
  PROVE  LegInv'
<1>1. pc = "stable" /\ pc' = "paid" /\ out' = SatSub(Now.rOut, rest)
  BY DEF StablePays
<1>2. call' = call /\ path' = path /\ given' = given
  BY DEF StablePays
<1>3. /\ call.of \in {"cross", "tri"} /\ call.amount \in Amounts /\ path \in Seq(Pools)
      /\ Len(path) <= Wanted /\ Fitting(given) /\ Len(path) >= 1 /\ AllRead /\ Now.stable
      /\ rest \in 0..Now.rOut
  BY <1>1 DEF LegInv, LegTypes, LegOrder, LegPcs, Remainder
<1>4. Now \in Pools /\ Len(path) \in DOMAIN path
  BY <1>3 DEF Now
<1>5. Now.rOut \in Reserves /\ Now.rOut \in Nat
  BY <1>3, <1>4, PoolFields DEF AllRead, Now
<1>6. out' \in Nat /\ out' <= Now.rOut
  BY <1>1, <1>3, <1>5 DEF SatSub
<1>7. Fitting(out')
  BY <1>5, <1>6, FittingReserve
<1>8. LegTypes'
  BY <1>1, <1>2, <1>3, <1>7 DEF LegTypes, LegPcs, Wanted, Fitting
<1>9. ~NoneStable
  BY <1>3, <1>4 DEF NoneStable, Now
<1>10. LegOrder'
  BY <1>1, <1>2, <1>3, <1>9 DEF LegOrder, AllRead, Bargain, NoneStable
<1>11. Iterate' /\ Remainder' /\ StableOverpays' /\ NoFreeProfit'
  BY <1>1 DEF Iterate, Remainder, StableOverpays, NoFreeProfit
<1> QED BY <1>8, <1>10, <1>11 DEF LegInv

\* With more in hand than was put in, the prices multiply to more than one.
LEMMA ProfitPriced ==
  ASSUME NEW s \in Nat, NEW o \in Nat, NEW m \in Nat, NEW b \in Nat, s >= 1,
         s * o <= m * b, o > m
  PROVE  b > s
<1>1. SUFFICES ASSUME b <= s PROVE FALSE
  OBVIOUS
<1>2. m * b <= m * s
  BY <1>1, ProductMonotone
<1>3. s * (m + 1) <= s * o
  BY ProductMonotone
<1>4. s * (m + 1) = m * s + s
  OBVIOUS
<1> QED BY <1>2, <1>3, <1>4, ProductNat

LEMMA LegProfitable ==
  ASSUME LegInv, Profitable
  PROVE  LegInv'
<1>1. pc = "paid" /\ Len(path) = Wanted /\ out > call.amount /\ pc' = "profit"
  BY DEF Profitable
<1>2. call' = call /\ path' = path /\ given' = given /\ out' = out
  BY DEF Profitable, legs
<1>3. /\ call.of \in {"cross", "tri"} /\ call.amount \in Amounts /\ path \in Seq(Pools)
      /\ Len(path) <= Wanted /\ Fitting(given) /\ Fitting(out) /\ Len(path) >= 1
  BY <1>1 DEF LegInv, LegTypes, LegOrder, LegPcs
<1>4. out \in Nat /\ call.amount \in Nat /\ out # 0
  <2>1. out \in Nat
    BY <1>3 DEF Fitting
  <2>2. call.amount \in Nat \ {0}
    BY <1>3, BoundTypes, Zenon
  <2> QED BY <1>1, <2>1, <2>2
<1>5. AllRead /\ Bargain
  BY <1>1, <1>4 DEF LegInv, LegOrder
<1>6. ASSUME NoneStable PROVE Bought(path) > Sold(path)
  <2>1. Sold(path) >= 1 /\ Sold(path) * out <= call.amount * Bought(path)
    BY <1>5, <1>6 DEF Bargain
  <2>2. Sold(path) \in Nat /\ Bought(path) \in Nat
    BY <1>1, <1>3, Multiplied DEF Wanted
  <2> QED BY <1>1, <1>4, <2>1, <2>2, ProfitPriced
<1>7. NoFreeProfit'
  BY <1>2, <1>5, <1>6 DEF NoFreeProfit, AllRead, NoneStable, Sold, Bought
<1>8. LegTypes'
  BY <1>1, <1>2, <1>3 DEF LegTypes, Wanted, Fitting
<1>9. LegOrder' /\ Iterate' /\ Remainder' /\ StableOverpays'
  BY <1>1 DEF LegOrder, Iterate, Remainder, StableOverpays
<1> QED BY <1>7, <1>8, <1>9 DEF LegInv

LEMMA LegRest ==
  ASSUME LegInv, NextLeg \/ Rejected
  PROVE  LegInv'
<1>1. call' = call /\ path' = path /\ given' = given /\ out' = out
  BY DEF NextLeg, Rejected, legs
<1>2. pc = "paid" /\ pc' \in {"leg", "loss"} /\ (pc' = "leg" => out # 0 /\ Len(path) < Wanted)
  BY DEF NextLeg, Rejected
<1>3. LegTypes'
  BY <1>1, <1>2 DEF LegInv, LegTypes, LegPcs, Wanted, Fitting
<1>4. LegOrder'
  BY <1>1, <1>2 DEF LegInv, LegOrder, AllRead, Bargain, NoneStable, Sold, Bought, Wanted
<1>5. Iterate' /\ Remainder' /\ StableOverpays' /\ NoFreeProfit'
  BY <1>2 DEF Iterate, Remainder, StableOverpays, NoFreeProfit
<1> QED BY <1>3, <1>4, <1>5 DEF LegInv

LEMMA LegInit == Init => LegInv
<1> SUFFICES ASSUME Init PROVE LegInv
  OBVIOUS
<1>1. call \in Calls /\ path = <<>> /\ given = 0 /\ pc \notin {"newton", "stable", "paid", "loss", "profit"}
  BY DEF Init, Idle
<1>2. Iterate /\ Remainder /\ StableOverpays /\ NoFreeProfit
  BY <1>1 DEF Iterate, Remainder, StableOverpays, NoFreeProfit
<1>3. CASE call.of \in {"cross", "tri"}
  <2>1. call.amount \in Amounts /\ out = call.amount
    BY <1>1, <1>3 DEF Init, Calls
  <2>2. call.amount \in Nat \ {0} /\ Fitting(out) /\ Fitting(given)
    BY <1>1, <2>1, BoundTypes, FittingZero
  <2>3. path \in Seq(Pools) /\ Len(path) = 0 /\ Wanted \in {2, 3} /\ DOMAIN path = {}
    BY <1>1 DEF Wanted
  <2>4. Sold(path) = 1 * 1 * 1 /\ Bought(path) = 1 * 1 * 1
    BY <2>3, Zenon DEF Sold, Bought
  <2>5. Bargain
    BY <2>1, <2>2, <2>4 DEF Bargain
  <2>6. LegTypes
    BY <1>3, <2>1, <2>2, <2>3 DEF LegTypes
  <2>7. LegOrder
    BY <1>1, <2>1, <2>2, <2>3, <2>5 DEF LegOrder, AllRead
  <2> QED BY <1>2, <2>6, <2>7 DEF LegInv
<1>4. CASE call.of \notin {"cross", "tri"}
  <2>1. call.of \in {"root", "size"}
    BY <1>1, <1>4 DEF Calls
  <2>2. pc \in {"call", "plain"}
    BY <2>1 DEF Init
  <2> QED BY <1>2, <2>2 DEF LegInv, LegTypes, LegOrder, LegPcs
<1> QED BY <1>3, <1>4

\* The steps of the root and of the sizes end in none of a simulation's.
LEMMA LegElsewhere ==
  ASSUME LegInv, pc' \notin LegPcs
  PROVE  LegInv'
  BY DEF LegInv, LegTypes, LegOrder, LegPcs, Iterate, Remainder, StableOverpays, NoFreeProfit

LEMMA LegNext == LegInv /\ [Next]_vars => LegInv'
<1> SUFFICES ASSUME LegInv, [Next]_vars PROVE LegInv'
  OBVIOUS
<1>1. CASE CallRoot \/ RootStep \/ RootEnds \/ SizePlain \/ SizeWithFees \/ Rooted
  <2>1. pc' \in {"sqrt", "panic", "rooted", "fees", "done"}
    <3>1. CASE CallRoot \/ SizePlain
      BY <3>1 DEF CallRoot, SizePlain, EnterRoot
    <3>2. CASE SizeWithFees \/ Rooted
      BY <3>2 DEF SizeWithFees, Rooted, EnterRoot
    <3>3. CASE RootStep \/ RootEnds
      BY <3>3 DEF RootStep, RootEnds
    <3> QED BY <1>1, <3>1, <3>2, <3>3
  <2> QED BY <2>1, LegElsewhere DEF LegPcs
<1>2. CASE CrossLeg
  <2>1. PICK a \in Reserves, b \in Reserves, fee \in Fees, aero \in BOOLEAN :
             Leg(Pool(a, b, fee, aero /\ fee < StableFee, TRUE), 0)
    BY <1>2 DEF CrossLeg
  <2>2. Pool(a, b, fee, aero /\ fee < StableFee, TRUE) \in Pools
    BY DEF Pool, Pools, ReadPools
  <2> QED BY <2>1, <2>2, LegLeg
<1>3. CASE AeroLeg
  <2>1. PICK a \in Reserves, b \in Reserves : Leg(Pool(a, b, AeroFee, FALSE, TRUE), 8)
    BY <1>3 DEF AeroLeg
  <2>2. Pool(a, b, AeroFee, FALSE, TRUE) \in Pools
    BY BoundTypes DEF Pool, Pools, ReadPools
  <2> QED BY <2>1, <2>2, LegLeg
<1>4. CASE UniLeg
  <2>1. PICK a \in Reserves, b \in Reserves, fee \in Fees : Leg(Pool(a, b, fee, FALSE, TRUE), 15)
    BY <1>4 DEF UniLeg
  <2>2. Pool(a, b, fee, FALSE, TRUE) \in Pools
    BY DEF Pool, Pools, ReadPools
  <2> QED BY <2>1, <2>2, LegLeg
<1>5. CASE UnreadLeg
  <2>1. Pool(1, 1, AeroFee, FALSE, FALSE) \in Pools /\ Pool(1, 1, UniFee, FALSE, FALSE) \in Pools
    BY BoundTypes DEF Pool, Pools, UnreadPools
  <2>2. CASE Leg(Pool(1, 1, AeroFee, FALSE, FALSE), 8)
    BY <2>1, <2>2, LegLeg
  <2>3. CASE Leg(Pool(1, 1, UniFee, FALSE, FALSE), 15)
    BY <2>1, <2>3, LegLeg
  <2> QED BY <1>5, <2>2, <2>3 DEF UnreadLeg
<1>6. CASE Newton
  BY <1>6, LegNewton
<1>7. CASE StablePays
  BY <1>7, LegPaid
<1>8. CASE NextLeg \/ Rejected
  BY <1>8, LegRest
<1>9. CASE Profitable
  BY <1>9, LegProfitable
<1>10. CASE UNCHANGED vars
  <2>1. UNCHANGED <<call, pc, path, given, out, rest, round>>
    BY <1>10 DEF vars
  <2>2. LegTypes' /\ LegOrder'
    BY <2>1 DEF LegInv, LegTypes, LegOrder, Wanted, Fitting, AllRead, Bargain, NoneStable, Sold, Bought, Now
  <2>3. Iterate' /\ Remainder' /\ StableOverpays' /\ NoFreeProfit'
    BY <2>1 DEF LegInv, Iterate, Remainder, StableOverpays, NoFreeProfit, Now, Sold, Bought
  <2> QED BY <2>2, <2>3 DEF LegInv
<1> QED BY <1>1, <1>2, <1>3, <1>4, <1>5, <1>6, <1>7, <1>8, <1>9, <1>10 DEF Next

\* A simulated profit takes prices that multiply to more than one, and pools that could all be
\* read: for words of every width, and every set of reserves, amounts and fees.
THEOREM ProfitIsPriced == Spec => []NoFreeProfit
<1>1. LegInv => NoFreeProfit
  BY DEF LegInv
<1> QED BY <1>1, LegInit, LegNext, PTL DEF Spec

\* The loop of stable_amm_out moves once at most, and ends within the curve.
THEOREM StablePaysMore == Spec => []StableOverpays
<1>1. LegInv => StableOverpays
  BY DEF LegInv
<1> QED BY <1>1, LegInit, LegNext, PTL DEF Spec

===============================================================================
