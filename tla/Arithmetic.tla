----------------------------- MODULE Arithmetic -----------------------------
(***************************************************************************)
(* The arithmetic of the instructions (instructions.rs): results and flags  *)
(* at every width.  A byte has ByteBits bits, which are eight in the code;  *)
(* a width w is a number of bytes, 1, 2, 4 or 8.  The flags are the set of  *)
(* those that are on.  An operation gives a result and the flags after it.  *)
(***************************************************************************)
EXTENDS Integers, FiniteSets, Bitwise
CONSTANT ByteBits
ASSUME ByteBitsAssumption == ByteBits \in {2, 4, 8}

Bits(w)  == w * ByteBits
Mod(w)   == 2 ^ Bits(w)
Sign(w)  == Mod(w) \div 2
BitOf(v, n) == (v \div 2 ^ n) % 2
Neg(v, w)   == v % Mod(w) >= Sign(w)
Signed(v, w) == ((v + Sign(w)) % Mod(w)) - Sign(w)
Sext(v, w)   == Signed(v, w) % Mod(8)
Wider(w)     == IF w < 2 THEN 2 ELSE w

Set(fl, f, on) == IF on THEN fl \cup {f} ELSE fl \ {f}
Ans(r, fl) == [r |-> r, fl |-> fl]

Parity(v) == Cardinality({n \in 0..ByteBits - 1 : BitOf(v, n) = 1}) % 2 = 0
LogicFlags(fl, r, w) ==
  (fl \ {"SF", "ZF", "PF"}) \cup (IF Neg(r, w) THEN {"SF"} ELSE {})
    \cup (IF r = 0 THEN {"ZF"} ELSE {}) \cup (IF Parity(r) THEN {"PF"} ELSE {})

Nibble(a, b, r) == BitOf((a ^^ b) ^^ r, ByteBits \div 2) = 1
AddCarry(fl, a, b, r, c, w) ==
  Set(Set(Set(fl, "CF", c), "AF", Nibble(a, b, r)),
      "OF", Neg((a ^^ r) & (b ^^ r), Wider(w)))
SubBorrow(fl, a, b, r, c, w) ==
  Set(Set(Set(fl, "CF", c), "AF", Nibble(a, b, r)),
      "OF", Neg((a ^^ b) & (a ^^ r), Wider(w)))

-----------------------------------------------------------------------------
(* The eight operations of the ALU.                                         *)

CarryIn(fl) == IF "CF" \in fl THEN 1 ELSE 0
\* The carry is one off (operators named
\* Slip... are slips a change to the code could make).
SlipCarryOut(a, r, cin, total, w) == total > Mod(w)
CarryOut(a, r, cin, total, w) ==
  IF w = 8 THEN r < a \/ (cin = 1 /\ r = a) ELSE total >= Mod(w)

Plus(fl, a, b, cin, w) ==
  LET r == (a + b + cin) % Mod(w)
  IN Ans(r, AddCarry(LogicFlags(fl, r, w), a, b, r, CarryOut(a, r, cin, a + b + cin, w), w))
Minus(fl, a, b, cin, w) ==
  LET r == (a - b - cin) % Mod(w)
  IN Ans(r, SubBorrow(LogicFlags(fl, r, w), a, b, r, a < b + cin, w))
Logic(fl, r, w) == Ans(r, LogicFlags(fl, r, w) \ {"CF", "OF"})

AluOps == <<"Add", "Or", "Adc", "Sbb", "And", "Sub", "Xor", "Cmp">>
Alu(op, a, b, w, fl) ==
  CASE op = "Add"            -> Plus(fl, a, b, 0, w)
    [] op = "Adc"            -> Plus(fl, a, b, CarryIn(fl), w)
    [] op \in {"Sub", "Cmp"} -> Minus(fl, a, b, 0, w)
    [] op = "Sbb"            -> Minus(fl, a, b, CarryIn(fl), w)
    [] op = "And"            -> Logic(fl, a & b, w)
    [] op = "Or"             -> Logic(fl, a | b, w)
    [] op = "Xor"            -> Logic(fl, a ^^ b, w)

\* Incrementing keeps the carry, and sets the overflow at every width: where
\* the helper would miss it, in a byte and in the wide forms, by itself.
SlipKeepCarry(fl, old) == fl
KeepCarry(fl, old) == Set(fl, "CF", "CF" \in old)
Inc(v, w, fl) ==
  LET r == (v + 1) % Mod(w)
      c == AddCarry(LogicFlags(fl, r, w), v, 1, r, FALSE, w)
  IN Ans(r, KeepCarry(Set(c, "OF", v = Sign(w) - 1), fl))
Dec(v, w, fl) ==
  LET r == (v - 1) % Mod(w)
      c == SubBorrow(LogicFlags(fl, r, w), v, 1, r, FALSE, w)
  IN Ans(r, KeepCarry(Set(c, "OF", v = Sign(w)), fl))
Negate(v, w, fl) ==
  LET r == (-v) % Mod(w)
  IN Ans(r, Set(Set(Set(LogicFlags(fl, r, w), "CF", v # 0), "OF", v = Sign(w)), "AF", v # 0))

\* The conditions, as pairs of one and its opposite.
Conds == <<"O", "No", "B", "Nb", "E", "Ne", "Be", "Nbe",
           "S", "Ns", "P", "Np", "L", "Nl", "Le", "Nle">>
Less(fl) == ("SF" \in fl) # ("OF" \in fl)
Test(k, fl) ==
  LET on == CASE k \div 2 = 0 -> "OF" \in fl
              [] k \div 2 = 1 -> "CF" \in fl
              [] k \div 2 = 2 -> "ZF" \in fl
              [] k \div 2 = 3 -> "CF" \in fl \/ "ZF" \in fl
              [] k \div 2 = 4 -> "SF" \in fl
              [] k \div 2 = 5 -> "PF" \in fl
              [] k \div 2 = 6 -> Less(fl)
              [] k \div 2 = 7 -> "ZF" \in fl \/ Less(fl)
  IN IF k % 2 = 0 THEN on ELSE ~on

-----------------------------------------------------------------------------
(* Shifts and rotates.                                                      *)

Least(a, b)  == IF a <= b THEN a ELSE b
CountMask(w) == Bits(IF w = 8 THEN 8 ELSE 4) - 1
Left(v, n, w)  == IF n >= Bits(w) THEN 0 ELSE (v % 2 ^ (Bits(w) - n)) * 2 ^ n
Right(v, n)    == v \div 2 ^ n
Top(r, w)      == BitOf(r, Bits(w) - 1) = 1
Second(r, w)   == BitOf(r, Bits(w) - 2) = 1

Shifted(fl, r, cf, of, w) == Ans(r, Set(Set(LogicFlags(fl, r, w), "CF", cf), "OF", of))
Rotated(fl, r, cf, of)    == Ans(r, Set(Set(fl, "CF", cf), "OF", of))

Shl(v, n, w, fl) ==
  LET r  == Left(v, n, w)
      cf == n <= Bits(w) /\ BitOf(v, Bits(w) - Least(n, Bits(w))) = 1
  IN Shifted(fl, r, cf, n = 1 /\ Top(r, w) # cf, w)
Shr(v, n, w, fl) ==
  LET r == IF n >= Bits(w) THEN 0 ELSE Right(v, n)
  IN Shifted(fl, r, n <= Bits(w) /\ BitOf(v, n - 1) = 1, n = 1 /\ Top(v, w), w)
Sar(v, n, w, fl) ==
  LET s == Signed(v, w)
      r == (s \div 2 ^ Least(n, Bits(w) - 1)) % Mod(w)
  IN Shifted(fl, r, (s \div 2 ^ Least(n - 1, Bits(w) - 1)) % 2 = 1, FALSE, w)
Rol(v, n, w, fl) ==
  LET k  == n % Bits(w)
      r  == IF k = 0 THEN v ELSE Left(v, k, w) + Right(v, Bits(w) - k)
      cf == r % 2 = 1
  IN Rotated(fl, r, cf, n = 1 /\ Top(r, w) # cf)
Ror(v, n, w, fl) ==
  LET k == n % Bits(w)
      r == IF k = 0 THEN v ELSE Right(v, k) + Left(v, Bits(w) - k, w)
  IN Rotated(fl, r, Top(r, w), n = 1 /\ Top(r, w) # Second(r, w))

\* RCL and RCR turn the operand with the carry on top of it; what is wider
\* than eight bytes they turn one place at a time.
Turned(v, c, k, left) ==
  LET f[j \in 0..k] ==
        IF j = 0 THEN [r |-> v, c |-> c]
        ELSE LET p == f[j - 1]
             IN IF left THEN [r |-> Left(p.r, 1, 8) + p.c, c |-> BitOf(p.r, Bits(8) - 1)]
                ELSE [r |-> Right(p.r, 1) + p.c * Sign(8), c |-> p.r % 2]
  IN f[k]
Through(v, n, w, fl, left) ==
  LET bits == Bits(w) + 1
      k    == n % bits
      wide == v + CarryIn(fl) * Mod(w)
      full == 2 ^ bits
      rot  == IF k = 0 THEN wide
              ELSE IF left THEN ((wide * 2 ^ k) % full) + Right(wide, bits - k)
              ELSE Right(wide, k) + ((wide * 2 ^ (bits - k)) % full)
      t    == IF w = 8 THEN Turned(v, CarryIn(fl), k, left)
              ELSE [r |-> rot % Mod(w), c |-> rot \div Mod(w)]
  IN Rotated(fl, t.r, t.c = 1,
             n = 1 /\ Top(t.r, w) # (IF left THEN t.c = 1 ELSE Second(t.r, w)))

ShiftOps == <<"Rol", "Ror", "Rcl", "Rcr", "Shl", "Shr", "Sar", "Sar">>
Shift(op, v, count, w, fl) ==
  LET n == count % (CountMask(w) + 1)
  IN IF n = 0 THEN Ans(v, fl)
     ELSE CASE op = "Shl" -> Shl(v, n, w, fl)
            [] op = "Shr" -> Shr(v, n, w, fl)
            [] op = "Sar" -> Sar(v, n, w, fl)
            [] op = "Rol" -> Rol(v, n, w, fl)
            [] op = "Ror" -> Ror(v, n, w, fl)
            [] op = "Rcl" -> Through(v, n, w, fl, TRUE)
            [] op = "Rcr" -> Through(v, n, w, fl, FALSE)

\* The double shifts, for a count n that is not zero.  In two bytes the two
\* operands are shifted as one, for a count beyond the width.
Shld(d, s, n, w, fl) ==
  LET r  == IF w = 2 THEN Right(Left(d * Mod(2) + s, n, 4), Bits(2))
            ELSE Left(d, n, w) + Right(s, Bits(w) - n)
      cf == BitOf(d, Bits(w) - Least(n, Bits(w))) = 1
  IN Shifted(fl, r, cf, Top(d ^^ r, w), w)
Shrd(d, s, n, w, fl) ==
  LET r  == IF w = 2 THEN Right(s * Mod(2) + d, n) % Mod(2)
            ELSE Right(d, n) + Left(s, Bits(w) - n, w)
      cf == BitOf(d, Least(n - 1, Bits(w) - 1)) = 1
  IN Shifted(fl, r, cf, Top(d ^^ r, w), w)

-----------------------------------------------------------------------------
(* Multiplying and dividing.  A double word is a pair of hi and lo.          *)

\* By halves, for TLC's numbers are not wide enough for the product.
Times(a, b, w) ==
  LET h     == 2 ^ (Bits(w) \div 2)
      cross == (a \div h) * (b % h) + (a % h) * (b \div h)
      low   == (a % h) * (b % h) + (cross % h) * h
  IN [hi |-> (a \div h) * (b \div h) + cross \div h + low \div Mod(w), lo |-> low % Mod(w)]
BothSet(fl, on) == Set(Set(fl, "CF", on), "OF", on)

Mul(a, v, w, fl) ==
  LET p == Times(a, v, w) IN [hi |-> p.hi, lo |-> p.lo, fl |-> BothSet(fl, p.hi # 0)]
SignedTimes(a, v, w) ==
  LET p == Times(a, v, w)
  IN [hi |-> (p.hi - (IF Neg(a, w) THEN v ELSE 0) - (IF Neg(v, w) THEN a ELSE 0)) % Mod(w),
      lo |-> p.lo]
Fits(p, w) == p.hi = (IF Neg(p.lo, w) THEN Mod(w) - 1 ELSE 0)
\* In one and two bytes the high half is compared with the low half itself.
Imul(a, v, w, fl) ==
  LET p == SignedTimes(a, v, w)
  IN [hi |-> p.hi, lo |-> p.lo,
      fl |-> BothSet(fl, IF w <= 2 THEN p.hi # p.lo ELSE ~Fits(p, w))]
ImulStore(a, v, w, fl) ==
  LET p == SignedTimes(a, v, w)
  IN Ans(p.lo, LogicFlags(BothSet(fl, ~Fits(p, w)), p.lo, w))

\* The dividend is hi:lo, the divisor v is not zero.  Only the wide forms
\* look whether the quotient fits.
Towards0(a, v) ==
  LET q == (IF a < 0 THEN -a ELSE a) \div (IF v < 0 THEN -v ELSE v)
  IN IF (a < 0) = (v < 0) THEN q ELSE -q
Div(hi, lo, v, w) ==
  LET a == hi * Mod(w) + lo
      q == a \div v
  IN IF w > 2 /\ q >= Mod(w) THEN {} ELSE {[q |-> q % Mod(w), rem |-> a % v]}
Idiv(hi, lo, v, w) ==
  LET a == Signed(hi, w) * Mod(w) + lo
      d == Signed(v, w)
      q == Towards0(a, d)
  IN IF w > 2 /\ q # Signed(q, w) THEN {}
     ELSE {[q |-> q % Mod(w), rem |-> (a - q * d) % Mod(w)]}

-----------------------------------------------------------------------------
(* Bits and bytes.                                                          *)

ApplyBit(v, b, op) ==
  CASE op = "Test"  -> v
    [] op = "Set"   -> v | (2 ^ b)
    [] op = "Reset" -> v - BitOf(v, b) * 2 ^ b
    [] op = "Complement" -> v ^^ (2 ^ b)
Lowest(v)  == CHOOSE n \in 0..Bits(8) - 1 : BitOf(v, n) = 1 /\ v % 2 ^ n = 0
Highest(v) == CHOOSE n \in 0..Bits(8) - 1 : Right(v, n) = 1

Byte(v, n) == (v \div 2 ^ Bits(n)) % Mod(1)
Joined(b, w) ==
  LET f[n \in 0..w] == IF n = 0 THEN 0 ELSE f[n - 1] + b[n - 1] * 2 ^ Bits(n - 1) IN f[w]
Bswap(v, w) ==
  LET n == IF w = 8 THEN 8 ELSE 4
  IN Joined([k \in 0..n - 1 |-> Byte(v, n - 1 - k)], n)
=============================================================================
