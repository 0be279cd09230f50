------------------------------ MODULE Decimal ------------------------------
(***************************************************************************)
(* The fixed-point decimals of pkg/util and the conversions of money built *)
(* on them, with a total kept by a client of the package as state.  A      *)
(* decimal is value * 10^exp, the value an integer of any size, the        *)
(* exponent one of ExpBits bits (32 in the source).  The nil value of a    *)
(* decimal that nothing was assigned to is 0 with exponent 0, which the    *)
(* methods make of it first.  A text is its sign, the number before the    *)
(* point, the number after it and how many places that has.                *)
(***************************************************************************)
EXTENDS Integers, Sequences

SeqExt == INSTANCE SequencesExt

CONSTANTS ExpBits,
          DivisionPrecision,  \* places of a quotient, 16 in the source
          MantBits,           \* bits of a float's mantissa, 53 in the source
          MaxValue, Exps,     \* bounds: totals and operands have these values
          Operands,           \*   and exponents
          Places,             \* places asked for
          Floats              \* floats converted

VARIABLE total

Dec(value, exp) == [value |-> value, exp |-> exp]
Decimals == [value : Int, exp : Int]

FitsInt32(n) == n \in -(2 ^ (ExpBits - 1)) .. 2 ^ (ExpBits - 1) - 1
Int32(n) == ((n + 2 ^ (ExpBits - 1)) % (2 ^ ExpBits)) - 2 ^ (ExpBits - 1)

AbsInt(n) == IF n < 0 THEN -n ELSE n
Sign(n) == IF n < 0 THEN -1 ELSE IF n = 0 THEN 0 ELSE 1
Lower(x, y) == IF x >= y THEN y ELSE x

\* Quo and Rem of math/big truncate toward zero; \div and % round down.
Quo(a, b) == Sign(a) * Sign(b) * (AbsInt(a) \div AbsInt(b))
Rem(a, b) == a - b * Quo(a, b)

-----------------------------------------------------------------------------
(* Arithmetic *)

Rescale(d, exp) ==
  Dec(IF exp > d.exp THEN Quo(d.value, 10 ^ (exp - d.exp)) ELSE d.value * 10 ^ (d.exp - exp), exp)

Abs(d) == Dec(AbsInt(d.value), d.exp)
Neg(d) == Dec(-d.value, d.exp)

Add(d, d2) ==
  LET exp == Lower(d.exp, d2.exp) IN Dec(Rescale(d, exp).value + Rescale(d2, exp).value, exp)
Sub(d, d2) ==
  LET exp == Lower(d.exp, d2.exp) IN Dec(Rescale(d, exp).value - Rescale(d2, exp).value, exp)

\* Mul panics when the exponent does not fit; Shift lets it wrap around.
MulFits(d, d2) == FitsInt32(d.exp + d2.exp)
Mul(d, d2) == Dec(d.value * d2.value, d.exp + d2.exp)
Shift(d, n) == Dec(d.value, Int32(d.exp + n))

Cmp(d, d2) ==
  LET exp == Lower(d.exp, d2.exp) IN Sign(Rescale(d, exp).value - Rescale(d2, exp).value)
Equal(d, d2) == Cmp(d, d2) = 0
LessThan(d, d2) == Cmp(d, d2) = -1
GreaterThan(d, d2) == Cmp(d, d2) = 1

\* The quotient, a multiple of 10^-precision, and the remainder; d2 is not 0.  The
\* exponent e is computed in 32 bits, before the check that it fits in them.
QuoRem(d, d2, precision) ==
  LET scale == Int32(-precision)
      e == Int32(d.exp - d2.exp - scale)
      aa == IF e < 0 THEN d.value ELSE d.value * 10 ^ e
      bb == IF e < 0 THEN d2.value * 10 ^ (-e) ELSE d2.value
  IN  <<Dec(Quo(aa, bb), scale),
        Dec(Rem(aa, bb), IF e < 0 THEN d.exp ELSE Int32(scale + d2.exp))>>

\* One unit of the last place is added, away from zero, when twice the remainder
\* is at least the divisor.
DivRound(d, d2, precision) ==
  LET qr == QuoRem(d, d2, precision)
      rv2 == Dec(2 * AbsInt(qr[2].value), Int32(qr[2].exp + precision))
      ulp == Dec(1, Int32(-precision))
  IN  IF Cmp(rv2, Abs(d2)) < 0 THEN qr[1]
      ELSE IF Sign(d.value) * Sign(d2.value) < 0 THEN Sub(qr[1], ulp) ELSE Add(qr[1], ulp)

Div(d, d2) == DivRound(d, d2, DivisionPrecision)

IntPart(d) == Rescale(d, 0).value
Truncate(d, precision) ==
  IF precision >= 0 /\ -precision > d.exp THEN Rescale(d, -precision) ELSE d

\* Wrong by one divisor when Div rounds up to an integer.
Mod(d, d2) == Sub(d, Mul(d2, Truncate(Div(d, d2), 0)))

\* The exponent is halved by a division, so it has the places of a quotient from then on.
Pow(d, d2) ==
  LET pow[n \in [value : Int, exp : {d2.exp, Int32(-DivisionPrecision)}]] ==
        IF IntPart(n) = 0 THEN Dec(1, 0)
        ELSE LET temp == pow[Div(n, Dec(2, 0))]
                 square == Mul(temp, temp)
             IN  IF IntPart(n) % 2 = 0 THEN square
                 ELSE IF IntPart(n) > 0 THEN Mul(square, d) ELSE Div(square, d)
  IN  pow[d2]

Min(first, rest) == SeqExt!FoldLeft(LAMBDA ans, d : IF Cmp(d, ans) < 0 THEN d ELSE ans, first, rest)
Max(first, rest) == SeqExt!FoldLeft(LAMBDA ans, d : IF Cmp(d, ans) > 0 THEN d ELSE ans, first, rest)
Sum(first, rest) == SeqExt!FoldLeft(Add, first, rest)
Avg(first, rest) == Div(Sum(first, rest), Dec(Len(rest) + 1, 0))

-----------------------------------------------------------------------------
(* Rounding to a number of places *)

\* Truncated to one place more, then five of those are added away from zero, and
\* what is left of them is dropped.  The variant forgets the sign.
RoundUp(d, places) == Dec((Rescale(d, Int32(-places - 1)).value + 5) \div 10, Int32(-places))
Round(d, places) ==
  LET t == Rescale(d, Int32(-places - 1)).value
      five == IF t < 0 THEN t - 5 ELSE t + 5
      q == five \div 10
  IN  Dec(IF q < 0 /\ five % 10 # 0 THEN q + 1 ELSE q, Int32(-places))

\* Ties go to the even neighbour, which is one step back from where Round went.
RoundBank(d, places) ==
  LET round == Round(d, places)
      tie == Equal(Abs(Sub(d, round)), Dec(5, Int32(-places - 1)))
  IN  IF tie /\ round.value % 2 # 0
      THEN [round EXCEPT !.value = IF @ < 0 THEN @ + 1 ELSE @ - 1] ELSE round

\* The source's 10^n is an exclusive or, not a power.
XorTen(n) == n + 10 - 2 * (2 * ((n \div 2) % 2) + 8 * ((n \div 8) % 2))

CashUnits == [i \in {5, 10, 15, 25, 50, 100} |->
                CASE i = 5 -> 20 [] i \in {10, 15} -> 10 [] i = 25 -> 4 [] i = 50 -> 2 [] i = 100 -> 1]

\* The variant cuts off where the code rounds.
RoundCashDown(d, interval) ==
  LET units == Dec(CashUnits[interval], 0)
  IN  Truncate(Div(Truncate(Mul(d, units), 0), units), 2)

\* An interval that is none of these panics.  With 15 an amount that ends in a 5 is
\* lowered first, by an amount that is meant to be a unit.
RoundCash(d, interval) ==
  LET lowered == /\ interval = 15 /\ d.exp < 0
                 /\ Equal(Mod(Dec(d.value, 0), Dec(5, 0)), Dec(0, 1))
      from == IF lowered THEN Sub(d, Dec(XorTen(-d.exp), d.exp)) ELSE d
      units == Dec(CashUnits[interval], 0)
  IN  Truncate(Div(Round(Mul(from, units), 0), units), 2)

\* Div and DivMod of math/big round down here, as \div and % do.
Floor(d) == IF d.exp >= 0 THEN d ELSE Dec(d.value \div 10 ^ (-d.exp), 0)
Ceil(d) ==
  IF d.exp >= 0 THEN d
  ELSE LET ten == 10 ^ (-d.exp)
       IN  Dec(d.value \div ten + (IF d.value % ten = 0 THEN 0 ELSE 1), 0)

-----------------------------------------------------------------------------
(* Texts, encodings and floats *)

\* The zeros at the end of the digits after the point are dropped.
TrimZeros(frac, places) ==
  LET kept == CHOOSE k \in 0 .. places :
                /\ frac % (10 ^ (places - k)) = 0
                /\ \A j \in 0 .. k - 1 : frac % (10 ^ (places - j)) # 0
  IN  <<frac \div 10 ^ (places - kept), kept>>

string(d, trimTrailingZeros) ==
  LET places == IF d.exp >= 0 THEN 0 ELSE -d.exp
      abs == IF d.exp >= 0 THEN AbsInt(Rescale(d, 0).value) ELSE AbsInt(d.value)
      frac == abs % (10 ^ places)
      part == IF trimTrailingZeros THEN TrimZeros(frac, places) ELSE <<frac, places>>
  IN  [neg |-> d.value < 0, whole |-> abs \div 10 ^ places, frac |-> part[1], places |-> part[2]]

String(d) == string(d, TRUE)
StringFixed(d, places) == string(Round(d, places), FALSE)
StringFixedBank(d, places) == string(RoundBank(d, places), FALSE)
StringFixedCash(d, interval) == string(RoundCash(d, interval), FALSE)

\* A text with an exponent behind its "e"; an exponent that does not fit in the end
\* is an error.
ParsedExp(t, e) == e - TrimZeros(t.frac, t.places)[2]
NewFromString(t, e) ==
  LET part == TrimZeros(t.frac, t.places)
      abs == t.whole * 10 ^ part[2] + part[1]
  IN  Dec(IF t.neg THEN -abs ELSE abs, ParsedExp(t, e))

Null == [null |-> TRUE]

\* JSON: the text, in quotes or not; quotes are taken off when it is read.
MarshalJSON(d, withoutQuotes) == [quoted |-> ~withoutQuotes, text |-> String(d)]
UnmarshalJSON(d, json) == IF json = Null THEN d ELSE NewFromString(json.text, 0)

\* Binary, and gob: the exponent without its sign in ExpBits bits, and the value.
\* The variant reads the exponent as a number without a sign.
MarshalBinary(d) == <<d.exp % (2 ^ ExpBits), d.value>>
UnmarshalBinaryUnsigned(data) == Dec(data[2], data[1])
UnmarshalBinary(data) == Dec(data[2], Int32(data[1]))

\* A finite float is mant * 2^exp2, with an odd mantissa once it is normalized.
Float(neg, mant, exp2) == [neg |-> neg, mant |-> mant, exp2 |-> exp2]

\* The decimal with exponent exp nearest to a float; exp is raised to the smallest
\* one that still gives the float exactly.
NewFromFloatWithExponent(f, asked) ==
  LET exp == IF asked < 0 /\ asked < f.exp2 THEN (IF f.exp2 < 0 THEN f.exp2 ELSE 0) ELSE asked
      exp2 == f.exp2 - exp
      temp == (IF exp > 0 THEN 5 ^ exp ELSE 1) * (IF exp2 < 0 THEN 2 ^ (-exp2) ELSE 1)
      dMant == f.mant * (IF exp < 0 THEN 5 ^ (-exp) ELSE 1) * (IF exp2 > 0 THEN 2 ^ exp2 ELSE 1)
      q == IF exp > 0 \/ exp2 < 0 THEN (dMant + temp \div 2) \div temp ELSE dMant
  IN  IF f.mant = 0 THEN Dec(0, 0) ELSE Dec(IF f.neg THEN -q ELSE q, exp)
NewFromFloat(f) == NewFromFloatWithExponent(f, -(2 ^ (ExpBits - 1)))

\* A column of a database holds a text, or what the driver made of it: a float or an
\* integer.  The float's decimal is exact.
Value(d) == [type |-> "text", text |-> String(d)]
Scan(v) == CASE v.type = "text" -> NewFromString(v.text, 0)
             [] v.type = "int64" -> Dec(v.int, 0)
             [] v.type = "float64" -> NewFromFloat(v.float)

\* A column that may be null keeps its last decimal, not valid, when it reads one.
NullDecimalUnmarshalJSON(n, json) ==
  [Decimal |-> UnmarshalJSON(n.Decimal, json), Valid |-> json # Null]
NullDecimalMarshalJSON(n, withoutQuotes) ==
  IF n.Valid THEN MarshalJSON(n.Decimal, withoutQuotes) ELSE Null
NullDecimalScan(n, v) ==
  IF v = Null THEN [n EXCEPT !.Valid = FALSE] ELSE [Decimal |-> Scan(v), Valid |-> TRUE]
NullDecimalValue(n) == IF n.Valid THEN Value(n.Decimal) ELSE Null

\* Rat and Float64: num/den rounded to a mantissa of MantBits bits, ties to even.
NearestEven(num, den) ==
  LET q == num \div den
      r == num % den
  IN  IF 2 * r > den \/ (2 * r = den /\ q % 2 = 1) THEN q + 1 ELSE q
Float64(d) ==
  LET num == AbsInt(d.value) * (IF d.exp > 0 THEN 10 ^ d.exp ELSE 1)
      den == IF d.exp < 0 THEN 10 ^ (-d.exp) ELSE 1
      Scaled(x) == IF x < 0 THEN NearestEven(num * 2 ^ (-x), den) ELSE NearestEven(num, den * 2 ^ x)
      exp2 == CHOOSE x \in -(MantBits + 8) .. MantBits :
                Scaled(x) \in 2 ^ (MantBits - 1) .. 2 ^ MantBits - 1
  IN  IF num = 0 THEN Float(FALSE, 0, 0) ELSE Float(d.value < 0, Scaled(exp2), exp2)

\* Printf's %0.2f: the exact value of the float, rounded to two places.
Printed2(f) ==
  LET cents == IF f.exp2 < 0 THEN NearestEven(100 * f.mant, 2 ^ (-f.exp2))
                              ELSE 100 * f.mant * 2 ^ f.exp2
  IN  [neg |-> f.neg, whole |-> cents \div 100, frac |-> cents % 100, places |-> 2]

YuanToCent(yuan) == IntPart(Mul(NewFromString(Printed2(yuan), 0), Dec(100, 0)))
CentToYuan(cent) == Float64(Round(Div(Dec(cent, 0), Dec(100, 0)), 2))

-----------------------------------------------------------------------------
(* A total, taken through the package's operations as long as it stays in  *)
(* bounds.                                                                 *)

InBounds(d) == d \in [value : -MaxValue .. MaxValue, exp : Exps]
Become(d) == InBounds(d) /\ total' = d

Init == total = Dec(0, 0)

AddSome == \E x \in Operands : Become(Add(total, x)) \/ Become(Sub(total, x))
MulSome == \E x \in Operands : MulFits(total, x) /\ Become(Mul(total, x))
DivSome == \E x \in Operands : x.value # 0 /\ (Become(Div(total, x)) \/ Become(Mod(total, x)))
RaiseSome == \E n \in 0 .. 3 : Become(Pow(total, Dec(n, 0)))
ShiftSome == \E p \in Places : Become(Shift(total, p))
TurnSign == Become(Neg(total)) \/ Become(Abs(total))
AverageSome == \E x, y \in Operands :
  Become(Avg(total, <<x, y>>)) \/ Become(Min(total, <<x, y>>)) \/ Become(Max(total, <<x, y>>))
RoundSome == \E p \in Places : \/ Become(Round(total, p)) \/ Become(RoundBank(total, p))
                               \/ Become(Truncate(total, p))
RoundCashSome == \E i \in DOMAIN CashUnits : Become(RoundCash(total, i))
RoundWhole == Become(Floor(total)) \/ Become(Ceil(total))
Store == \/ Become(UnmarshalBinary(MarshalBinary(total)))
         \/ Become(UnmarshalJSON(Dec(0, 0), MarshalJSON(total, FALSE)))
         \/ Become(Scan([type |-> "int64", int |-> IntPart(total)]))
Read == \E f \in Floats :
  \/ \E p \in Exps : Become(NewFromFloatWithExponent(f, p))
  \/ Become(Scan([type |-> "float64", float |-> f]))

Next == \/ AddSome \/ MulSome \/ DivSome \/ RaiseSome \/ ShiftSome \/ TurnSign \/ AverageSome
        \/ RoundSome \/ RoundCashSome \/ RoundWhole \/ Store \/ Read

Spec == Init /\ [][Next]_total

-----------------------------------------------------------------------------
(* Properties: laws of every total, stated with integers at an exponent    *)
(* that is fine enough for both sides.                                     *)

TypeOK == total \in Decimals /\ InBounds(total)

At(d, exp) == d.value * 10 ^ (d.exp - exp)

\* r is one of the multiples of unit nearest to n.
Nearest(r, n, unit) == r % unit = 0 /\ 2 * AbsInt(r - n) <= unit
Tie(r, n, unit) == 2 * AbsInt(r - n) = unit

RoundingIsNearest(d, p) ==
  LET exp == Lower(d.exp, -p) - 1
      n == At(d, exp)
      unit == 10 ^ (-p - exp)
      round == At(Round(d, p), exp)
      bank == At(RoundBank(d, p), exp)
  IN  /\ Nearest(round, n, unit) /\ (Tie(round, n, unit) => AbsInt(round) > AbsInt(n))
      /\ Nearest(bank, n, unit) /\ (Tie(bank, n, unit) => (bank \div unit) % 2 = 0)

WholeIsNext(d) ==
  LET exp == Lower(d.exp, 0)
      n == At(d, exp)
      unit == 10 ^ (-exp)
  IN  /\ At(Floor(d), exp) <= n /\ n < At(Floor(d), exp) + unit
      /\ At(Ceil(d), exp) >= n /\ n > At(Ceil(d), exp) - unit
      /\ At(Truncate(d, 0), exp) = (IF n < 0 THEN At(Ceil(d), exp) ELSE At(Floor(d), exp))

\* Interval 15 is left out: RoundCash(3.5, 15) is 2.4.
CashIsNearest(d) ==
  LET exp == Lower(d.exp, -2)
  IN  \A i \in DOMAIN CashUnits \ {15} :
        Nearest(At(RoundCash(d, i), exp), At(d, exp), 10 ^ (-exp) \div CashUnits[i])

\* QuoRem as its comment has it, and DivRound to the nearest multiple, ties away
\* from zero.
DivisionIsNearest(d, d2, p) ==
  LET qr == QuoRem(d, d2, p)
      exp == Lower(Lower(d.exp, d2.exp - p), qr[2].exp)
      n == At(d, exp)
      r == At(qr[2], exp)
      unit == AbsInt(d2.value) * 10 ^ (d2.exp - p - exp)
      Times(q) == d2.value * q.value * 10 ^ (d2.exp - p - exp)
      rounded == Times(DivRound(d, d2, p))
  IN  /\ n = Times(qr[1]) + r /\ AbsInt(r) < unit /\ Sign(r) \in {0, Sign(n)}
      /\ qr[1].exp = -p /\ DivRound(d, d2, p).exp = -p
      /\ Nearest(rounded, n, unit) /\ (Tie(rounded, n, unit) => AbsInt(rounded) > AbsInt(n))

\* Rounding a number to places, to an integer, or a quotient to places gives a neighbour
\* on that grid, the nearest one where the comments say so, and breaks ties as they say.
RoundedIsNearest ==
  /\ \A p \in Places : RoundingIsNearest(total, p)
  /\ WholeIsNext(total)
  /\ \A x \in Operands, p \in Places : x.value # 0 => DivisionIsNearest(total, x, p)

\* Rounding to a cash unit gives the nearest one, and a power is the product it stands
\* for.
CashAndPowers ==
  /\ CashIsNearest(total)
  /\ Equal(Pow(total, Dec(3, 0)), Mul(Mul(total, total), total))

\* Two decimals have one text exactly if they are the same number, whatever their
\* exponents.
TextIsCanonical(d) ==
  /\ \A x \in Operands : String(d) = String(x) <=> ~LessThan(d, x) /\ ~GreaterThan(d, x)
  /\ \A p \in {q \in Places : q >= 0} : StringFixed(d, p).places = p

Survives(d) ==
  /\ \A b \in BOOLEAN : Equal(UnmarshalJSON(Dec(0, 0), MarshalJSON(d, b)), d)
  /\ UnmarshalBinary(MarshalBinary(d)) = d
  /\ \A valid \in BOOLEAN, b \in BOOLEAN :
       LET column == [Decimal |-> d, Valid |-> valid]
       IN  /\ NullDecimalMarshalJSON(NullDecimalUnmarshalJSON(column, NullDecimalMarshalJSON(column, b)), b)
                = NullDecimalMarshalJSON(column, b)
           /\ NullDecimalValue(NullDecimalScan(column, NullDecimalValue(column)))
                = NullDecimalValue(column)
  /\ Equal(Scan(Value(d)), d)

FloatIsNearest(f, p) ==
  LET d == NewFromFloatWithExponent(f, p)
      n == IF d.exp < 0 THEN f.mant * 10 ^ (-d.exp) ELSE f.mant
      unit == (IF d.exp > 0 THEN 10 ^ d.exp ELSE 1) * (IF f.exp2 < 0 THEN 2 ^ (-f.exp2) ELSE 1)
      scaled == n * (IF f.exp2 > 0 THEN 2 ^ f.exp2 ELSE 1)
  IN  Nearest(AbsInt(d.value) * unit, scaled, unit) /\ (d.value < 0 => f.neg)

\* What is written comes back as the same number: a decimal as text, JSON, binary or
\* a column that may be null, a float up to the places asked for, and an amount of
\* cents through the float of yuan that stands for it.
WrittenIsRead ==
  /\ TextIsCanonical(total) /\ Survives(total)
  /\ \A f \in Floats : FloatIsNearest(f, total.exp)
  /\ YuanToCent(CentToYuan(total.value)) = total.value
=============================================================================
