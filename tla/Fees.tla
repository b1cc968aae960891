-------------------------------- MODULE Fees --------------------------------
(***************************************************************************)
(* The fee of a deposit or of a withdrawal: a rate and a flat part,        *)
(* computed in 128 bits and cut to 64 before it is subtracted from the     *)
(* amount.  The callers replace an error by two zeros and refuse a result  *)
(* with a zero in it, so an error is modelled by NoFee.                    *)
(***************************************************************************)
EXTENDS Integers

CONSTANTS
  Word             \* 2^64

ASSUME FeesAssumption == Word \in Nat \ {0}

NoFee == [fees |-> 0, after |-> 0]

(* What is left of an amount, if the fee can be subtracted from it. *)
Deducted(amount, fees) ==
  IF fees <= amount THEN [fees |-> fees, after |-> amount - fees] ELSE NoFee

(* Faulty: the product is cut before the division. *)
CutTooEarly(amount, flat, num, den) ==
  IF den = 0 THEN NoFee
  ELSE Deducted(amount, ((amount * num) % Word) \div den + flat)

(* calcuate_deposit_fee.  A product of two words fits into 128 bits, so    *)
(* only the last conversion loses anything.                                *)
CalculateDepositFee(amount, flat, num, den) ==
  IF den = 0 THEN NoFee
  ELSE Deducted(amount, ((amount * num) \div den + flat) % Word)

(* calcuate_withdrawal_fee *)
CalculateWithdrawalFee(amount, flat, num, den) ==
  IF den = 0 THEN NoFee
  ELSE Deducted(amount, ((amount * num) \div den + flat) % Word)

(* The result the callers accept. *)
FeeAccepted(f) == f.fees # 0 /\ f.after # 0
-----------------------------------------------------------------------------
(* The fee as one would state it, without widths: the rate rounded down    *)
(* and the flat part, if that leaves something of the amount.              *)
IsExactFee(f, amount, flat, num, den) ==
  /\ f.fees + f.after = amount
  /\ f.fees >= flat
  /\ (f.fees - flat) * den <= amount * num
  /\ amount * num < (f.fees - flat + 1) * den

(* Whatever is accepted is the exact fee, for a rate of at most one and    *)
(* amounts whose sum with the flat part is a word: the conversion to 64    *)
(* bits cannot turn an excessive fee into a small one.                     *)
FeeIsExact(amount, flat, num, den) ==
  num <= den /\ amount + flat < Word =>
    \A f \in {CalculateDepositFee(amount, flat, num, den),
              CalculateWithdrawalFee(amount, flat, num, den)} :
      FeeAccepted(f) => IsExactFee(f, amount, flat, num, den)

(* And an amount that can pay its exact fee is not refused. *)
FeeIsFound(amount, flat, num, den) ==
  \A fees \in 1..amount :
    LET f == [fees |-> fees, after |-> amount - fees] IN
    den > 0 /\ num <= den /\ amount + flat < Word
      /\ IsExactFee(f, amount, flat, num, den) =>
        /\ CalculateDepositFee(amount, flat, num, den) = f
        /\ CalculateWithdrawalFee(amount, flat, num, den) = f
=============================================================================
