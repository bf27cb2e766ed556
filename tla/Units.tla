------------------------------- MODULE Units -------------------------------
(***************************************************************************)
(* The unit helpers of lib/web3.ts, which the assertions print amounts    *)
(* with.  ether(x) is toWei(toBN(x), "ether"); wei2eth(x) is               *)
(* toBN(fromWei(x, "ether")): fromWei writes the amount as a decimal       *)
(* string, "<whole>" or "<whole>.<fraction>" with the fraction's trailing  *)
(* zeros cut, and toBN parses it back, throwing on anything that is not a  *)
(* string of decimal digits.  assertHoldings (test/AssetHolder.ts:27-30)   *)
(* builds its failure message with wei2eth of both amounts before it       *)
(* compares them, so it throws on a fractional amount whatever it holds.   *)
(*                                                                         *)
(* Strings are sequences of characters: a digit is its value, the decimal  *)
(* point is Point.  Decimals is 18 in the code; the conversions do not     *)
(* depend on it beyond the number of fraction digits, and TLC's integers   *)
(* do not reach 10^18, so a model fixes a smaller one.                     *)
(***************************************************************************)
EXTENDS Integers, Sequences, SequencesExt

CONSTANTS
    Decimals,   \* digits of the ether unit ("ether" = 10^18 wei)
    MaxWei      \* bound on the amounts enumerated

Unit == 10 ^ Decimals

\* A character that is not a decimal digit: the decimal point.
Point == 10

\* toBN's result for a string that is not a number: it throws.  (Every
\* amount here is non-negative, so -1 is no value wei2eth returns.)
Throws == -1

\* BN.toString(10): the decimal digits of n, no leading zeros.
RECURSIVE Digits(_)
Digits(n) == IF n < 10 THEN <<n>> ELSE Digits(n \div 10) \o <<n % 10>>

\* fromWei(x, "ether"): the fraction is left-padded to Decimals digits,
\* then cut after its last non-zero digit (regex ^([0-9]*[1-9]|0)(0*)),
\* and left out when it is "0".
FromWei(x) ==
    LET frac   == Digits(x % Unit)
        padded == [i \in 1..(Decimals - Len(frac)) |-> 0] \o frac
        last   == SelectLastInSeq(padded, LAMBDA d : d # 0)
    IN IF last = 0 THEN Digits(x \div Unit)
       ELSE Digits(x \div Unit) \o <<Point>> \o SubSeq(padded, 1, last)

\* toBN(string) (number-to-bn): a string of decimal digits is parsed in
\* base 10; one with a decimal point matches neither the decimal nor the
\* hex pattern and throws.
ToBN(str) ==
    IF \A i \in DOMAIN str : str[i] < 10
    THEN FoldLeft(LAMBDA acc, d : 10 * acc + d, 0, str)
    ELSE Throws

\* ether(x).
Ether(x) == x * Unit

\* Mutant: wei2eth truncates to whole ether instead of parsing fromWei.
MutWei2EthFloor(x) == x \div Unit

\* wei2eth(x).
Wei2Eth(x) == ToBN(FromWei(x))

VARIABLE amount      \* the amount wei2eth converts

UnitsInit == amount \in 0..MaxWei

-----------------------------------------------------------------------------
(* wei2eth returns the ether amount of every whole-ether value, ether and *)
(* wei2eth are inverse there, and it throws on every other value: the    *)
(* decimal string fromWei writes for a fraction is not a number to toBN. *)
Wei2EthMatchesReference ==
    /\ Wei2Eth(amount) = IF amount % Unit = 0 THEN amount \div Unit ELSE Throws
    /\ amount % Unit = 0 => Ether(Wei2Eth(amount)) = amount
=============================================================================
