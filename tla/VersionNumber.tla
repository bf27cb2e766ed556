---------------------------- MODULE VersionNumber ----------------------------
(***************************************************************************)
(* State.incrementVersion of the test data model (test/Channel.ts:184-186): *)
(*     this.version = (Number(this.version) + 1).toString()                *)
(* The version is a uint64 held as a decimal string.  Number() rounds it   *)
(* to the nearest IEEE-754 double (53 significant bits, ties to even), the *)
(* addition rounds again, and toString prints the double's exact integer   *)
(* value (every integer double below 10^21 prints exactly).                *)
(*                                                                         *)
(* TLC's integers stop at 2^31, so a version is its binary expansion, a    *)
(* sequence of bits with the least significant first: the full 64-bit      *)
(* width is kept.                                                          *)
(***************************************************************************)
EXTENDS Naturals, Sequences, SequencesExt

CONSTANTS
    Exps,       \* exponents e of the enumerated versions 2^e + k and 2^e - 1
    Offsets     \* the small offsets k

\* The bits of a small natural.
RECURSIVE Bits(_)
Bits(k) == IF k = 0 THEN << >> ELSE <<k % 2>> \o Bits(k \div 2)

\* 2^e + k, for k < 2^e, and 2^e - 1.
Plus(e, k) == LET s == Bits(k) IN s \o [i \in 1..(e - Len(s)) |-> 0] \o <<1>>
AllOnes(e) == [i \in 1..e |-> 1]

\* The number of significant bits, and the expansion without leading zeros.
BitLen(b) == SelectLastInSeq(b, LAMBDA x : x = 1)
Norm(b) == SubSeq(b, 1, BitLen(b))

\* a < b as naturals: fewer bits, or the highest differing bit is lower.
LessBits(a, b) ==
    LET x == Norm(a)
        y == Norm(b)
    IN \/ Len(x) < Len(y)
       \/ /\ Len(x) = Len(y)
          /\ \E i \in DOMAIN x : x[i] < y[i] /\ \A j \in (i + 1)..Len(x) : x[j] = y[j]

\* Exact binary increment: the sum the addition rounds.
RECURSIVE Inc(_)
Inc(b) ==
    IF b = << >> THEN <<1>>
    ELSE IF Head(b) = 0 THEN <<1>> \o Tail(b) ELSE <<0>> \o Inc(Tail(b))

\* Round to the nearest natural with at most m significant bits, ties to
\* the even one: the bits below the kept ones decide, the highest of them
\* (half) and whether any lower one is set (sticky).
RoundTo(b, m) ==
    LET L    == BitLen(b)
        drop == L - m
    IN IF L <= m THEN Norm(b)
       ELSE LET kept   == SubSeq(b, drop + 1, L)
                half   == b[drop]
                sticky == \E i \in 1..(drop - 1) : b[i] = 1
                up     == half = 1 /\ (sticky \/ kept[1] = 1)
            IN [i \in 1..drop |-> 0] \o (IF up THEN Inc(kept) ELSE kept)

\* Mutant: the double keeps one significant bit fewer.
MutToNumber52(b) == RoundTo(b, 52)

\* Number(x) for an integer x, and the rounding of every double operation.
ToNumber(b) == RoundTo(b, 53)

\* incrementVersion: parse, add one, print.
IncrementVersion(v) == ToNumber(Inc(ToNumber(v)))

VARIABLE version    \* tx.state.version before incrementVersion

Versions == {Plus(e, k) : e \in Exps, k \in Offsets} \cup {AllOnes(e) : e \in Exps}

VersionInit == version \in Versions

\* One call per version: the enumerated version is the whole behaviour.
VersionNext == UNCHANGED version

VersionSpec == VersionInit /\ [][VersionNext]_version

-----------------------------------------------------------------------------
(* Every version below 2^53, which is every version the Adjudicator tests *)
(* build, becomes its successor: progress's check newVersion = version+1  *)
(* holds for the states incrementVersion prepares.                        *)
IncrementVersionExact ==
    LessBits(version, Plus(53, 0)) =>
        Norm(IncrementVersion(version)) = Norm(Inc(version))

(* incrementVersion makes the next version of any uint64 version, and the *)
(* result still encodes as a uint64.                                      *)
IncrementVersionIsSuccessor ==
    /\ Norm(IncrementVersion(version)) = Norm(Inc(version))
    /\ BitLen(IncrementVersion(version)) <= 64
=============================================================================
