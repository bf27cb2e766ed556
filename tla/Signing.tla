------------------------------ MODULE Signing ------------------------------
(***************************************************************************)
(* The signing helper of lib/web3.ts and the contracts' check of what it   *)
(* produces.  sign(data, account) hashes data (soliditySha3), lets the     *)
(* node sign the hash (web3.eth.sign, a 65-byte r || s || v signature as   *)
(* 0x-prefixed hex) and rewrites the last byte: v := v + 27, formatted     *)
(* with toString(16).  The contracts recover the signer from the hash and  *)
(* the signature and accept it only for v in {27, 28} and 65 bytes.        *)
(*                                                                         *)
(* What the node returns for v depends on the node: ProviderBase is 0 for  *)
(* a node that returns the recovery id itself (the "wrong v value" the     *)
(* helper fixes), 27 for one that already returns 27 or 28.                *)
(***************************************************************************)
EXTENDS Naturals, Sequences, SequencesExt

CONSTANTS
    Accounts,       \* signing accounts (the participants)
    Data,           \* encoded payloads: states, authorizations
    ProviderBase    \* the node's v for recovery id 0

VARIABLES sigs      \* every signature sign() has returned

\* soliditySha3(...val): a collision-free digest of the payload.
Hash(d) == <<"keccak256", d>>

\* The hex digits of n as Number.prototype.toString(16) writes them: no
\* leading zeros, so a byte of 16 or more takes two digits and one of 256
\* or more three.
RECURSIVE ToHex(_)
ToHex(n) == IF n < 16 THEN <<n>> ELSE ToHex(n \div 16) \o <<n % 16>>

\* parseInt(digits, 16).
ParseHex(digits) == FoldLeft(LAMBDA acc, x : 16 * acc + x, 0, digits)

\* A byte as the node writes it inside the signature: two hex digits.
ByteHex(b) == <<b \div 16, b % 16>>

\* Mutant: the v value is passed through as the node returned it.
MutSignNoFix(data, account) ==
    \E parity \in {0, 1} :
        sigs' = sigs \cup {[signer |-> account, digest |-> Hash(data),
                             parity |-> parity,
                             v |-> ByteHex(ProviderBase + parity)]}

(* sign(data, account): the node signs soliditySha3(data); the helper     *)
(* cuts the two hex digits of v (slice(130, 132)) and appends             *)
(* (parseInt(v, 16) + 27).toString(16).  The recovery id (parity) is the  *)
(* signing curve's choice.                                                *)
Sign(data, account) ==
    \E parity \in {0, 1} :
        LET v == ParseHex(ByteHex(ProviderBase + parity))
        IN sigs' = sigs \cup {[signer |-> account, digest |-> Hash(data),
                                parity |-> parity, v |-> ToHex(v + 27)]}

(* ECDSA recovery in the contracts (spec 5, signature scheme): the hex    *)
(* must decode to 65 bytes, v must be 27 or 28, and v - 27 selects the    *)
(* key among the two candidates; the other candidate is an unrelated      *)
(* address ("nobody").                                                    *)
Recover(sig, digest) ==
    IF Len(sig.v) = 2 /\ ParseHex(sig.v) \in {27, 28} /\ digest = sig.digest
    THEN IF ParseHex(sig.v) - 27 = sig.parity THEN sig.signer ELSE "nobody"
    ELSE "invalid"

SigInit == sigs = {}

SigNext == \E d \in Data, a \in Accounts : Sign(d, a)

SigSpec == SigInit /\ [][SigNext]_sigs

-----------------------------------------------------------------------------
(* Every signature the helper produces is accepted by the contracts and   *)
(* recovers the account that signed (Adjudicator.register, progress,      *)
(* concludeFinal, AssetHolder.withdraw all rely on it).                   *)
SignaturesRecoverSigner ==
    \A s \in sigs : Recover(s, s.digest) = s.signer
=============================================================================
