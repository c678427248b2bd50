----------------------------- MODULE Collision -----------------------------
(***************************************************************************)
(* Registration tokens and the arbitration of two claims on one domain     *)
(* name (crates/binda-core/src/token.rs and collision.rs).                 *)
(*                                                                         *)
(* A token is the issuing time and an 8-byte random nonce.  Its ordering   *)
(* key is the 16 bytes issued_at || nonce, compared as one big-endian      *)
(* number, so a nonce is modelled by its rank among the nonces that occur; *)
(* the only other thing the code reads from it is the low bit of the xor   *)
(* of its bytes, NonceBit.                                                 *)
(***************************************************************************)
EXTENDS Naturals

CONSTANTS
    Nonces,     \* the nonces that occur, by their big-endian rank
    NonceBit    \* low bit of the xor of a nonce's eight bytes

ASSUME NoncesAssumption == Nonces \subseteq Nat
ASSUME NonceBitAssumption == NonceBit \in [Nonces -> {0, 1}]

\* RegistrationToken
Token == [issuedAt : Nat, nonce : Nonces]

\* a.raw_ordering_key() <= b.raw_ordering_key()
KeyLeq(a, b) ==
    \/ a.issuedAt < b.issuedAt
    \/ a.issuedAt = b.issuedAt /\ a.nonce <= b.nonce

\* WinCondition
WinCondition == {"HigherWins", "LowerWins"}

\* collision::resolve: a tie on the key goes to the first argument.
Resolve(condition, a, b) ==
    IF condition = "HigherWins"
    THEN IF KeyLeq(b, a) THEN a ELSE b
    ELSE IF KeyLeq(a, b) THEN a ELSE b

\* Mutant: the condition is derived from the first claim's nonce only, so it
\* depends on which claim a node happened to learn first.
MutantOneSidedCondition(a, b) ==
    IF (a.issuedAt + b.issuedAt + NonceBit[a.nonce]) % 2 = 0
    THEN "HigherWins" ELSE "LowerWins"

\* collision::mutually_derived_condition: the low bit of the xor of both
\* issuing times and of all sixteen nonce bytes.
MutuallyDerivedCondition(a, b) ==
    IF (a.issuedAt + b.issuedAt + NonceBit[a.nonce] + NonceBit[b.nonce]) % 2 = 0
    THEN "HigherWins" ELSE "LowerWins"

\* collision::negotiate_locally
NegotiateLocally(a, b) == Resolve(MutuallyDerivedCondition(a, b), a, b)
=============================================================================
