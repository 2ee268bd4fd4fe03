------------------------------ MODULE MCSignIn ------------------------------
(***************************************************************************)
(* SignIn for TLC: who starts with TOTP enabled, and which requests and    *)
(* sign-in ids are interchangeable.                                        *)
(***************************************************************************)
EXTENDS SignIn, TLC

CONSTANTS u1, s1, s2, b1, b2

\* Nobody has TOTP.
PlainSecret == [u \in Users |-> None]
PlainCodes == [u \in Users |-> {}]

\* u1 has TOTP, with two backup codes.
MfaSecret == [u \in Users |-> IF u = u1 THEN s1 ELSE None]
MfaCodes == [u \in Users |-> IF u = u1 THEN {b1, b2} ELSE {}]

\* u1 has TOTP and one of them left.
MfaCode == [u \in Users |-> IF u = u1 THEN {b1} ELSE {}]

OneBatch == {{b1, b2}}
TwoBatches == {{b1}, {b2}}
NoBatch == {}

RequestSymmetry == Permutations(Requests)
Symmetry == Permutations(Requests) \cup Permutations(SigninIds)
UserSymmetry == Symmetry \cup Permutations(Users)
=============================================================================
