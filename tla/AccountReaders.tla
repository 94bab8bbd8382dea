---------------------------- MODULE AccountReaders ----------------------------
(***************************************************************************)
(* Which contents of an oracle account each reader of the SDK accepts: its *)
(* length, and whether it begins with the discriminator of its type.  The  *)
(* errors are not told apart, nor is the alignment: the buffers of the     *)
(* client and of the runtime start at multiples of 8, and that is all      *)
(* OracleAccountData asks for.                                             *)
(***************************************************************************)
EXTENDS Integers

CONSTANTS
    NoAccount,  \* the answer for a key without an account
    OracleSize  \* size_of::<OracleAccountData>()

Header == 8

Discriminated(d) == d.len >= Header /\ d.discriminator

\* What follows the type's bytes is cut off.
new_from_bytes(d) == Discriminated(d) /\ d.len >= Header + OracleSize

\* bytemuck::try_from_bytes takes a slice of the type's size and no other.
CastsExactly(d) == d.len - Header = OracleSize

\* The three of them differ in the client; here nothing is cut off.
fetch_zerocopy_account_async(a) == a # NoAccount /\ Discriminated(a) /\ CastsExactly(a)
fetch_zerocopy_account(a) == a # NoAccount /\ Discriminated(a) /\ CastsExactly(a)
fetch_zerocopy_account_sync(a) == a # NoAccount /\ Discriminated(a) /\ CastsExactly(a)

try_deserialize_unchecked(d) == CastsExactly(d)
try_deserialize(d) == Discriminated(d) /\ try_deserialize_unchecked(d)

\* fetch_borsh_account, with any of the three clients.
fetch_borsh_account(a) == a # NoAccount /\ try_deserialize(a)
===============================================================================
