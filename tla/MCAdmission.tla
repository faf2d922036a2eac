----------------------------- MODULE MCAdmission -----------------------------
(***************************************************************************)
(* Admission on a 7-bit int64: 2^63 is 64, 1MiB is 4, 1GiB is 12 and 1TiB  *)
(* is 40.  SafeBytes are the values fixCapacity rounds without overflow;   *)
(* AllBytes adds the last MiB below 2^63.                                  *)
(***************************************************************************)
EXTENDS Admission, FiniteSets

AllCapabilities == [access: {"block", "mount", "none"}, mode: {"single", "multi"}]

UpToTwo == {caps \in SUBSET AllCapabilities : Cardinality(caps) <= 2}

SafeBytes == {-64, 0, 1, 11, 12, 13, 15, 16, 17, 33, 35, 36, 37, 38, 39, 40, 41, 60}

AllBytes == SafeBytes \cup {61, 62, 63}
=============================================================================
