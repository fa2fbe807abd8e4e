----------------------------- MODULE MCSessions ----------------------------
(***************************************************************************)
(* Small instances of Sessions for TLC.                                    *)
(***************************************************************************)
EXTENDS Sessions, TLC

CONSTANTS a, b, s1, s2

OnlineAtFirst == {a}
Nobody == {}
AwayOrUnknown == {"away", "invisible"}
Interchangeable == Permutations(Sessions)
=============================================================================
