-------------------------- MODULE MCProviderLimiter --------------------------
(* ProviderLimiter with a few requests and keys. *)
EXTENDS ProviderLimiter, TLC

CONSTANTS r1, r2, r3

MCRequests3 == {r1, r2, r3}

\* Requests are interchangeable.
AnyRequest == Permutations(Requests)
=============================================================================
