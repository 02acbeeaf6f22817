---------------------------- MODULE MCPublicProfile ----------------------------
(* One business for TLC: see MCPublicProfile.cfg.  Values, requests and     *)
(* visitors are interchangeable.                                            *)
EXTENDS PublicProfile, TLC

Interchangeable ==
    Permutations(Values) \cup Permutations(Requests) \cup Permutations(Visitors)

=============================================================================
