----------------------------- MODULE MCOtpService -----------------------------
(* Small instances of OtpService. *)
EXTENDS OtpService, TLC

\* Sessions, mobiles, networks and request slots are interchangeable.
Symmetric == Permutations(Session) \cup Permutations(Mobile) \cup Permutations(Ip)
             \cup Permutations(Proc)
=============================================================================
