---------------------------- MODULE SessionFamilies ----------------------------
(***************************************************************************)
(* What TokenService promises about a family of refresh tokens, without    *)
(* requests, statements or transactions: a sign-in opens a family with one *)
(* live token, exchanging the live token is one step that retires it and   *)
(* hands out its only successor, and a revocation ends tokens for good.    *)
(***************************************************************************)
CONSTANTS Row, Family, NoFamily, Reason

VARIABLES
    status,  \* "absent", "live", "rotated" or the reason of a revocation
    family   \* the family of a token, once issued

vars == <<status, family>>

Init == /\ status = [s \in Row |-> "absent"]
        /\ family = [s \in Row |-> NoFamily]

\* A family nobody has used gets its first token.
Open(n, f) ==
    /\ status[n] = "absent"
    /\ \A s \in Row : family[s] # f
    /\ status' = [status EXCEPT ![n] = "live"]
    /\ family' = [family EXCEPT ![n] = f]

\* The live token s is exchanged for the new token n.
Exchange(s, n) ==
    /\ status[s] = "live" /\ status[n] = "absent"
    /\ status' = [status EXCEPT ![s] = "rotated", ![n] = "live"]
    /\ family' = [family EXCEPT ![n] = family[s]]

\* Tokens that are live or rotated are revoked for a reason.
Revoke(S, r) ==
    /\ \A s \in S : status[s] \in {"live", "rotated"}
    /\ status' = [s \in Row |-> IF s \in S THEN r ELSE status[s]]
    /\ UNCHANGED family

Next ==
    \/ \E n \in Row, f \in Family : Open(n, f)
    \/ \E s, n \in Row : Exchange(s, n)
    \/ \E S \in SUBSET Row, r \in Reason : Revoke(S, r)

Spec == Init /\ [][Next]_vars
=============================================================================
