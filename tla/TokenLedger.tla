---------------------------- MODULE TokenLedger ----------------------------
(***************************************************************************)
(* What the refresh-token tables promise, with every request atomic: a     *)
(* token is issued active, a rotation retires it in favour of exactly one  *)
(* new active token of its owner, a revocation retires tokens of one owner *)
(* for good.                                                               *)
(*                                                                         *)
(* With Overlap, requests on the same token may overlap: a refresh that    *)
(* found the token active may rotate it after another request has already  *)
(* rotated or revoked it.                                                  *)
(***************************************************************************)

CONSTANTS User, Token, NoToken, NoUser,
          Overlap     \* do requests on one token overlap?

VARIABLES status,     \* "unborn", "active", "rotated" or "revoked"
          owner,      \* the user of each token
          successor   \* the token each rotated token was last replaced by

ledger == <<status, owner, successor>>

Init ==
    /\ status = [t \in Token |-> "unborn"]
    /\ owner = [t \in Token |-> NoUser]
    /\ successor = [t \in Token |-> NoToken]

Issue(u, n) ==
    /\ status[n] = "unborn"
    /\ status' = [status EXCEPT ![n] = "active"]
    /\ owner' = [owner EXCEPT ![n] = u]
    /\ UNCHANGED successor

Rotate(t, n) ==
    /\ status[t] = "active" \/ (Overlap /\ status[t] # "unborn")
    /\ status[n] = "unborn"
    /\ status' = [status EXCEPT ![t] = "rotated", ![n] = "active"]
    /\ owner' = [owner EXCEPT ![n] = owner[t]]
    /\ successor' = [successor EXCEPT ![t] = n]

\* Retires the active tokens of S, all of one user; the others stay as they are.
Revoke(u, S) ==
    /\ \A t \in S : status[t] = "active" /\ owner[t] = u
    /\ status' = [t \in Token |-> IF t \in S THEN "revoked" ELSE status[t]]
    /\ UNCHANGED <<owner, successor>>

Next ==
    \/ \E u \in User, n \in Token : Issue(u, n)
    \/ \E t, n \in Token : Rotate(t, n)
    \/ \E u \in User, S \in SUBSET Token : Revoke(u, S)

Spec == Init /\ [][Next]_ledger

=============================================================================
