------------------------------ MODULE TokenVault ------------------------------
(***************************************************************************)
(* What the token store promises, without tables, rows or goroutines: one  *)
(* slot per user.  Only a fresh consent, brought in under that user, fills *)
(* an empty slot; a refreshed token can replace what a full slot holds, but *)
(* never fills an empty one; revoking empties the slot.  Who gave the      *)
(* consent at the provider is not the vault's concern.                     *)
(***************************************************************************)
CONSTANTS Users, Tokens, NULL

VARIABLES
  vault,    \* the token in each user's slot, NULL when it is empty
  filed,    \* the user under whom each issued token's consent was brought in
  origin    \* the consent each issued token descends from

vars == <<vault, filed, origin>>

Init ==
  /\ vault   = [u \in Users |-> NULL]
  /\ filed   = [t \in Tokens |-> NULL]
  /\ origin  = [t \in Tokens |-> NULL]

\* The provider issues t, a descendant of the consent g, on behalf of slot u.
Issue(t, u, g) ==
  /\ filed[t] = NULL
  /\ filed'  = [filed EXCEPT ![t] = u]
  /\ origin'  = [origin EXCEPT ![t] = g]
  /\ UNCHANGED vault

Consent(t, u) == Issue(t, u, t)

Extend(t, s) == filed[s] # NULL /\ Issue(t, filed[s], origin[s])

\* The slot of u receives a token that was filed under u.
Put(u, t) ==
  /\ filed[t] = u
  /\ vault' = [vault EXCEPT ![u] = t]
  /\ UNCHANGED <<filed, origin>>

Authorize(u, t) == origin[t] = t /\ Put(u, t)

Rotate(u, t) == vault[u] # NULL /\ origin[t] # t /\ Put(u, t)

Clear(u) ==
  /\ vault' = [vault EXCEPT ![u] = NULL]
  /\ UNCHANGED <<filed, origin>>

Next ==
  \/ \E t \in Tokens, u \in Users : Consent(t, u) \/ Authorize(u, t) \/ Rotate(u, t)
  \/ \E s, t \in Tokens : Extend(t, s)
  \/ \E u \in Users : Clear(u)

Spec == Init /\ [][Next]_vars
=============================================================================
