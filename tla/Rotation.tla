------------------------------ MODULE Rotation ------------------------------
(***************************************************************************)
(* What refresh tokens promise of a session, whatever statements issue and *)
(* revoke them: a login opens it with a token of its own, named after it;  *)
(* a rotation replaces the token it uses by a fresh one in one step; and   *)
(* once no token is left it is over, for nothing else brings one back.     *)
(* Ending a session takes all its tokens, but for a session in doubt:      *)
(* there a rotation may go on beside the end, or beside another rotation.  *)
(***************************************************************************)
CONSTANT Tokens

VARIABLES
  valid,    \* of each session: the tokens it can still go on with
  used,     \* tokens ever issued
  ended,    \* sessions somebody ended
  doubtful  \* sessions about which less is promised

vars == <<valid, used, ended, doubtful>>

Init ==
  /\ valid = [s \in Tokens |-> {}]
  /\ used = {} /\ ended = {} /\ doubtful = {}

Open(s) ==
  /\ s \notin used /\ used' = used \cup {s}
  /\ valid' = [valid EXCEPT ![s] = {s}]
  /\ UNCHANGED <<ended, doubtful>>

Rotate(s, old, new) ==
  /\ new \notin used /\ used' = used \cup {new}
  /\ old \in valid[s]
  /\ \/ valid' = [valid EXCEPT ![s] = (valid[s] \ {old}) \cup {new}]
     \/ s \in doubtful /\ valid' = [valid EXCEPT ![s] = valid[s] \cup {new}]
  /\ UNCHANGED <<ended, doubtful>>

End(S) ==
  /\ UNCHANGED used
  /\ ended' = ended \cup S
  /\ doubtful \subseteq doubtful' /\ doubtful' \subseteq doubtful \cup S
  /\ \A s \in Tokens : valid'[s] =
       IF s \in S THEN IF s \in doubtful' THEN valid'[s] \cap valid[s] ELSE {}
                  ELSE valid[s]

Doubt(S) ==
  /\ UNCHANGED <<used, ended>>
  /\ doubtful' = doubtful \cup S
  /\ UNCHANGED valid

Next ==
  \/ \E S \in SUBSET used : Doubt(S) \/ End(S)
  \/ \E s \in Tokens : Open(s)
  \/ \E new, s, old \in Tokens : Rotate(s, old, new)

Spec == Init /\ [][Next]_vars
=============================================================================
