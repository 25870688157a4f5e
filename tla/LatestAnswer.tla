---------------------------- MODULE LatestAnswer ----------------------------
(***************************************************************************)
(* What the launcher's workers promise whoever asks them something whose   *)
(* latest request alone matters: requests, and the cancellations that      *)
(* count as one, are numbered upwards; the worker serves them one at a     *)
(* time and in their order, each at most once; it may pass over a request  *)
(* or serve it without an answer, but answers none that was not made.      *)
(***************************************************************************)
EXTENDS Naturals

VARIABLES newest,   \* number of the latest request
          serving,  \* number of the request being served, 0 for none
          answered  \* number of the request answered last, 0 for none

Init == newest = 0 /\ serving = 0 /\ answered = 0

Ask ==
  /\ newest' \in Nat /\ newest' > newest
  /\ UNCHANGED <<serving, answered>>

Serve ==
  /\ serving = 0
  /\ serving' \in (answered + 1) .. newest
  /\ UNCHANGED <<newest, answered>>

Finish ==
  /\ serving # 0
  /\ serving' = 0
  /\ answered' \in {answered, serving}
  /\ UNCHANGED newest

Spec == Init /\ [][Ask \/ Serve \/ Finish]_<<newest, serving, answered>>
=============================================================================
