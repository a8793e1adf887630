---------------------------- MODULE SerialProfile ----------------------------
(***************************************************************************)
(* What the profile promises as long as no two rebuilds overlap: a history *)
(* variable tells the behaviours in which two of the handlers and builds   *)
(* have each loaded the history and not yet replaced the stored profile.   *)
(***************************************************************************)
EXTENDS Profile

VARIABLE overlapped

serialVars == <<vars, overlapped>>

Rebuilding ==
  {q \in Requests : at[q] = "persist"} \cup {b \in Builders : build[b] = "persist"}

SerialInit == Init /\ overlapped = FALSE

SerialNext ==
  /\ Next
  /\ overlapped' = (overlapped \/ Cardinality(Rebuilding') > 1)

SerialSpec == SerialInit /\ [][SerialNext]_serialVars

(***************************************************************************)
(* Unless two rebuilds overlapped, the stored profile ends up counting     *)
(* every event on record (profile.ts: "the result is exactly               *)
(* reproducible").                                                         *)
(***************************************************************************)
SerialProfileCoversRows == ~overlapped => ProfileCoversRows

\* Unless two rebuilds overlapped, a user who left cold start stays out of it.
SerialStaysWarm == [][~overlapped' /\ Warm => Warm']_serialVars

=============================================================================
