----------------------------- MODULE FeedPromise -----------------------------
(***************************************************************************)
(* What the feed cache promises its readers, without keys, queues or       *)
(* worker slots.  Generations are offered to new sessions one at a time;   *)
(* a session that started on one keeps reading it until it is dropped, and *)
(* a dropped generation never comes back.                                  *)
(***************************************************************************)
EXTENDS Integers

CONSTANTS Feeds, None

VARIABLES
  epoch,    \* counts the changes of the user's state
  current,  \* the generation a new session starts on, or None
  held,     \* the generations a session can read
  spent     \* every generation there has ever been

promiseVars == <<epoch, current, held, spent>>

Init ==
  /\ epoch = 0
  /\ current = None
  /\ held = {}
  /\ spent = {}

\* The user's state changes: nothing older is offered until it is offered anew.
Change ==
  /\ epoch' = epoch + 1
  /\ current' = None
  /\ UNCHANGED <<held, spent>>

\* A generation becomes readable, once.
Add(f) ==
  /\ f \notin spent
  /\ held' = held \cup {f}
  /\ spent' = spent \cup {f}
  /\ UNCHANGED <<epoch, current>>

\* Only a readable generation is offered, and only the newest there is.
Offer(f) ==
  /\ f \in held
  /\ \A g \in spent : g <= f
  /\ current' = f
  /\ UNCHANGED <<epoch, held, spent>>

Withdraw ==
  /\ current' = None
  /\ UNCHANGED <<epoch, held, spent>>

\* Old generations go, never the one on offer.
Drop(F) ==
  /\ current \notin F
  /\ held' = held \ F
  /\ UNCHANGED <<epoch, current, spent>>

Next ==
  \/ Change
  \/ Withdraw
  \/ \E f \in Feeds : Add(f) \/ Offer(f)
  \/ \E F \in SUBSET held : Drop(F)

Spec == Init /\ [][Next]_promiseVars

=============================================================================
