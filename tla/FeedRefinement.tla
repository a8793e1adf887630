---------------------------- MODULE FeedRefinement ----------------------------
(***************************************************************************)
(* Feed serving seen as FeedPromise: the pointer is the offer, the stored  *)
(* payloads are what sessions can read.                                    *)
(***************************************************************************)
EXTENDS FeedServing

Promise == INSTANCE FeedPromise WITH
  Feeds   <- FeedIds,
  current <- active,
  held    <- {f \in FeedIds : Readable(f)},
  spent   <- 1 .. nextFeed - 1

(***************************************************************************)
(* Seven unguarded commands behave like one atomic offer: with a single    *)
(* job slot, whatever fails or expires, every step of the system is a step *)
(* of the promise.                                                         *)
(***************************************************************************)
KeepsPromise == Promise!Spec

=============================================================================
