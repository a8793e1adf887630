------------------------------ MODULE MCDemoPage ------------------------------
(***************************************************************************)
(* Two users, two flows at once, generations of two pages.                 *)
(***************************************************************************)
EXTENDS DemoPage
=============================================================================
