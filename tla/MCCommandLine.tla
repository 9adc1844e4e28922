--------------------------- MODULE MCCommandLine ---------------------------
(***************************************************************************)
(* A forced and two unforced writers, each with a result of its own, the   *)
(* last too long for a replay, and a replay that expects the first.        *)
(***************************************************************************)
EXTENDS CommandLine, TLC

CONSTANTS w1, w2, w3, r1

ThreeWriters == {w1, w2, w3}
OneReader == {r1}
FirstForced == {w1}
ThreeResults == {"x", "y", "z"}
ResultOf == (w1 :> "x") @@ (w2 :> "y") @@ (w3 :> "z") @@ (r1 :> "x")

LastResult == {"z"}
=============================================================================
