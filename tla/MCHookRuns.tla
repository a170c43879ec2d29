----------------------------- MODULE MCHookRuns -----------------------------
(* Instances of HookRuns for TLC.                                          *)
EXTENDS HookRuns, TLC

CONSTANTS h1, h2, r1, r2, r3

\* h1 stays in the file and changes its reply; h2 comes and goes.
OneKept == {h1 :> "send", h1 :> "none", (h1 :> "send") @@ (h2 :> "send")}
=============================================================================
