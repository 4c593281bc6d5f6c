--------------------------- MODULE MCCodexProcess ---------------------------
(* A codex process and two helpers, interchangeable.                       *)
EXTENDS CodexProcess, TLC
CONSTANTS h1, h2
MCHelper == {h1, h2}
=============================================================================
