------------------------ MODULE MC_PremiumModelLock ------------------------
(* Two lock objects in two processes (the TUI and the MCP server) and two *)
(* premium models, so that swaps, takeovers and late releases all happen. *)
EXTENDS PremiumModelLock
CONSTANTS tui, mcp, m1, m2

OwnProcess == [o \in Owner |-> o]
=============================================================================
