--------------------------- MODULE MCInboxReplies ---------------------------
(* InboxReplies for TLC: the bot's callbacks are interchangeable. *)
EXTENDS InboxReplies, TLC

HandlerSymmetry == Permutations(Handlers)
=============================================================================
