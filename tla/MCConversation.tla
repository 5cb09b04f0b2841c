---------------------------- MODULE MCConversation -----------------------------
(* Instance of Conversation.                                                   *)
EXTENDS Conversation

MCTallies == {Reported(1, 0, 0), Reported(1, 1, 1)}
MCDialects == {"anthropic", "chatgpt", "openai", "gemini"}
===============================================================================
