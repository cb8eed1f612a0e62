----------------------------- MODULE MCConversation ----------------------------
(* Instances of Conversation for TLC. All its constants are numbers and sets  *)
(* of names the configurations give; nothing is symmetric, for executions,    *)
(* runs and threads are taken in their order.                                 *)
EXTENDS Conversation
===============================================================================
