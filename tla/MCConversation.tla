--------------------------- MODULE MCConversation ---------------------------
(***************************************************************************)
(* Constants for checking Conversation.                                    *)
(***************************************************************************)
EXTENDS Conversation, TLC

Symmetric == Permutations(Tasks) \cup Permutations(Services)
             \cup Permutations(Panels) \cup Permutations(Volumes)
             \cup Permutations(Days)

AnyTemplate == [volume : Volumes, days : Days]
=============================================================================
