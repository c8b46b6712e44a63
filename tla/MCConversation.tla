--------------------------- MODULE MCConversation ---------------------------
(* Conversation on a small instance.                                       *)
EXTENDS Conversation, TLC

ConvSymmetry == Permutations(Convs)
=============================================================================
