-------------------------- MODULE MCChatGeneration --------------------------
(* Two senders of two users and a manual compaction on a few chats.        *)
EXTENDS ChatGeneration, TLC

CONSTANTS u1, u2, s1, s2

MCUserOf == s1 :> u1 @@ s2 :> u2
=============================================================================
