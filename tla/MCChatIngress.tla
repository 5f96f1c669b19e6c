---------------------------- MODULE MCChatIngress ----------------------------
EXTENDS ChatIngress, TLC

CallIds == Permutations(Call)
=============================================================================
