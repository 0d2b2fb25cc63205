---------------------------- MODULE MCChatThread ----------------------------
EXTENDS ChatThread, TLC

SymTurns == Permutations(Turns \ Earlier) \cup Permutations(Continues)
=============================================================================
