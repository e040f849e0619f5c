----------------------------- MODULE MCTalkFork -----------------------------
EXTENDS TalkFork

MCMaxTyped == [server |-> 3, client |-> 2]
=============================================================================
