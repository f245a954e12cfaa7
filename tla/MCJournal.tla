----------------------------- MODULE MCJournal -----------------------------
EXTENDS Journal
CONSTANTS m1, m2, e1, e2
MCMR == {m1, m2}
MCEntry == {e1, e2}
=============================================================================
