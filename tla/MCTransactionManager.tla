------------------------ MODULE MCTransactionManager ------------------------
EXTENDS TransactionManager, TLC

Symmetry == Permutations(Calendars) \cup Permutations(Items)
=============================================================================
