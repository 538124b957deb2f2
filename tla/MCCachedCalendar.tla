-------------------------- MODULE MCCachedCalendar --------------------------
EXTENDS CachedCalendar, TLC
=============================================================================
