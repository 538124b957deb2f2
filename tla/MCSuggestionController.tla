----------------------- MODULE MCSuggestionController -----------------------
EXTENDS SuggestionController, TLC
=============================================================================
