--------------------------- MODULE MCRoguePlugin ---------------------------
\* Rogue's plugin with an edition that get_game_id must not confuse with the
\* Russian one, and the Asian one.  The callbacks' checks are evaluated here.
EXTENDS RoguePlugin, OperatorChecks

TwoEditions == {{"English"}, {"English", "Korean", "ChineseTrad"}}
=============================================================================
