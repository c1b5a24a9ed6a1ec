-------------------------- MODULE MCBrowserSession --------------------------
EXTENDS BrowserSessionProperties

Symmetry == Permutations(Tabs) \cup Permutations(Tokens)
=============================================================================
