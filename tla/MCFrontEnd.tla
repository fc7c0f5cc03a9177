------------------------------ MODULE MCFrontEnd ------------------------------
EXTENDS FrontEnd, TLC
Alike == Permutations(Slots) \cup Permutations(CardSlots)
=============================================================================
