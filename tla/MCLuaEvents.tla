----------------------------- MODULE MCLuaEvents -----------------------------
EXTENDS LuaEvents, TLC
CONSTANTS i1, i2, s1
Symmetric == Permutations({i1, i2})
==============================================================================
