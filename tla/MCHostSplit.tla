----------------------------- MODULE MCHostSplit -----------------------------
EXTENDS HostSplitLoop
CONSTANTS a, b, c, d
MCHostOrder == <<a, b, c, d>>
==============================================================================
