------------------------ MODULE MCProviderResilience ------------------------
\* A provider with several callers, for TLC.
EXTENDS ProviderResilience
CONSTANTS c1, c2, c3   \* the callers
=============================================================================
