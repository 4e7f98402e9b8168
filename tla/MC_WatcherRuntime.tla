------------------------- MODULE MC_WatcherRuntime -------------------------
\* Model-checking instances of WatcherRuntime.
EXTENDS WatcherRuntime
=============================================================================
