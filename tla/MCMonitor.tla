----------------------------- MODULE MCMonitor -----------------------------
EXTENDS Monitor

MCCommands == {<<"h">>}
=============================================================================
