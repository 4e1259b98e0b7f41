---------------------------- MODULE MCDashboard ----------------------------
\* Two systems; the second holds the built-in entries.
EXTENDS Dashboard

Entry(system, kind) == [system |-> system, kind |-> kind]
SmallCatalog == <<Entry(1, "game"), Entry(2, "game"), Entry(2, "reboot")>>
=============================================================================
