-------------------------- MODULE MCManagedChild --------------------------
EXTENDS ManagedChild

MCFaults == {{"unplug", "shutdown"}, {"loss"}}
=============================================================================
