------------------------------ MODULE MCEventInbox ------------------------------
EXTENDS EventInbox
=============================================================================
