------------------------------ MODULE MCAccess ------------------------------
EXTENDS Access
MCAttenuations == <<"store">>
=============================================================================
