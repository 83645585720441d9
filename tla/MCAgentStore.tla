---------------------------- MODULE MCAgentStore ----------------------------
(* Two tasks; the first message invokes both, the second holds the receipt of
   the first task and invokes both again, the third concludes the second. *)
EXTENDS AgentStore
MCInvs == <<{1, 2}, {2, 1}, {}>>
MCRcpts == <<{}, {1}, {2}>>
=============================================================================
