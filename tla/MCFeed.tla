------------------------------- MODULE MCFeed -------------------------------
(* Feed on a server that starts with no run.                                *)
EXTENDS Feed

MCReplayed == {<<>>}

=============================================================================
