----------------------------- MODULE MCDashboard -----------------------------
(* Dashboard on a server that starts with one run, hidden or not.           *)
EXTENDS Dashboard

Loaded(kind) == [kind |-> kind, run |-> "a"]
MCReplayed == {<<Loaded("event")>>, <<Loaded("event"), Loaded("hide")>>}

=============================================================================
