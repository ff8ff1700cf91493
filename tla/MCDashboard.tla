----------------------------- MODULE MCDashboard -----------------------------
(* Instances of Dashboard for TLC. *)
EXTENDS Dashboard, TLC

\* One client with a fixed port and one without: two entries of s.clients.
OnePort == "a" :> <<1>> @@ "b" :> <<>>
=============================================================================
