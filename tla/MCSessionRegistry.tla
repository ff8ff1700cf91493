-------------------------- MODULE MCSessionRegistry --------------------------
(* Instances of SessionRegistry for TLC. *)
EXTENDS SessionRegistry, TLC

\* Client "a" has a dynamic port; "b" has the two ports of the dynamic range as
\* fixed ports, so that the range can be exhausted and every port contended for.
TwoClients == "a" :> <<0>> @@ "b" :> <<1, 2>>

\* One client, one rule: the shortest reconnection stories.
OneStatic == "a" :> <<1>>
=============================================================================
