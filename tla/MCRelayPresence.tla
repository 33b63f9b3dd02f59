--------------------------- MODULE MCRelayPresence --------------------------
(* The TTLs of the downstream instances, in units of five seconds: the     *)
(* heartbeat interval is then at least 2.                                  *)
EXTENDS RelayPresence, TLC

(* u1 asks for no expiry; half of u2's TTL is just the cap of the run.     *)
Mixed == "u1" :> 0 @@ "u2" :> 7

(* What is asked for by hand: a TTL that no cap and no cleanup applies to. *)
Negative == {-1}

=============================================================================
