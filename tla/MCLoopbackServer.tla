-------------------------- MODULE MCLoopbackServer --------------------------
(***************************************************************************)
(* An instance of LoopbackServer: two connections of any kind, a backlog   *)
(* of one, and two calls, so that a connection can be left over from the   *)
(* first call, come during the second, or find the backlog full.           *)
(***************************************************************************)
EXTENDS LoopbackServer
=============================================================================
