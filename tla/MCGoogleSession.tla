-------------------------- MODULE MCGoogleSession --------------------------
(***************************************************************************)
(* Two access tokens (a sign-in and a refresh), bodies of two pieces, two  *)
(* statuses of 2xx and two above (1xx is never the final one).  A long of  *)
(* 16 bits overflows above 32 seconds as one of 32 does above 24 days: 40  *)
(* seconds become a negative limit, 70 seconds one of 4464 ms.             *)
(***************************************************************************)
EXTENDS GoogleSession

MCStatuses == {204, 299, 300, 503}
MCTimeouts == {0, 5, 32, 40, 70}
=============================================================================
