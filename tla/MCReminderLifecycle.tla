------------------------ MODULE MCReminderLifecycle ------------------------
(***************************************************************************)
(* Model values and windows for ReminderLifecycle.  The poll interval is   *)
(* as long as both windows, the longest for which no window is missed.     *)
(***************************************************************************)
EXTENDS ReminderLifecycle

MCStartTimes == {2, 3}
=============================================================================
