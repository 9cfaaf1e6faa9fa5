------------------------- MODULE MCReminderRestart -------------------------
(***************************************************************************)
(* One meeting and both its reminders, snoozed once each, over three runs  *)
(* of the program and past the end of the last window.                     *)
(***************************************************************************)
EXTENDS ReminderRestart

MCStartTimes == {2}
=============================================================================
