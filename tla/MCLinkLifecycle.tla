--------------------------- MODULE MCLinkLifecycle ---------------------------
(***************************************************************************)
(* Small instances of LinkLifecycle for TLC.                               *)
(***************************************************************************)
EXTENDS LinkLifecycle, TLC

Draft(s, e, l, o) == [scheduledAt |-> s, expiresAt |-> e, clickLimit |-> l, isOneTime |-> o]

(* A plain limited link, one that expires at the second tick, one that is  *)
(* scheduled for it, a scheduled one that expires, a one-time link.        *)
MCDrafts ==
    {Draft(Null, Null, 1, FALSE), Draft(Null, 2, Null, FALSE),
     Draft(2, Null, 1, FALSE), Draft(2, 3, Null, FALSE),
     Draft(Null, Null, Null, TRUE)}

(* Rename, reschedule, clear the schedule, restore, lift the limit, make   *)
(* reusable.                                                               *)
MCUpdates ==
    {[title |-> TRUE], [scheduledAt |-> 2], [scheduledAt |-> Null],
     [isArchived |-> FALSE], [clickLimit |-> 2, isOneTime |-> FALSE]}

MCAdminEdits ==
    {[op |-> "edit", status |-> "ACTIVE", isArchived |-> FALSE],
     [op |-> "edit", clickLimit |-> 2, expiresAt |-> 2]}

Symmetric == Permutations(Requests)
=============================================================================
