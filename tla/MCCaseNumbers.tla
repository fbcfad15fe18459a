---------------------------- MODULE MCCaseNumbers ----------------------------
(* One user, in turn without a tenant, of the staff and a customer, creates  *)
(* two cases besides the two that exist.                                     *)
EXTENDS CaseWorkspace

MCWatchable == {"cases"}
MCSpared == [cases |-> CaseOps \ {"createCase"}]
=============================================================================
