------------------------------ MODULE MCWizard ------------------------------
(* Wizard on a small instance: a range of the program and one of the user. *)
EXTENDS Wizard

MCBuiltIn == <<"r1">>
MCOwn == <<"c1">>
MCTyped == {"r1", "c2"}
MCDrivers == <<"sampling", "connect">>
=============================================================================
