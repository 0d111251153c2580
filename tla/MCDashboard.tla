---------------------------- MODULE MCDashboard ----------------------------
(* Dashboard with two addresses, one row on the screen, and a log of two   *)
(* runs.                                                                   *)
EXTENDS Dashboard

MCFilters == {Ips, {1}}
MCSessions == {[keys |-> {"look"}, last |-> 2], [keys |-> {"views"}, last |-> 2],
               [keys |-> {"marks"}, last |-> 2], [keys |-> {}, last |-> 4]}
=============================================================================
