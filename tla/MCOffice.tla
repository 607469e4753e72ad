------------------------------ MODULE MCOffice ------------------------------
(* Instances of Office for TLC. *)
EXTENDS Office

\* Without interest, and one tenth a month.
MCRates == {<<0, 1>>, <<1, 10>>}

\* Limits of one row and of none, in place of three users and ten vehicles.
MCQuota == [basic |-> [user |-> 1, vehicle |-> 1],
            legacy |-> [user |-> Unlimited, vehicle |-> Unlimited]]

MCPlans == {"basic", "legacy"}

\* The requests of all scenes have the same ids.
OfficeSymmetry == Permutations(Mechanics) \cup Permutations(Nights)
=============================================================================
