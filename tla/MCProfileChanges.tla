-------------------------- MODULE MCProfileChanges --------------------------
(* A small instance of ProfileChanges, and the Accounts it extends.        *)
EXTENDS ProfileChanges, TLC
CONSTANTS e1, e2, u1, u2
MCSheets == {<<e1, "empty", e1>>, <<"invalid", "noDepartment", e2>>}
Fields(e, role, status) == [email |-> e, role |-> role, status |-> status]
MCChanges == {Fields(e1, None, "SUSPENDED"), Fields(None, "ADMINISTRATOR", "ACTIVE"),
              Fields(e2, "EMPLOYEE", None)}
MCSeeded == u1 :> Fields(e1, "EMPLOYEE", "ACTIVE") @@ u2 :> NoUser
MCColumns == "EMPLOYEE_PROFILE" :> {"address", "bankAccountNumber"}
MCRequired == "EMPLOYEE_PROFILE" :> {}
MCForms == {"address" :> "v1",
            "address" :> "v2" @@ "bankAccountNumber" :> "v1",
            "bankAccountNumber" :> None,
            "jobTitle" :> "v1"}
MCLastFour == [v \in {"v1", "v2", "masked"} |-> "masked"]
Symmetry == Permutations(Slots) \cup Permutations(ChangeIds)
=============================================================================
