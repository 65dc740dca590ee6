------------------------------ MODULE MCAccounts ------------------------------
(* Instances of Accounts for TLC: four scenarios, one initial state or two each. *)
EXTENDS Accounts, TLC

CONSTANTS p1, p2, e1, e2

\* One address, two requests: registrations, verifications and resends beside
\* each other, and the deletion of the account.
Verifications ==
  [ops |-> {"createUser", "verifyEmail", "resend", "login", "updateCustomerProfile",
            "deleteCustomerProfile"},
   requests |-> 2, accounts |-> 2, codes |-> 3, passwords |-> {p1}, addresses |-> {e1},
   resetsOverlap |-> TRUE, stops |-> FALSE, ages |-> CodeTypes]

\* Password resets beside each other; the requests for a code do not overlap.
Resets ==
  [ops |-> {"createUser", "forgot", "reset", "login", "deleteCustomerProfile"},
   requests |-> 2, accounts |-> 1, codes |-> 3, passwords |-> {p1, p2}, addresses |-> {e1},
   resetsOverlap |-> FALSE, stops |-> TRUE, ages |-> {"PASSWORD_RESET"}]

\* Two administrators and a super administrator manage each other.
Management ==
  [ops |-> {"login", "createAdmin", "deactivateAdmin", "restoreAdmin", "deactivateUser",
            "restoreUser"},
   requests |-> 2, accounts |-> 2, codes |-> 0, passwords |-> {p1}, addresses |-> {e1, e2},
   resetsOverlap |-> TRUE, stops |-> TRUE, ages |-> {"PASSWORD_RESET"}]

\* Every operation, one request at a time.
Everything ==
  [ops |-> Operations \ {"verifyEmail", "resend"},
   requests |-> 1, accounts |-> 1, codes |-> 2, passwords |-> {p1}, addresses |-> {e1},
   resetsOverlap |-> TRUE, stops |-> TRUE, ages |-> {"PASSWORD_RESET"}]

AllScenarios == {Verifications, Resets, Management, Everything}
Interchangeable == {h @@ r : h \in Permutations(Handlers), r \in Permutations(Rows)}
==============================================================================
