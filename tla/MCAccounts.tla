----------------------------- MODULE MCAccounts -----------------------------
(***************************************************************************)
(* One person with one address at two providers, and a developer's login.  *)
(***************************************************************************)
EXTENDS Accounts, TLC

CONSTANTS x, y, phone, tablet

MCIdentity == {<<"apple", 1>>, <<"google", 1>>, <<"dev", 2>>}
MCEmailOf == [i \in MCIdentity |-> IF i[1] = "dev" THEN y ELSE x]

\* Devices are interchangeable, and so are requests: an id is only ever compared.
MCSymmetry == Permutations({phone, tablet}) \cup Permutations(Request)
=============================================================================
