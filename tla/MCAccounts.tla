---------------------------- MODULE MCAccounts ----------------------------
(***************************************************************************)
(* Accounts for TLC: one address typed in two ways, of which the padded    *)
(* one logs in as an email that no registration stores.                    *)
(***************************************************************************)
EXTENDS Accounts

CONSTANTS plain, padded, address, untrimmed

MCSpellings == {plain, padded}
MCEmails    == {address, untrimmed}

MCRegisterForm == [s \in MCSpellings |-> address]
MCLoginForm    == [s \in MCSpellings |-> IF s = plain THEN address ELSE untrimmed]

===========================================================================
