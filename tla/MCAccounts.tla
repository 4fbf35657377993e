----------------------------- MODULE MCAccounts -----------------------------
(* Two tenants; one address typed in two ways; a name that looks like the  *)
(* second slug of another one.                                             *)
EXTENDS Accounts

MCLower == [e \in Emails |-> IF e = "Ana@gym" THEN "ana@gym" ELSE e]

MCSlugsOf == [n \in Names |-> IF n = "spa" THEN <<"spa", "spa-2">> ELSE <<"spa-2">>]
=============================================================================
