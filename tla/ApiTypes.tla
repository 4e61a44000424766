------------------------------- MODULE ApiTypes -------------------------------
(***************************************************************************)
(* What the services behind /auth, /users and /accounts have in common:    *)
(* the requests they serve and the values of their columns.  What a        *)
(* request creates (a token, a password, a customer, an account) goes by   *)
(* the name of the request.                                                *)
(***************************************************************************)
EXTENDS Naturals, FiniteSets

CONSTANTS
  Requests,    \* requests
  Earlier,     \* what earlier requests have left: a session, a customer, an account
  None,        \* NULL, or a field that is not given
  Threshold,   \* LOGIN_LOCK_THRESHOLD
  Emails,      \* e-mail addresses
  Currencies   \* currencies

ASSUME EarlierAssumption == Earlier \notin Requests
ASSUME NoneAssumption == None \notin Requests \cup {Earlier}
ASSUME ThresholdAssumption == Threshold \in Nat \ {0}
ASSUME EmailsAssumption == Emails # {} /\ None \notin Emails
ASSUME CurrenciesAssumption == Currencies # {}
=============================================================================
