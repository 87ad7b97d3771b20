------------------------------ MODULE MCSignIn ------------------------------
(* SignIn with a few subjects and browsers, for TLC.                        *)
EXTENDS SignIn
=============================================================================
