---------------------------- MODULE MCNewsletter ----------------------------
(***************************************************************************)
(* Small instances of Newsletter for TLC.                                  *)
(***************************************************************************)
EXTENDS NewsletterInvariant

OneAddress == {1}
TwoAddresses == {1, 2}
OneMember == {1}
=============================================================================
