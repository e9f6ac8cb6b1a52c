---------------------------- MODULE MCMailRail ----------------------------
(***************************************************************************)
(* Instances of MailRail for TLC.                                          *)
(***************************************************************************)
EXTENDS MailRail

CONSTANTS t1, t2, i1, i2
=============================================================================
