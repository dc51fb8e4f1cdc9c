------------------------------- MODULE MCDial -------------------------------
(* A small instance of Dial for TLC: every plugin setting of a              *)
(* configuration.                                                           *)
EXTENDS Dial

EveryCfg == AllCfgs
=============================================================================
