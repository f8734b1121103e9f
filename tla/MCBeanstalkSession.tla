------------------------- MODULE MCBeanstalkSession -------------------------
(* BeanstalkSession for TLC. *)
EXTENDS BeanstalkSession
=============================================================================
