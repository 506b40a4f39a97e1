----------------------------- MODULE MCCfAccess -----------------------------
(* CfAccess with model values for TLC: two keys, a health check,            *)
(* publications by the build service and by a person, and a yank with a     *)
(* token that nobody was given.                                             *)
EXTENDS CfAccess

CONSTANTS k1, k2

FewRequests ==
  {[kind |-> "healthcheck"],
   [kind |-> "publish", token |-> [kid |-> k1, holder |-> "ci"]],
   [kind |-> "publish", token |-> [kid |-> k2, holder |-> "user"]],
   [kind |-> "auth_yank", token |-> [kid |-> k1, holder |-> "nobody"]]}
=============================================================================
