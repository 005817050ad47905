----------------------------- MODULE MCFailover -----------------------------
(***************************************************************************)
(* Instances of Failover.  The process starts with one direct account and  *)
(* the configured OpenRouter key; a second direct account and the key      *)
(* itself may be added to the pool while requests run.                     *)
(***************************************************************************)
EXTENDS Failover

CONSTANTS d1, d2, k1, b1, m1

MCInitAccounts == {<<>>, <<d1>>}
MCConfigKey == <<k1>>
MCConfigCookie == <<b1>>
MCRequestKeys == <<d2>>
MCModels == <<m1>>
MCNone == <<>>
=============================================================================
