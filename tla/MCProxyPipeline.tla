--------------------------- MODULE MCProxyPipeline --------------------------
(* ProxyPipeline for TLC.  Tools play no part in it: responses call none.  *)
EXTENDS ProxyPipeline

MCResponses == {<<>>}
=============================================================================
