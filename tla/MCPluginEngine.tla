---------------------------- MODULE MCPluginEngine ----------------------------
(* A request and a response go through up to two plugins and an import.    *)
EXTENDS PluginEngine, TLC

CONSTANTS request, response

OneOfEach == {request, response}
TheFunctions == request :> "on_request" @@ response :> "on_response"
SomeScripts == {{"on_request"}, {"on_request", "on_response"}}
=============================================================================
