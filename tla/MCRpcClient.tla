----------------------------- MODULE MCRpcClient -----------------------------
EXTENDS RpcClient

TwoServers == <<"a1", "a2">>
=============================================================================
