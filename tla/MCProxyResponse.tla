-------------------------- MODULE MCProxyResponse --------------------------
(* Instances of ProxyResponse for TLC: bodies shorter than, equal to and   *)
(* longer than minSize, read in chunks of any size.                        *)
EXTENDS ProxyResponse

MCCodes == {200, 404}
=============================================================================
