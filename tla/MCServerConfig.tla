-------------------------- MODULE MCServerConfig --------------------------
(* Values for model checking ServerConfig.                                 *)
EXTENDS ServerConfig

\* A complete route, one that names its handler only, and one without one.
MCEntries ==
    {[handler |-> "proxy", path |-> "/", target |-> "http"],
     [handler |-> "monitor", path |-> Unset, target |-> Unset],
     [handler |-> Unset, path |-> "/monitor", target |-> "dir"]}
=============================================================================
