-------------------------- MODULE MCConnectionPool --------------------------
(* ConnectionPool for TLC: model values for requests and connections.        *)
EXTENDS ConnectionPool
=============================================================================
