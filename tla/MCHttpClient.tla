---------------------------- MODULE MCHttpClient ----------------------------
(* Instances of HttpClient for TLC. *)
EXTENDS HttpClient

\* Http_client talks to one server.
CONSTANTS server

OneServer == [c \in Conns |-> server]
=============================================================================
