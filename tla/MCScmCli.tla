------------------------------- MODULE MCScmCli -------------------------------
(* A small instance of the command line for TLC: two suppliers searched    *)
(* one at a time, and bodies up to twice the limit.                 *)
EXTENDS ScmCli

MCSuppliers == {"jlcpcb", "mouser"}
MCRequests  == MCSuppliers \cup {"main"}

(* Each way a URL is refused; without TLS, each sort of host.              *)
MCUrls ==
  [fault : {"none"}, scheme : {"http"}, host : Hosts \ {"loopback"}]
  \cup [fault : UrlFaults, scheme : {"https"}, host : {"remote"}]
MCCommands == Command
=============================================================================
