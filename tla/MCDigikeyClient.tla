--------------------------- MODULE MCDigikeyClient ---------------------------
(* Small instances of DigikeyClient for TLC.  The ticks keep the order of  *)
(* the code's times: MinInterval < InitialWait <= RequestTimeout <         *)
(* TokenTimeout-and-tries < Buffer < Lifetimes.                            *)
EXTENDS DigikeyClient

MCLifetimes    == {22}
MCRetryAfters  == {0, 1, 2}
=============================================================================
