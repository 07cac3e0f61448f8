--------------------------- MODULE MCContractCodec ---------------------------
(* Every root of the catalog, every place of it and every value there.     *)
EXTENDS ContractCodec

MCRoots == ContractRoot
=============================================================================
