------------------------- MODULE MCConnectorDeletion -------------------------
(***************************************************************************)
(* The instances of ConnectorDeletion that TLC checks.                     *)
(***************************************************************************)
EXTENDS ConnectorDeletion

CONSTANTS doc1

OneDoc == {doc1}
=============================================================================
