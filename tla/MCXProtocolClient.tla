------------------------- MODULE MCXProtocolClient -------------------------
(* Bounds for model-checking XProtocolClient: every kind of request.        *)
EXTENDS XProtocolClient

MCKinds == AllKinds

\* execute() without callbacks, which buffers the rows, and with both; a row
\* callback alone takes the same path without the call for the metadata.
MCCursors == {"none", "both"}
=============================================================================
