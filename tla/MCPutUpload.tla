------------------------------ MODULE MCPutUpload ------------------------------
(* One intent of a two-part object, tried by two processes. *)
EXTENDS PutUpload
=============================================================================
