-------------------------- MODULE MCImportableJson --------------------------
(* One entry point, in this process or in a child.                          *)
EXTENDS ImportableJson
=============================================================================
