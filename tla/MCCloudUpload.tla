--------------------------- MODULE MCCloudUpload ---------------------------
(* Small instances of CloudUpload for TLC: three files, so that one may be   *)
(* under way, one next and one behind it.                                   *)
EXTENDS CloudUpload
=============================================================================
