---------------------------- MODULE MCDownloadList ----------------------------
(* Constants of the result list's TLC run. *)
EXTENDS DownloadList
=============================================================================
