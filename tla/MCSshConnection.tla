---------------------------- MODULE MCSshConnection ----------------------------
(* TLC instance of SshConnection: two clients, one after the other, so that  *)
(* what the first leaves running meets the second.                           *)
EXTENDS SshConnection
=============================================================================
