------------------------------ MODULE MCIbRpc ------------------------------
(***************************************************************************)
(* A client (1) and a server (2).  The first workloads let two operations  *)
(* overlap, of one end or of both; the last one fills the send queue of    *)
(* the server.                                                             *)
(***************************************************************************)
EXTENDS IbRpc

MCOps == 1 .. 7
MCBy == <<1, 1, 1, 2, 2, 2, 2>>
MCKind == <<"push", "pull", "ask", "push", "tell", "tell", "tell">>
MCWorkloads == {{1, 2}, {3, 4}, {2, 4}, {3, 5}, {5, 6, 7}}
============================================================================
