------------------------------- MODULE MCPar -------------------------------
(* Authorize requests through the picker page of a tenant with several     *)
(* methods, while the client pushes.                                       *)
EXTENDS Par
=============================================================================
