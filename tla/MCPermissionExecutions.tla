------------------------ MODULE MCPermissionExecutions ------------------------
(* Two launches of one user, of any kinds, over two server processes. *)
EXTENDS PermissionExecutions

CONSTANT u1

OneUser == [d \in Decision |-> u1]

===============================================================================
