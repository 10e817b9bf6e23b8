-------------------------- MODULE MCNamespaceStore --------------------------
(* A parent and a child namespace, two users and one role, whose permissions
   are create.namespace and the empty string. *)
EXTENDS NamespaceRefinement
=============================================================================
