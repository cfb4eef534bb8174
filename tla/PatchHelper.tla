----------------------------- MODULE PatchHelper -----------------------------
(***************************************************************************)
(* The patch helper of cluster-api (sigs.k8s.io/cluster-api/util/patch),   *)
(* an external library, as both controllers use it.  A helper keeps a copy *)
(* of the object as it was read, and Patch sends a JSON merge patch of the *)
(* difference between that copy and the object as the reconciler left it:  *)
(* a field the reconciler did not change is not sent, so whatever the API  *)
(* server holds for it survives.  There is no optimistic lock, the copy is *)
(* never refreshed, and the object (metadata and spec) and its status are  *)
(* two requests, the object's first.                                       *)
(***************************************************************************)

\* One field of a stored object after a merge patch of the difference
\* between before and after.
Merged(before, after, current) == IF after # before THEN after ELSE current
=============================================================================
