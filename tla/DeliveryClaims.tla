---------------------------- MODULE DeliveryClaims ----------------------------
(***************************************************************************)
(* What the documents say of a delivery that the code does not do.         *)
(***************************************************************************)
EXTENDS Delivery

(* SECURITY.md:42-44: promotion "refuses a candidate whose project has     *)
(* moved underneath it, and refuses to overwrite any destination that no   *)
(* longer matches its approved base".  So what the user wrote to a         *)
(* destination, and has not replaced himself, would still be there or kept *)
(* next to it; but a destination is looked at before the rename (684-688)  *)
(* or the removal (805-806, 1210-1217) that replaces it, not as it         *)
(* happens, and what he writes in between is overwritten.                  *)
DestinationsAreNotOverwritten == owed \subseteq Copies

=============================================================================
