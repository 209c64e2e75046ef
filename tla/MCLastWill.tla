----------------------------- MODULE MCLastWill -----------------------------
(***************************************************************************)
(* Three connections, one after the other: of a client that comes to one   *)
(* listener with a will and a clean session, or to continue its session     *)
(* without a will, and to the other listener with a will; and of a client   *)
(* that takes the router's only place.                                     *)
(***************************************************************************)
EXTENDS LastWill

MCConnects ==
  {[client |-> "c", listener |-> "v4", clean |-> TRUE, will |-> TRUE],
   [client |-> "c", listener |-> "v4", clean |-> FALSE, will |-> FALSE],
   [client |-> "c", listener |-> "v5", clean |-> FALSE, will |-> TRUE],
   [client |-> "d", listener |-> "v4", clean |-> TRUE, will |-> FALSE]}
=============================================================================
