------------------------------ MODULE Objects -------------------------------
(***************************************************************************)
(* A store of Sui objects is a function whose domain is the set of ids     *)
(* that exist.  These operators are the two ways a store changes.  TLC's   *)
(* @@ and :> say the same as Put, but the proof system has no definition   *)
(* of them.                                                                *)
(***************************************************************************)

Put(store, id, object) ==
  [x \in DOMAIN store \cup {id} |-> IF x = id THEN object ELSE store[x]]

Drop(store, id) == [x \in DOMAIN store \ {id} |-> store[x]]

\* The empty store.
Empty == [x \in {} |-> x]
=============================================================================
