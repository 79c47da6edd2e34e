---------------------------- MODULE DropContract ----------------------------
(***************************************************************************)
(* What the share relay promises about its drops, whichever server keeps   *)
(* them: the self-hosted crates/hew-relay or the Worker in                 *)
(* workers/share-relay.  An upload is deposited once; one reader at most   *)
(* claims it; the claimed bytes reach that reader whole or nobody; and a   *)
(* drop that left the store by any door never comes back.                  *)
(***************************************************************************)

CONSTANT Drops

VARIABLE phase   \* of each drop

Phases == {"unused", "present", "claimed", "delivered", "gone"}

Init == phase = [d \in Drops |-> "unused"]

(* One step of one drop:                                                   *)
(*   a PUT completes and the drop can be read;                             *)
(*   a GET wins it, and from here nobody else can;                         *)
(*   that reader has every byte;                                           *)
(*   or it expires, is deleted, or is lost with a connection or a process. *)
Moves == {<<"unused", "present">>, <<"present", "claimed">>,
          <<"claimed", "delivered">>,
          <<"present", "gone">>, <<"claimed", "gone">>}

\* A sweep or a restart takes many drops at once.
Next ==
  /\ phase' \in [Drops -> Phases]
  /\ \A d \in Drops : phase'[d] = phase[d] \/ <<phase[d], phase'[d]>> \in Moves

Spec == Init /\ [][Next]_phase

\* No drop stays in the store for ever, and no reader is kept waiting.
Settles == \A d \in Drops : phase[d] \in {"present", "claimed"} ~>
                              phase[d] \in {"delivered", "gone"}
=============================================================================
