--------------------------- MODULE CloudDelivery ---------------------------
(***************************************************************************)
(* What the cloud cache promises to the services that log data.  An entry  *)
(* accepted by the cache is held by the device until the cloud server has  *)
(* accepted it, it is discarded on purpose (cleared by a command, expired  *)
(* in a fail queue), or the power fails before it was ever saved.  Nothing *)
(* is promised about duplicates: the server may accept an entry again.     *)
(***************************************************************************)
EXTENDS Naturals

VARIABLES
  accepted,    \* number of entries accepted so far; entries are 1..accepted
  held,        \* the entries the device still holds
  delivered,   \* the entries the server has accepted at least once
  discarded,   \* the entries given up: cleared, expired, unsaved at a power loss
  durable      \* the entries that have been part of a saved snapshot

dvars == <<accepted, held, delivered, discarded, durable>>

Entries == 1..accepted

DInit ==
  /\ accepted = 0
  /\ held = {}
  /\ delivered = {}
  /\ discarded = {}
  /\ durable = {}

Accept ==
  /\ accepted' = accepted + 1
  /\ held' = held \union {accepted + 1}
  /\ UNCHANGED <<delivered, discarded, durable>>

(* The server accepts some entries. *)
Deliver(S) ==
  /\ delivered' = delivered \union S
  /\ UNCHANGED <<accepted, held, discarded, durable>>

(* The device forgets entries that it needs no longer. *)
Release(S) ==
  /\ S \subseteq delivered
  /\ held' = held \ S
  /\ UNCHANGED <<accepted, delivered, discarded, durable>>

(* Entries are discarded on purpose. *)
Discard(S) ==
  /\ held' = held \ S
  /\ discarded' = discarded \union S
  /\ UNCHANGED <<accepted, delivered, durable>>

Save(S) ==
  /\ durable' = durable \union S
  /\ UNCHANGED <<accepted, held, delivered, discarded>>

(* The power fails: only entries that were never saved may be lost. *)
Restore(H) ==
  /\ durable \subseteq H \union delivered \union discarded
  /\ held' = H
  /\ discarded' = discarded \union (Entries \ durable)
  /\ UNCHANGED <<accepted, delivered, durable>>

DNext ==
  \/ Accept
  \/ \E S \in SUBSET Entries :
        Deliver(S) \/ Release(S) \/ Discard(S) \/ Save(S) \/ Restore(S)

DSpec == DInit /\ [][DNext]_dvars

(* Every accepted entry is held, or the server has it, or it was discarded. *)
NothingVanishes == Entries \subseteq held \union delivered \union discarded
=============================================================================
