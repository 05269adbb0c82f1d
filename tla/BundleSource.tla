---------------------------- MODULE BundleSource ----------------------------
(***************************************************************************)
(* What a root CA source is to its subscriber (internal/csi/rootca): a     *)
(* bundle that can be read at any time and one event for every change of   *)
(* it, delivered some time after the change.  The source in memory         *)
(* (memory.go) is this and no more.  RootCAFile implements it over a       *)
(* watched file, and CAManager relies on nothing else.                     *)
(***************************************************************************)
EXTENDS Naturals

CONSTANT Contents   \* what CertificatesPEM can return

VARIABLES
  pem,         \* certificatesPEM
  subscribed,  \* somebody has called Subscribe
  broadcasts   \* goroutines parked at subscribers[i] <- struct{}{}

sourceVars == <<pem, subscribed, broadcasts>>

Init == pem \in Contents /\ subscribed = FALSE /\ broadcasts = 0

(* New contents, and a goroutine for the subscriber, under one lock.  The  *)
(* memory source does not ask whether the contents are new.                *)
Announce(b) ==
  /\ pem' = b
  /\ broadcasts' = IF subscribed THEN broadcasts + 1 ELSE broadcasts
  /\ UNCHANGED subscribed

(* Subscribe takes the same lock.                                          *)
Subscribe ==
  /\ ~subscribed /\ subscribed' = TRUE
  /\ UNCHANGED <<pem, broadcasts>>

(* The subscriber receives from one of the goroutines.                     *)
Receive ==
  /\ broadcasts > 0 /\ broadcasts' = broadcasts - 1
  /\ UNCHANGED <<pem, subscribed>>

Next == Subscribe \/ Receive \/ \E b \in Contents : Announce(b)

Spec == Init /\ [][Next]_sourceVars

=============================================================================
