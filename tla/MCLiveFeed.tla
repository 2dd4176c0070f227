---------------------------- MODULE MCLiveFeed ------------------------------
(* Instances of LiveFeed. *)
EXTENDS LiveFeed

=============================================================================
