----------------------- MODULE MCSubscriptionService -----------------------
(* Model-checking instance of SubscriptionService: two accounts, two        *)
(* responses at a time and two addresses beside the wildcard.               *)
EXTENDS SubscriptionService
============================================================================
