------------------------------ MODULE MCDispatch -----------------------------
EXTENDS Dispatch, TLC
CONSTANTS t1, a1, a2, k1

(* A provider with two subscriptions, another with a key.  The standard    *)
(* chain goes from the subscriptions to the key to a free model; the deep  *)
(* one has nowhere to go after the subscriptions.                          *)
MCProvider == (k1 :> "q" @@ a1 :> "p" @@ a2 :> "p")
Pooled == [billing |-> "subscription", pool |-> "p"]
Metered == [billing |-> "metered", account |-> k1]
Gratis == [billing |-> "free"]
MCChains == [standard |-> <<Pooled, Metered, Gratis>>, deep |-> <<Pooled>>]
MCOrder == <<a1, a2, k1>>
=============================================================================
