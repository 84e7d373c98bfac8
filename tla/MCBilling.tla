------------------------------ MODULE MCBilling ------------------------------
(* One user who renews a subscription bought at the checkout, loses it and *)
(* takes another; six events, of which two name nobody.                    *)
EXTENDS Billing, TLC

CONSTANTS w1, w2, u1, r1, r2, e1, e2, e3, e4, e5, e6

OnePayer == r1 :> u1 @@ r2 :> u1
EventTypes == e1 :> "payment.succeeded" @@ e2 :> "payment.failed"
           @@ e3 :> "subscription.canceled" @@ e4 :> "subscription.renewed"
           @@ e5 :> "other" @@ e6 :> "payment.failed"
EventReferences == e1 :> r1 @@ e2 :> r1 @@ e3 :> r1 @@ e4 :> r2 @@ e5 :> r2 @@ e6 :> r2
EventEnds == e1 :> Null @@ e2 :> Null @@ e3 :> Null @@ e4 :> 2 @@ e5 :> Null
          @@ e6 :> Null

TwoWorkers == Permutations({w1, w2})
=============================================================================
