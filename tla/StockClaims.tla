---------------------------- MODULE StockClaims ----------------------------
(***************************************************************************)
(* What the stock ledger promises, with no ledger in it: an order has at   *)
(* most one claim on its units, a claim takes them off the shelf exactly   *)
(* once, and giving the claim up puts them back exactly once.  Orders      *)
(* implements this specification (see Orders!ClaimsKept).                  *)
(***************************************************************************)
EXTENDS Integers, Totals

CONSTANTS Orders, Variants, Baskets, Opening, Adjustments

VARIABLES
  shelf,  \* units nobody has a claim on
  claim,  \* what each order has on its units
  wants   \* the units of each order

vars == <<shelf, claim, wants>>

Claims == {"none", "held", "sold", "lapsed", "returned"}

TypeOK ==
  /\ shelf \in [Variants -> Nat]
  /\ claim \in [Orders -> Claims]
  /\ wants \in [Orders -> [Variants -> Nat]]

Init ==
  /\ shelf = Opening
  /\ claim = [o \in Orders |-> "none"]
  /\ wants = [o \in Orders |-> [v \in Variants |-> 0]]

Shelf(next) == next \in [Variants -> Nat] /\ shelf' = next

\* A new order claims units that are on the shelf, to hold or to have.
Claim(o, b, c) ==
  /\ claim[o] = "none"
  /\ Shelf([v \in Variants |-> shelf[v] - b[v]])
  /\ claim' = [claim EXCEPT ![o] = c]
  /\ wants' = [wants EXCEPT ![o] = b]

\* A held claim becomes a sale: the units are off the shelf already.
Keep(o) ==
  /\ claim[o] = "held"
  /\ claim' = [claim EXCEPT ![o] = "sold"]
  /\ UNCHANGED <<shelf, wants>>

\* A claim that lapsed can still become a sale, if the shelf has the units.
Reclaim(o) ==
  /\ claim[o] = "lapsed"
  /\ Shelf([v \in Variants |-> shelf[v] - wants[o][v]])
  /\ claim' = [claim EXCEPT ![o] = "sold"]
  /\ UNCHANGED wants

\* Held claims are given up, one or several at once.
LetGo(S) ==
  /\ \A o \in S : claim[o] = "held"
  /\ Shelf([v \in Variants |->
              shelf[v] + Total([o \in S |-> wants[o][v]])])
  /\ claim' = [o \in Orders |-> IF o \in S THEN "lapsed" ELSE claim[o]]
  /\ UNCHANGED wants

\* One held claim is given up.
Release(o) ==
  /\ claim[o] = "held"
  /\ Shelf([v \in Variants |-> shelf[v] + wants[o][v]])
  /\ claim' = [claim EXCEPT ![o] = "lapsed"]
  /\ UNCHANGED wants

\* Sold units come back for good.
GiveBack(o) ==
  /\ claim[o] = "sold"
  /\ Shelf([v \in Variants |-> shelf[v] + wants[o][v]])
  /\ claim' = [claim EXCEPT ![o] = "returned"]
  /\ UNCHANGED wants

\* Goods arrive, are written off or are counted again.
Restock(v, q) ==
  /\ Shelf([shelf EXCEPT ![v] = @ + q])
  /\ UNCHANGED <<claim, wants>>

Next ==
  \/ \E o \in Orders :
       \/ \E b \in Baskets, c \in {"held", "sold"} : Claim(o, b, c)
       \/ Keep(o)
       \/ Reclaim(o)
       \/ Release(o)
       \/ GiveBack(o)
  \/ \E S \in SUBSET Orders : LetGo(S)
  \/ \E v \in Variants, q \in Adjustments : Restock(v, q)

Spec == Init /\ [][Next]_vars
=============================================================================
