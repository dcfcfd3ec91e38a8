---------------------------- MODULE SlotAccounting ----------------------------
(***************************************************************************)
(* Who may put one more item into a node-wide table                        *)
(* (crates/core/src/fair_admission/slot_accounting.rs).  A table is given  *)
(* by its use: how many items each principal holds.  The code keeps the    *)
(* two aggregates, the items in the pool and the principals claiming it,   *)
(* incrementally; here they are computed from the use.                     *)
(***************************************************************************)
EXTENDS Naturals, FiniteSets, FiniteSetsExt

CONSTANTS
    Slots,        \* connection slots
    Floor,        \* items any slot may hold
    Pool,         \* items the slots above their floor share
    LocalShare,   \* items of the node itself
    InboxShare,   \* items out of the node's relay inbox
    CustodyShare  \* items of a range handed over to the node

ASSUME SharesAssumption ==
    {Floor, Pool, LocalShare, InboxShare, CustodyShare} \subseteq Nat

OwnShare == {"Local", "Inbox", "Custody"}
Principal == Slots \cup OwnShare \cup {"Unbound"}

\* The items of a principal with a share of its own.
Reserved(principal) ==
    CASE principal = "Local" -> LocalShare
      [] principal = "Inbox" -> InboxShare
      [] principal = "Custody" -> CustodyShare

\* Items of a principal that holds `held` which fall to the pool.
PoolItems(principal, held) ==
    CASE principal \in Slots -> IF held > Floor THEN held - Floor ELSE 0
      [] principal = "Unbound" -> held
      [] OTHER -> 0

PoolHeld(use) == MapThenSumSet(LAMBDA p : PoolItems(p, use[p]), Principal)
Claimants(use) == Cardinality({p \in Principal : PoolItems(p, use[p]) > 0})
CeilDiv(a, b) == (a + b - 1) \div b

\* Items of the principal are admitted together, each of them in order.
AdmitsItems(use, principal, items) ==
    LET claimed  == PoolItems(principal, use[principal])
        overflow == PoolItems(principal, use[principal] + items) - claimed
        n        == Claimants(use) + (IF claimed = 0 THEN 1 ELSE 0)
    IN  \/ principal \in OwnShare /\ use[principal] + items <= Reserved(principal)
        \/ /\ principal \notin OwnShare
           /\ \/ overflow = 0
              \/ /\ PoolHeld(use) + overflow <= Pool
                 /\ claimed + overflow <= CeilDiv(Pool, n)

\* One more item of the principal is admitted.
AdmitsItem(use, principal) == AdmitsItems(use, principal, 1)

\* The items stay within the floor of a slot as it stands, and of an idle slot.
WithinFloor(use, principal, items) == principal \in Slots /\ use[principal] + items <= Floor
FitsFloor(principal, items) == principal \in Slots /\ items <= Floor
=============================================================================
