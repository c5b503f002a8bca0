------------------------------- MODULE ApiKeys -------------------------------
(***************************************************************************)
(* Products of a team and their API keys: both are counted before one more  *)
(* is added, under a lock that others need not take; a key is replaced by a *)
(* successor while it is still in use; and what a key has signed outlives    *)
(* the request that carried it.                                             *)
(* A product has one environment, which is therefore the product here.      *)
(***************************************************************************)
EXTENDS Integers, Sequences, FiniteSets

CONSTANTS
    Products,       \* products that are ever created
    Editing,        \* dashboard requests that add a product or a key
    Idle,           \* no request
    MaxProducts,    \* products of a workspace (25)
    MaxActive,      \* active keys of an environment and kind (10)
    Overlap,        \* how long a key outlives its rotation (an hour)
    CapabilityLife, \* how long a capability lives (two hours)
    ReadLife,       \* how long the successor of a read key lives (90 days)
    ShortLife,      \* an expiry an editor may choose
    Forever,        \* none
    MaxClock,       \* bound of the time
    MaxKeys,        \* bound: keys ever created
    MaxSigned       \* bound: capabilities at once

ASSUME KeysAssumption ==
    /\ {MaxProducts, MaxActive, Overlap, CapabilityLife, ReadLife, ShortLife, MaxClock, MaxKeys,
      MaxSigned}
            \subseteq Nat \ {0}
    /\ Forever \in Nat /\ Forever > MaxClock + Overlap + ReadLife

VARIABLES
    live,           \* products
    deleted,        \* products that were deleted
    keys,           \* api_keys, in the order they were created
    editing,        \* transactions of the dashboard that have counted
    signed,         \* capabilities an agent holds
    firsts,         \* product_activation_milestones: those with a time
    clock

keysVars == <<live, deleted, keys, editing, signed, firsts, clock>>

Kinds == {"write", "read"}

KeyIds == DOMAIN keys

(* expires is what the row says; until is what it said first, rotated when    *)
(* the key was first rotated, and chosen tells an editor's key from a         *)
(* successor.                                                                *)
Key ==
    [product : Products, kind : Kinds, expires : Nat, until : Nat, revoked : BOOLEAN,
     rotated : 0 .. Forever, chosen : BOOLEAN]

Edit == [adds : {"product", "key"}, product : Products, kind : Kinds, until : Nat]

Milestones == {"opportunity", "confirmed", "report"}


Active(k) ==
    /\ keys[k].product \in live
    /\ ~keys[k].revoked
    /\ keys[k].expires > clock

ActiveKeys(p, kind) == {k \in KeyIds : Active(k) /\ keys[k].product = p /\ keys[k].kind = kind}

KeysTypeOK ==
    /\ live \cap deleted = {} /\ live \cup deleted \subseteq Products
    /\ \A k \in KeyIds : keys[k] \in Key
    /\ editing \in [Editing -> Edit \cup {Idle}]
    /\ \A c \in signed : c.key \in KeyIds /\ c.at \in 1 .. MaxClock
    /\ firsts \in [Products -> SUBSET Milestones]
    /\ clock \in 1 .. MaxClock

KeysInit ==
    /\ live = {} /\ deleted = {}
    /\ keys = <<>>
    /\ editing = [e \in Editing |-> Idle]
    /\ signed = {}
    /\ firsts = [p \in Products |-> {}]
    /\ clock = 1

-----------------------------------------------------------------------------
Adds(what) == {e \in Editing : editing[e] # Idle /\ editing[e].adds = what}

EnvironmentLocked(p) == \E e \in Adds("key") : editing[e].product = p

NewKey(p, kind, until, chosen) ==
    [product |-> p, kind |-> kind, expires |-> until, until |-> until, revoked |-> FALSE,
     rotated |-> Forever, chosen |-> chosen]

Free(p) == p \notin live \cup deleted

(* create_product_with_default_key: the count, under the lock of the          *)
(* workspace.                                                                *)
CountProducts(e, p) ==
    /\ editing[e] = Idle
    /\ Adds("product") = {}
    /\ Free(p)
    /\ Cardinality(live) < MaxProducts
    /\ editing' = [editing EXCEPT ![e] =
                      [adds |-> "product", product |-> p, kind |-> "write", until |-> Forever]]
    /\ UNCHANGED <<live, deleted, keys, signed, firsts, clock>>

(* The product, its environment, its default key and its milestones.          *)
InsertProduct(e) ==
    LET p == editing[e].product
    IN  /\ e \in Adds("product")
        /\ Len(keys) < MaxKeys
        /\ live' = live \cup {p}
        /\ keys' = Append(keys, NewKey(p, "write", Forever, TRUE))
        /\ firsts' = [firsts EXCEPT ![p] = {}]
        /\ editing' = [editing EXCEPT ![e] = Idle]
        /\ UNCHANGED <<deleted, signed, clock>>

(* Mutant: the count is not under the lock.                                  *)
CountKeysUnlocked(e, p, kind, until) ==
    /\ editing[e] = Idle
    /\ p \in live
    /\ Cardinality(ActiveKeys(p, kind)) < MaxActive
    /\ editing' = [editing EXCEPT ![e] =
                      [adds |-> "key", product |-> p, kind |-> kind, until |-> until]]
    /\ UNCHANGED <<live, deleted, keys, signed, firsts, clock>>

(* create_api_key: the count, under the lock of the environment; expiry is    *)
(* chosen before.                                                            *)
CountKeys(e, p, kind, until) ==
    /\ editing[e] = Idle
    /\ p \in live /\ ~EnvironmentLocked(p)
    /\ Cardinality(ActiveKeys(p, kind)) < MaxActive
    /\ editing' = [editing EXCEPT ![e] =
                      [adds |-> "key", product |-> p, kind |-> kind, until |-> until]]
    /\ UNCHANGED <<live, deleted, keys, signed, firsts, clock>>

InsertKey(e) ==
    LET new == editing[e]
    IN  /\ e \in Adds("key")
        /\ Len(keys) < MaxKeys
        /\ keys' = Append(keys, NewKey(new.product, new.kind, new.until, TRUE))
        /\ editing' = [editing EXCEPT ![e] = Idle]
        /\ UNCHANGED <<live, deleted, signed, firsts, clock>>

(* The transaction is rolled back: a name that is taken, or a crash.          *)
Abandon(e) ==
    /\ editing[e] # Idle
    /\ editing' = [editing EXCEPT ![e] = Idle]
    /\ UNCHANGED <<live, deleted, keys, signed, firsts, clock>>

RevokeKey(k) ==
    /\ keys[k].product \in live
    /\ ~keys[k].revoked
    /\ keys' = [keys EXCEPT ![k].revoked = TRUE]
    /\ UNCHANGED <<live, deleted, editing, signed, firsts, clock>>

(* rotate_api_key: the successor refers to the environment, so it waits for a *)
(* key that is being added there; it is not counted.  The old key keeps an    *)
(* expiry that is earlier than the overlap's.                                *)
RotateKey(k) ==
    LET old == keys[k]
        over == clock + Overlap
    IN  /\ Active(k)
        /\ ~EnvironmentLocked(old.product)
        /\ Len(keys) < MaxKeys
        /\ keys' = Append([keys EXCEPT ![k].expires = IF @ > over THEN over ELSE @,
                                       ![k].rotated = IF @ > clock THEN clock ELSE @],
                          NewKey(old.product, old.kind,
                                 IF old.kind = "read" THEN clock + ReadLife ELSE Forever, FALSE))
        /\ UNCHANGED <<live, deleted, editing, signed, firsts, clock>>

(* delete_product takes the environment and the keys along.                  *)
DeleteProduct(p) ==
    /\ p \in live /\ ~EnvironmentLocked(p)
    /\ live' = live \ {p}
    /\ deleted' = deleted \cup {p}
    /\ firsts' = [firsts EXCEPT ![p] = {}]
    /\ UNCHANGED <<keys, editing, signed, clock>>

-----------------------------------------------------------------------------
(* A report confirms its interaction, which is an opportunity.               *)
Reached(m) ==
    CASE m = "report" -> Milestones
      [] m = "confirmed" -> {"confirmed", "opportunity"}
      [] m = "opportunity" -> {"opportunity"}

(* record_product_activation: a time that is there stays.                    *)
Record(p, m) == firsts' = [firsts EXCEPT ![p] = @ \cup Reached(m)]

(* product_auth_for_key and ingest_telemetry_batch, with a confirmed           *)
(* interaction or without one.  The key was active when the request came and  *)
(* is not looked at again: by now it may be any key there ever was.  When the *)
(* product is gone the request fails.                                        *)
IngestBatch(k, m) ==
    LET p == keys[k].product
    IN  /\ keys[k].kind = "write"
        /\ p \in live
        /\ Record(p, m)
        /\ UNCHANGED <<live, deleted, keys, editing, signed, clock>>

(* A server that has the key signs a capability for an agent, without asking. *)
Sign(k) ==
    /\ Active(k) /\ keys[k].kind = "write"
    /\ Cardinality(signed) < MaxSigned
    /\ signed' = signed \cup {[key |-> k, at |-> clock]}
    /\ UNCHANGED <<live, deleted, keys, editing, firsts, clock>>

Alive(c) == clock < c.at + CapabilityLife

(* submit_product_feedback: the key that signed it is looked up again.        *)
Submit(c) ==
    /\ Alive(c) /\ Active(c.key)
    /\ Record(keys[c.key].product, "report")
    /\ signed' = signed \ {c}
    /\ UNCHANGED <<live, deleted, keys, editing, clock>>

Tock ==
    /\ clock < MaxClock
    /\ clock' = clock + 1
    /\ signed' = {c \in signed : clock' < c.at + CapabilityLife}
    /\ UNCHANGED <<live, deleted, keys, editing, firsts>>

-----------------------------------------------------------------------------
KeysNext ==
    \/ \E e \in Editing : InsertProduct(e) \/ InsertKey(e) \/ Abandon(e)
    \/ \E e \in Editing, p \in Products : CountProducts(e, p)
    \/ \E e \in Editing, p \in Products, kind \in Kinds, until \in {clock + ShortLife, Forever} :
          CountKeys(e, p, kind, until)
    \/ \E k \in KeyIds : RevokeKey(k) \/ RotateKey(k) \/ Sign(k)
    \/ \E p \in Products : DeleteProduct(p)
    \/ \E k \in KeyIds, m \in {"opportunity", "confirmed"} : IngestBatch(k, m)
    \/ \E c \in signed : Submit(c)
    \/ Tock

KeysSpec == KeysInit /\ [][KeysNext]_keysVars

-----------------------------------------------------------------------------
(* dashboard_with_limits: the screen a team lands on is that of the product    *)
(* it chose while that is there, else of its first; it lists the keys that    *)
(* are neither revoked nor expired and tells how far the product got.        *)
Landing(chosen) ==
    {[product |-> p, keys |-> {k \in KeyIds : keys[k].product = p /\ Active(k)},
      milestones |-> firsts[p]] : p \in IF chosen \in live THEN {chosen} ELSE live}

-----------------------------------------------------------------------------
(* Requests at once add no more than may be, but successors are not counted.  *)
LimitsHold ==
    /\ Cardinality(live) <= MaxProducts
    /\ \A p \in live, kind \in Kinds :
          Cardinality({k \in ActiveKeys(p, kind) : keys[k].chosen}) <= MaxActive

(* The screen a team lands on shows one of its products if it has any, and of  *)
(* one whose write keys were never revoked a key that does not expire,        *)
(* however often they are rotated.                                           *)
NeverLockedOut ==
    \A chosen \in Products :
        /\ live # {} => Landing(chosen) # {}
        /\ \A shown \in Landing(chosen) :
              (\A k \in KeyIds : keys[k].product = shown.product => ~keys[k].revoked) =>
                  \E k \in shown.keys : keys[k].kind = "write" /\ keys[k].expires = Forever

(* A rotation cuts off no agent at once: what a key signed before it was      *)
(* first rotated is honoured for an overlap from then on, however often it   *)
(* is rotated again, and for its whole life if the key is not rotated.       *)
RotationIsSafe ==
    \A c \in signed :
        LET key == keys[c.key]
        IN  /\ Alive(c) /\ c.at <= key.rotated /\ clock < key.rotated + Overlap
            /\ key.product \in live /\ ~key.revoked /\ key.until > clock
            => Active(c.key)

(* A step of the way to a first report implies those before it.              *)
MilestonesInOrder ==
    \A p \in Products :
        /\ "report" \in firsts[p] => "confirmed" \in firsts[p]
        /\ "confirmed" \in firsts[p] => "opportunity" \in firsts[p]

(* What a team can rely on when its keys change under the traffic.           *)
KeysServe == LimitsHold /\ NeverLockedOut /\ RotationIsSafe /\ MilestonesInOrder

=============================================================================
