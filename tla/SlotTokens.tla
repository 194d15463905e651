----------------------------- MODULE SlotTokens -----------------------------
(***************************************************************************)
(* The body of one slot file <state>/slots/<k> (src/src/slot.rs) and the   *)
(* pure part of every operation on it: what the operation reads, what it   *)
(* writes back and what it answers.  Each operation of slot.rs reads the   *)
(* file, decides and rewrites it while it holds the pool's free-lock; the  *)
(* modules that extend this one own the lock, the processes and the host   *)
(* resources that surround the decision.                                   *)
(*                                                                         *)
(* A token keeps only what the grammar tells apart: its kind, the snapshot *)
(* it names and the set of rooms it names.  The absent file is the token   *)
(* Free.  The pid and start time of a claim belong to the one process that *)
(* runs the room, so they are carried by the room id itself.               *)
(***************************************************************************)
EXTENDS Naturals, FiniteSets

CONSTANTS
    Rooms,           \* pre-minted room ids (26 lowercase alphanumerics)
    Snaps,           \* snapshot ids
    NoRoom, NoSnap,  \* absence of either
    MaxSlot,         \* MAX_SLOT: the highest claimable index (63)
    MaxCloneLeases   \* MAX_CLONE_LEASES: clones sharing one frozen slot (8)

ASSUME TokenAssumption ==
    /\ MaxSlot \in Nat \ {0}
    /\ MaxCloneLeases \in Nat \ {0}
    /\ NoRoom \notin Rooms
    /\ NoSnap \notin Snaps

(* valid_index: slot 0 is the legacy shared tap and never in the pool.     *)
Slots == 1..MaxSlot

Kinds == {"free", "partial", "claimed", "reserved", "leased", "clones"}

Token == [kind : Kinds, snap : Snaps \cup {NoSnap}, rooms : SUBSET Rooms]

Free        == [kind |-> "free",     snap |-> NoSnap, rooms |-> {}]
InProgress  == [kind |-> "partial",  snap |-> NoSnap, rooms |-> {}]
Claimed(r)  == [kind |-> "claimed",  snap |-> NoSnap, rooms |-> {r}]
Reserved(s) == [kind |-> "reserved", snap |-> s,      rooms |-> {}]
Leased(s, r) == [kind |-> "leased",  snap |-> s,      rooms |-> {r}]
CloneLeases(s, rs) == [kind |-> "clones", snap |-> s, rooms |-> rs]

-----------------------------------------------------------------------------
(* reserve: an exact claim of the base becomes the snapshot's reservation; *)
(* the snapshot's own reservation is an idempotent retry.                  *)
ReserveOk(t, s, base) == t = Reserved(s) \/ t = Claimed(base)

(* lease: the single flat lease, taken from the plain reservation or       *)
(* re-taken by its own holder.  Any other token is refused.                *)
LeaseOk(t, s, r) == t = Reserved(s) \/ t = Leased(s, r)

(* lease_clone: the bounded clone set; a flat lease excludes it.           *)
LeaseCloneOk(t, s, r) ==
    \/ t = Reserved(s)
    \/ /\ t.kind = "clones" /\ t.snap = s
       /\ r \in t.rooms \/ Cardinality(t.rooms) < MaxCloneLeases

LeaseCloneToken(t, s, r) == CloneLeases(s, t.rooms \cup {r})

(* leased_by: the flat lessee or a clone member of this snapshot's token.  *)
LeasedBy(t, s, r) ==
    t.kind \in {"leased", "clones"} /\ t.snap = s /\ r \in t.rooms

(* Mutant: the last release gives the slot back to the free pool.          *)
AfterReleaseToPool(t, s, r) ==
    IF t.rooms \ {r} = {} THEN Free ELSE CloneLeases(s, t.rooms \ {r})

(* clone_token_after_release and the flat release: the last member returns *)
(* the slot to the reservation, never to the free pool.                    *)
AfterRelease(t, s, r) ==
    IF t.rooms \ {r} = {} THEN Reserved(s) ELSE CloneLeases(s, t.rooms \ {r})
=============================================================================
