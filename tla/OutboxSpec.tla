----------------------------- MODULE OutboxSpec -----------------------------
(***************************************************************************)
(* What the transactional outbox of api/outbox.py promises its callers     *)
(* (docstring, lines 11-25): an event accepted with its transaction is     *)
(* handed to the event backbone (or to the dead-letter topic) at least     *)
(* once, and it is settled, i.e. never looked at again, only after that.   *)
(* How rows, batches, attempts and sessions achieve it is Outbox.tla.      *)
(***************************************************************************)
CONSTANT Event

VARIABLES
    accepted,   \* events whose transaction committed
    handed,     \* events the backbone or the DLQ received at least once
    settled     \* events the relayer will not look at again

specVars == <<accepted, handed, settled>>

SpecInit ==
    /\ accepted = {}
    /\ handed = {}
    /\ settled = {}

Accept(e) ==
    /\ e \notin accepted
    /\ accepted' = accepted \cup {e}
    /\ UNCHANGED <<handed, settled>>

\* Handing over again is a duplicate: the promise allows it (a stutter here).
Hand(e) ==
    /\ e \in accepted
    /\ handed' = handed \cup {e}
    /\ UNCHANGED <<accepted, settled>>

\* One batch settles many events with a single commit.
Settle(S) ==
    /\ S \subseteq handed
    /\ settled' = settled \cup S
    /\ UNCHANGED <<accepted, handed>>

SpecNext ==
    \/ \E e \in Event : Accept(e) \/ Hand(e)
    \/ \E S \in SUBSET Event : Settle(S)

AtLeastOnce == SpecInit /\ [][SpecNext]_specVars
=============================================================================
