-------------------------------- MODULE Ratchet --------------------------------
(***************************************************************************)
(* The two chains of one direction of a session, the cache of skipped keys *)
(* and its snapshot on disk.  The network loses, reorders and repeats: any *)
(* frame that was sent may come at any later time, any number of times.    *)
(*                                                                         *)
(* A chain key is the number of derivations it is away from the root, a    *)
(* message key the number of the chain key it comes from; a frame opens    *)
(* when the key found for its counter is the key that sealed it.  A frame  *)
(* whose tag does not agree, a consumed one and one too far ahead leave    *)
(* nothing behind (peek is pure), so they are no actions here.             *)
(*                                                                         *)
(* Group chains (SenderChain, SenderInbox) turn the same way under other   *)
(* labels.                                                                 *)
(***************************************************************************)
EXTENDS Naturals, FiniteSets

CONSTANTS
    Limit,      \* MAX_SKIPPED_PER_SESSION
    Jump,       \* MAX_COUNTER_JUMP
    TTL,        \* SKIPPED_TTL_MS
    MaxSent,    \* bound: frames
    MaxNow,     \* bound: time
    MaxCrashes  \* bound: how often the receiver dies

ASSUME RatchetAssumption ==
    /\ Limit \in Nat /\ Jump \in Nat /\ TTL \in Nat \ {0}
    /\ Jump <= Limit
    /\ MaxSent \in Nat /\ MaxNow \in Nat /\ MaxCrashes \in Nat

Counters == 0..(MaxSent - 1)

VARIABLES
    sealed,   \* SendChain: counter of the next frame, its chain key with it
    chain,    \* RecvChain in memory
    disk,     \* RecvChain as persist_session wrote it last
    step,     \* how far the handler of the present frame has come
    now,
    handed,   \* history: counters whose frames went on to be read
    burned,   \* history: counters whose handler died after the snapshot
    crashes

ratchetVars == <<sealed, chain, disk, step, now, handed, burned, crashes>>

AtRest == [at |-> "idle", counter |-> 0]

\* RecvChain::new; "gone" is history: positions whose keys a limit took.
NewChain == [ck |-> 0, next |-> 0, keys |-> <<>>, gone |-> {}]

RatchetInit ==
    /\ sealed = 0 /\ chain = NewChain /\ disk = NewChain
    /\ step = AtRest /\ now = 0
    /\ handed = {} /\ burned = {} /\ crashes = 0

-----------------------------------------------------------------------------
(* RecvChain.                                                               *)

Skipped(r) == DOMAIN r.keys

\* peek refuses with MessageKeyConsumed, or with CounterTooFarAhead.
Consumed(r, c) == c < r.next /\ c \notin Skipped(r)
TooFar(r, c)   == c > r.next + Jump

\* The key peek finds for a position it does not refuse.
Key(r, c) == IF c \in Skipped(r) THEN r.keys[c].key ELSE r.ck + (c - r.next)

Opens(r, c) == ~Consumed(r, c) /\ ~TooFar(r, c) /\ Key(r, c) = c

\* enforce_limits: keys past their time go, then the lowest ones over the limit.
Survivors(ks) ==
    LET fresh == {c \in DOMAIN ks : now - ks[c].at < TTL}
    IN  {c \in fresh : Cardinality({d \in fresh : d > c}) < Limit}

\* The keys of the positions a frame jumped over.
GapKeys(r, c) == [n \in r.next..(c - 1) |-> [key |-> r.ck + (n - r.next), at |-> now]]

\* commit of a position whose key was skipped.
TakenSkipped(r, c) == [r EXCEPT !.keys = [n \in Skipped(r) \ {c} |-> r.keys[n]]]

\* Fault: the chain key of the opened position is not derived away.
AdvancedShort(r, c) ==
    LET all == [n \in Skipped(r) \cup r.next..(c - 1) |->
                   IF n \in Skipped(r) THEN r.keys[n] ELSE GapKeys(r, c)[n]]
        stay == Survivors(all)
    IN  [ck |-> r.ck + (c - r.next), next |-> c + 1,
         keys |-> [n \in stay |-> all[n]], gone |-> r.gone \cup (DOMAIN all \ stay)]

\* commit of a position ahead: the gap is derived and cached, the key of the
\* position itself is not kept.
Advanced(r, c) ==
    LET all == [n \in Skipped(r) \cup r.next..(c - 1) |->
                   IF n \in Skipped(r) THEN r.keys[n] ELSE GapKeys(r, c)[n]]
        stay == Survivors(all)
    IN  [ck |-> r.ck + (c - r.next) + 1, next |-> c + 1,
         keys |-> [n \in stay |-> all[n]], gone |-> r.gone \cup (DOMAIN all \ stay)]

Committed(r, c) == IF c \in Skipped(r) THEN TakenSkipped(r, c) ELSE Advanced(r, c)

-----------------------------------------------------------------------------
(* Actions.                                                                 *)

\* SendChain::next.
Send ==
    /\ sealed < MaxSent
    /\ sealed' = sealed + 1
    /\ UNCHANGED <<chain, disk, step, now, handed, burned, crashes>>

\* on_data: peek, the tag, commit.
Open(c) ==
    /\ step.at = "idle" /\ c < sealed /\ Opens(chain, c)
    /\ chain' = Committed(chain, c)
    /\ step' = [at |-> "committed", counter |-> c]
    /\ UNCHANGED <<sealed, disk, now, handed, burned, crashes>>

\* Fault: the frame is read before the snapshot is written.
SaveLater ==
    /\ step.at = "committed"
    /\ step' = [step EXCEPT !.at = "saved"]
    /\ UNCHANGED <<sealed, chain, disk, now, handed, burned, crashes>>

\* persist_session.
Save ==
    /\ step.at = "committed"
    /\ disk' = chain
    /\ step' = [step EXCEPT !.at = "saved"]
    /\ UNCHANGED <<sealed, chain, now, handed, burned, crashes>>

\* The envelope goes on to admit.
Hand ==
    /\ step.at = "saved"
    /\ handed' = handed \cup {step.counter}
    /\ step' = AtRest
    /\ UNCHANGED <<sealed, chain, disk, now, burned, crashes>>

\* The process dies and restore reads the snapshot.
Die ==
    /\ crashes < MaxCrashes /\ crashes' = crashes + 1
    /\ chain' = disk /\ step' = AtRest
    /\ burned' = IF step.at = "saved" THEN burned \cup {step.counter} ELSE burned
    /\ UNCHANGED <<sealed, disk, now, handed>>

Tick ==
    /\ now < MaxNow /\ now' = now + 1
    /\ UNCHANGED <<sealed, chain, disk, step, handed, burned, crashes>>

RatchetNext ==
    \/ Send
    \/ \E c \in Counters : Open(c)
    \/ Save \/ Hand
    \/ Die
    \/ Tick

RatchetSpec == RatchetInit /\ [][RatchetNext]_ratchetVars

-----------------------------------------------------------------------------
(* Properties.                                                              *)

ChainOK(r) ==
    /\ DOMAIN r = {"ck", "next", "keys", "gone"}
    /\ r.ck \in Nat /\ r.next \in 0..MaxSent /\ r.gone \subseteq Counters
    /\ Skipped(r) \subseteq Counters
    /\ r.keys \in [Skipped(r) -> [key : Nat, at : 0..MaxNow]]

RatchetTypeOK ==
    /\ sealed \in 0..MaxSent /\ now \in 0..MaxNow /\ crashes \in 0..MaxCrashes
    /\ ChainOK(chain) /\ ChainOK(disk)
    /\ step \in [at : {"idle", "committed", "saved"}, counter : Counters \cup {0}]
    /\ handed \subseteq Counters /\ burned \subseteq Counters

\* A frame that was read is never read again, though it come again before or
\* after the process dies at any point of the handler.
HandedOnce == step.at = "saved" => step.counter \notin handed

\* Forward secrecy: no key of a frame that was read can be had from memory or
\* from disk: the cache does not hold it, and the chain key, which only derives
\* keys from its own position on, stands beyond it.
KeysErased ==
    \A c \in handed : \A r \in {chain, disk} :
        r.ck > c /\ Consumed(r, c) /\ \A n \in Skipped(r) : r.keys[n].key # c

\* A frame that has not come yet still opens: unless a limit took its key, the
\* process died on it, or it is further ahead than one jump.
StillOpens ==
    step.at = "idle" =>
        \A c \in 0..(sealed - 1) :
            c \in handed \cup burned \cup chain.gone \/ TooFar(chain, c) \/ Opens(chain, c)

=============================================================================
