------------------------------ MODULE PeerTrust ------------------------------
(***************************************************************************)
(* cometnet/reputation.py (ReputationStore) and cometnet/keystore.py       *)
(* (PublicKeyStore) of one node, with the announcements that change them   *)
(* (GossipEngine.handle_announce(), validate_message_security()) and their *)
(* part of the state file of cometnet/manager.py.                          *)
(*                                                                         *)
(* Each connection is handled by a receive loop, which awaits the check of *)
(* the message's signature, the database and the signatures of the         *)
(* torrents: the loops interleave there, with the daily cleanup, with      *)
(* handshakes, saves and restarts.  Two loops may be of one peer, when its *)
(* handshakes overlapped (PeerRegistry).  Blacklisting is never called.    *)
(***************************************************************************)
EXTENDS Sorting

CONSTANTS
    Peer,           \* node ids, of peers and of contributors
    Sender,         \* those of them that connect to this node
    Loop,           \* receive loops, each of whoever its connection is
    Initial, Highest,           \* COMETNET_REPUTATION_INITIAL, _MAX; _MIN is 0
    Untrusted,                  \* COMETNET_REPUTATION_THRESHOLD_UNTRUSTED
    ValidBonus, DayBonus, DayBonusMax,
    InvalidPenalty, SignaturePenalty,
    MaxKeys,        \* max_keys
    MaxAge,         \* max_age_days of both cleanups
    MaxDay,         \* bound: the days that pass
    MaxItems        \* bound: torrents of an announcement

ASSUME TrustAssumption ==
    /\ IsFiniteSet(Peer) /\ Sender \subseteq Peer
    /\ Initial \in 0..Highest /\ Untrusted \in 0..Highest /\ Highest \in Nat
    /\ ValidBonus \in Nat /\ DayBonus \in Nat /\ DayBonusMax \in Nat
    /\ InvalidPenalty \in Nat /\ SignaturePenalty \in Nat
    /\ MaxKeys \in Nat \ {0} /\ MaxAge \in Nat /\ MaxDay \in Nat /\ MaxItems \in Nat

VARIABLES
    day,
    rep,            \* _peers of the reputation store: a function on the known
    keys,           \* _keys of the key store: its entries, oldest first
    handling,       \* the message that each receive loop has in hand, and of whom
    disk            \* the state file

trustVars == <<day, rep, keys, handling, disk>>

Nothing == [stage |-> "none"]
NewPeer == [score |-> Initial, first |-> day, last |-> day]

TrustInit ==
    /\ day = 0
    /\ rep = <<>> /\ keys = <<>>
    /\ handling = [l \in Loop |-> Nothing]
    /\ disk = [rep |-> <<>>, keys |-> <<>>]

----------------------------------------------------------------------------
\* ReputationStore

GetOrCreate(r, p) ==
    [q \in DOMAIN r \cup {p} |-> IF q \in DOMAIN r THEN r[q] ELSE NewPeer]

Lesser(a, b) == IF a < b THEN a ELSE b
Greater(a, b) == IF a > b THEN a ELSE b

\* _adjust_reputation()
Adjusted(r, p, delta) ==
    [r EXCEPT ![p].score = Greater(0, Lesser(Highest, @ + delta))]

\* effective_reputation, is_acceptable()
Effective(rec) ==
    Lesser(rec.score + Lesser((day - rec.first) * DayBonus, DayBonusMax), Highest)

\* Mutant of Acceptable: the score does not count.
AcceptableAnyway(r, p) == p \in DOMAIN r \/ p \notin DOMAIN r

\* is_peer_acceptable(): whoever is new is.
Acceptable(r, p) == p \in DOMAIN r => Effective(r[p]) >= Untrusted

\* PublicKeyStore

NodesOf(ks) == {ks[i].node : i \in DOMAIN ks}
Without(ks, p) == Picked(ks, {i \in DOMAIN ks : ks[i].node # p})

\* Mutant of Touched: the entry keeps its place.
TouchedInPlace(ks, p) ==
    [i \in DOMAIN ks |-> IF ks[i].node = p THEN [ks[i] EXCEPT !.last = day] ELSE ks[i]]

\* update_seen() and move_to_end()
Touched(ks, p) ==
    IF p \in NodesOf(ks) THEN Append(Without(ks, p), [node |-> p, last |-> day]) ELSE ks

\* _evict_oldest(): a tenth of the keys, but at least one.
Evicted(ks) ==
    IF Len(ks) <= MaxKeys THEN ks
    ELSE SubSeq(ks, Greater(1, Len(ks) \div 10) + 1, Len(ks))

\* store_key()
StoreKey(ks, p) ==
    IF p \in NodesOf(ks) THEN Touched(ks, p)
    ELSE Evicted(Append(ks, [node |-> p, last |-> day]))

StoreKeys(ks, contributors) ==
    LET after[n \in 0..Len(contributors)] ==
            IF n = 0 THEN ks ELSE StoreKey(after[n - 1], contributors[n])
    IN  after[Len(contributors)]

----------------------------------------------------------------------------
Handles(l, rec) == handling' = [handling EXCEPT ![l] = rec]

\* A handshake stores the key of the peer.
Handshake(p) ==
    /\ keys' = StoreKey(keys, p)
    /\ UNCHANGED <<day, rep, handling, disk>>

\* handle_announce(): whoever is not acceptable is disconnected, ...
Reject(l, p) ==
    /\ handling[l] = Nothing /\ ~Acceptable(rep, p)
    /\ UNCHANGED trustVars

\* ... a message that is not of its sender costs reputation, ...
Mismatch(l, p) ==
    /\ handling[l] = Nothing /\ Acceptable(rep, p)
    /\ rep' = Adjusted(GetOrCreate(rep, p), p, -InvalidPenalty)
    /\ UNCHANGED <<day, keys, handling, disk>>

\* ... one that is too old is ignored, and of the others the signature is
\* checked if the key is there.
Check(l, p) ==
    /\ handling[l] = Nothing /\ Acceptable(rep, p)
    /\ Handles(l, [stage |-> "checking", from |-> p, keyed |-> p \in NodesOf(keys)])
    /\ rep' = GetOrCreate(rep, p)
    /\ keys' = Touched(keys, p)
    /\ UNCHANGED <<day, disk>>

BadSignature(l, p) ==
    /\ handling[l] = [stage |-> "checking", from |-> p, keyed |-> TRUE]
    /\ Handles(l, Nothing)
    /\ rep' = Adjusted(GetOrCreate(rep, p), p, -SignaturePenalty)
    /\ UNCHANGED <<day, keys, disk>>

\* The sender of a valid message has been seen; its object is kept from here
\* on, also when the store forgets it.
AcceptAnnounce(l, p) ==
    /\ handling[l].stage = "checking" /\ handling[l].from = p
    /\ Handles(l, [stage |-> "judging", from |-> p, kept |-> TRUE])
    /\ rep' = [GetOrCreate(rep, p) EXCEPT ![p].last = day]
    /\ UNCHANGED <<day, keys, disk>>

\* Its torrents: each that is malformed costs, and the signatures of the others
\* are awaited; ...
Screen(l, p, invalid) ==
    /\ handling[l].stage = "judging" /\ handling[l].from = p
    /\ Handles(l, [stage |-> "verifying", from |-> p, kept |-> handling[l].kept])
    /\ rep' = IF handling[l].kept THEN Adjusted(rep, p, -(invalid * InvalidPenalty))
                                ELSE rep
    /\ UNCHANGED <<day, keys, disk>>

\* ... the wrong ones cost, the contributors of the valid ones are remembered,
\* and the valid ones count, whatever the sender's score is by then.
Judge(l, p, invalid, contributors) ==
    /\ handling[l].stage = "verifying" /\ handling[l].from = p /\ Handles(l, Nothing)
    /\ rep' = IF ~handling[l].kept THEN rep
              ELSE Adjusted(Adjusted(rep, p, -(invalid * InvalidPenalty)), p,
                            Len(contributors) * ValidBonus)
    /\ keys' = StoreKeys(keys, contributors)
    /\ UNCHANGED <<day, disk>>

----------------------------------------------------------------------------
\* cleanup_old_peers() and cleanup_old_keys(), at least once a day.
Old(last) == last < day - MaxAge

TidyUp ==
    LET gone == {p \in DOMAIN rep : Old(rep[p].last)} IN
    /\ rep' = [p \in DOMAIN rep \ gone |-> rep[p]]
    /\ keys' = Picked(keys, {i \in DOMAIN keys : ~Old(keys[i].last)})
    /\ handling' = [l \in Loop |->
                       IF handling[l].stage \in {"judging", "verifying"} /\ handling[l].from \in gone
                       THEN [handling[l] EXCEPT !.kept = FALSE] ELSE handling[l]]
    /\ UNCHANGED <<day, disk>>

NextDay ==
    /\ day < MaxDay /\ day' = day + 1
    /\ UNCHANGED <<rep, keys, handling, disk>>

\* _save_state()
SaveTrust ==
    /\ disk' = [rep |-> rep, keys |-> keys]
    /\ UNCHANGED <<day, rep, keys, handling>>

\* from_dict(): sorted by the time that a key was seen, which is stable.
Reloaded(ks) ==
    LET earlier == {p \in (DOMAIN ks) \X (DOMAIN ks) :
                        \/ ks[p[1]].last < ks[p[2]].last
                        \/ ks[p[1]].last = ks[p[2]].last /\ p[1] < p[2]}
        order == InOrder(DOMAIN ks, earlier)
    IN  [i \in DOMAIN ks |-> ks[order[i]]]

\* A restart loads what was saved last; a file that was being written when the
\* process died is empty.
Reboot(torn) ==
    LET file == IF torn THEN [rep |-> <<>>, keys |-> <<>>] ELSE disk IN
    /\ rep' = file.rep /\ keys' = Reloaded(file.keys) /\ disk' = file
    /\ handling' = [l \in Loop |-> Nothing]
    /\ UNCHANGED day

TrustNext ==
    \/ \E p \in Sender : Handshake(p)
    \/ \E l \in Loop, p \in Sender :
          \/ Reject(l, p) \/ Mismatch(l, p) \/ Check(l, p)
          \/ BadSignature(l, p) \/ AcceptAnnounce(l, p)
          \/ \E invalid \in 0..MaxItems : Screen(l, p, invalid)
          \/ \E invalid \in 0..MaxItems, cs \in UNION {[1..n -> Peer] : n \in 0..MaxItems} :
                Judge(l, p, invalid, cs)
    \/ TidyUp \/ NextDay \/ SaveTrust
    \/ \E torn \in BOOLEAN : Reboot(torn)

TrustSpec == TrustInit /\ [][TrustNext]_trustVars

----------------------------------------------------------------------------
Message ==
    {Nothing} \cup [stage : {"checking"}, from : Sender, keyed : BOOLEAN]
              \cup [stage : {"judging", "verifying"}, from : Sender, kept : BOOLEAN]

\* Type invariant.
TrustTypeOK ==
    /\ day \in 0..MaxDay /\ handling \in [Loop -> Message]
    /\ DOMAIN rep \subseteq Peer
    /\ \A p \in DOMAIN rep : /\ rep[p].score \in 0..Highest
                             /\ rep[p].first <= rep[p].last /\ rep[p].last <= day
    /\ Len(keys) <= MaxKeys /\ Cardinality(NodesOf(keys)) = Len(keys)

\* The order of the key store is that of the times its keys were last seen,
\* over touches, evictions, cleanups and restarts: what is evicted was seen no
\* later than what stays.
KeysByAge == \A i, j \in DOMAIN keys : i < j => keys[i].last <= keys[j].last

InHand(p) == {l \in Loop : handling[l] # Nothing /\ handling[l].from = p}

\* Of a peer below the threshold no other message is taken in hand: it rises
\* only as one ends that a loop of it had in hand when it fell, and when those
\* have ended not at all, until it is forgotten or reset by a restart.
BanHolds ==
    [][\A p \in DOMAIN rep :
          Effective(rep[p]) < Untrusted =>
             \/ /\ p \in DOMAIN rep' /\ InHand(p)' \subseteq InHand(p)
                /\ rep'[p].score <= rep[p].score \/ InHand(p)' # InHand(p)
             \/ TidyUp \/ \E torn \in BOOLEAN : Reboot(torn)]_trustVars

\* What holds of scores and keys in every state: keys are kept by age.
TrustInv == TrustTypeOK /\ KeysByAge
=============================================================================
