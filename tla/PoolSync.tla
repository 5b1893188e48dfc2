------------------------------ MODULE PoolSync ------------------------------
(***************************************************************************)
(* One trust pool on several nodes: cometnet/pools.py (PoolStore) and the  *)
(* pool operations and handlers of cometnet/manager.py.                    *)
(*                                                                         *)
(* Every node keeps the manifest as an object that its coroutines share:   *)
(* administrators change it in place and await its signature, handlers     *)
(* await the check of what they received and then replace it.  So objects  *)
(* have an identity here: obj[n][s] is the object in slot s of node n, and *)
(* coroutines refer to slots.  A connection delivers in order and is       *)
(* handled by one receive loop; what it carries is lost when it is cut.    *)
(* Files are written after the memory they hold was changed and are not    *)
(* modelled; neither are the addresses of peers, names and statistics.     *)
(***************************************************************************)
EXTENDS Integers, Sequences, FiniteSets

CONSTANTS
    PoolNode,
    Creator,        \* the node that created the pool, and its one invite
    FirstRoles,     \* the roles in the manifest that all members start with
    MaxUses,        \* max_uses of the invite
    Acts,           \* which operations of the API are called
    MaxVersion,     \* bound: no operation changes a manifest beyond it
    MaxInbox,       \* bound: messages on their way in one direction
    MaxCalls        \* bound: calls of the API and connections that are cut

None == "none"
Role == {None, "member", "admin", "creator"}
Slot == 1..3        \* bound: manifest objects of a node in use at a time

ASSUME PoolAssumption ==
    /\ IsFiniteSet(PoolNode) /\ Creator \in PoolNode
    /\ \A r \in FirstRoles : r \in [PoolNode -> Role] /\ r[Creator] = "creator"
    /\ MaxUses \in Nat /\ MaxVersion \in Nat /\ MaxInbox \in Nat
    /\ MaxCalls \in Nat
    /\ Acts \subseteq {"add", "remove", "role", "leave", "delete", "join"}

VARIABLES
    obj,            \* the manifest objects of each node
    man,            \* _manifests: the slot of the stored one; 0: none
    mship,          \* _memberships: is the node a member of the pool?
    invite,         \* the invite's uses, and whether it is still open
    link,           \* the pairs that are connected
    chan,           \* chan[m][n]: messages on their way from m to n
    pend,           \* pend[n][m]: what n's receive loop for m awaits
    op,             \* the operation under way at each node
    calls,          \* API calls and cuts so far, for the bound
    admitted,       \* history: <<node, role>> that someone entitled granted
    joined,         \* history: nodes that the invite admitted, in order
    blamed          \* history: nodes whose message was held against them

poolVars == <<obj, man, mship, invite, link, chan, pend, op, calls, admitted,
              joined, blamed>>

----------------------------------------------------------------------------
\* PoolManifest

NoContent == [ver |-> 0, role |-> [n \in PoolNode |-> None], by |-> Creator]
NoManifest ==
    [ver |-> 0, role |-> [n \in PoolNode |-> None], by |-> Creator,
     sig |-> [n \in PoolNode |-> NoContent]]

\* to_signable_bytes(): whose act made it stands for its times and added_by.
ContentOf(m) == [ver |-> m.ver, role |-> m.role, by |-> m.by]

IsAdmin(m, n) == m.role[n] \in {"admin", "creator"}
IsMember(m, n) == m.role[n] # None
Signed(m, n, content) == [m EXCEPT !.sig[n] = content]

\* validate_manifest()
ValidManifest(m) ==
    \E n \in PoolNode : IsAdmin(m, n) /\ m.sig[n] = ContentOf(m)

\* A change of the manifest by somebody.
WithRole(m, n, role, by) ==
    [m EXCEPT !.ver = @ + 1, !.role[n] = role, !.by = by]

FirstManifest(role) ==
    LET content == [ver |-> 1, role |-> role, by |-> Creator]
    IN  [ver |-> 1, role |-> role, by |-> Creator,
         sig |-> [n \in PoolNode |-> IF n = Creator THEN content ELSE NoContent]]

----------------------------------------------------------------------------
\* Objects, connections and coroutines

Idle == [kind |-> "idle"]

StoredAt(n) == obj[n][man[n]]
Listed(n) == man[n] # 0 /\ IsMember(StoredAt(n), n)

Refs(rec) == IF "at" \in DOMAIN rec THEN {rec.at} ELSE {}
SlotsOf(n, m, p, o) == {m} \cup Refs(o) \cup UNION {Refs(p[k]) : k \in PoolNode}
FreeSlots(n) == Slot \ SlotsOf(n, man[n], pend[n], op[n])
NextSlot(n) == CHOOSE s \in FreeSlots(n) : \A t \in FreeSlots(n) : s <= t

\* The objects of n after a step that leaves them as in contents; those that
\* nothing refers to any more are gone.
Objects(n, contents) ==
    obj' = [obj EXCEPT ![n] = [s \in Slot |->
               IF s \in SlotsOf(n, man'[n], pend'[n], op'[n])
               THEN contents[s] ELSE NoManifest]]

Peers(n) == {m \in PoolNode : {n, m} \in link}

\* send_to_peer() and broadcast(), to those of the targets that are connected.
Sent(ch, n, targets, msg) ==
    [ch EXCEPT ![n] = [m \in PoolNode |-> IF m \in targets \cap Peers(n)
                                      THEN Append(@[m], msg) ELSE @[m]]]
Room(ch) == \A m, n \in PoolNode : Len(ch[m][n]) <= MaxInbox

ManifestMessage(m) == [type |-> "manifest", m |-> m]

InitWith(role) ==
    LET members == {n \in PoolNode : role[n] # None} IN
    /\ obj = [n \in PoolNode |-> [s \in Slot |->
                 IF s = 1 /\ n \in members THEN FirstManifest(role)
                 ELSE NoManifest]]
    /\ man = [n \in PoolNode |-> IF n \in members THEN 1 ELSE 0]
    /\ mship = [n \in PoolNode |-> n \in members]
    /\ link = {{m, n} : m, n \in members} \ {{n} : n \in PoolNode}
    /\ admitted = {<<n, role[n]>> : n \in members}

PoolInit ==
    /\ \E role \in FirstRoles : InitWith(role)
    /\ invite = [uses |-> 0, open |-> TRUE]
    /\ chan = [m \in PoolNode |-> [n \in PoolNode |-> <<>>]]
    /\ pend = [n \in PoolNode |-> [m \in PoolNode |-> Idle]]
    /\ op = [n \in PoolNode |-> Idle]
    /\ calls = 0
    /\ joined = <<>>
    /\ blamed = {}

----------------------------------------------------------------------------
\* What one receive loop, or one call of the API, goes on to do.
Called == calls < MaxCalls /\ calls' = calls + 1
Awaits(n, m, rec) == pend' = [pend EXCEPT ![n][m] = rec]
Does(n, rec) == op' = [op EXCEPT ![n] = rec]

\* The stored manifest of n is replaced by the object in slot s with content m.
Install(n, s, m) ==
    /\ man' = [man EXCEPT ![n] = s]
    /\ Objects(n, [obj[n] EXCEPT ![s] = m])

\* delete_pool(), and what is dropped of a pool the node was removed from.
DropPool(n) ==
    /\ man' = [man EXCEPT ![n] = 0]
    /\ mship' = [mship EXCEPT ![n] = FALSE]
    /\ invite' = [invite EXCEPT !.open = @ /\ n # Creator]
    /\ Objects(n, obj[n])

\* ---- add_member(), remove_member(), update_member_role()

\* Mutant of MayChange: members may do it, too.
MayChangeFreely(n, k, role) ==
    /\ Listed(n)
    /\ StoredAt(n).role[k] # "creator"
    /\ IF ~IsMember(StoredAt(n), k)
       THEN "add" \in Acts /\ role # None
       ELSE IF role = None THEN "remove" \in Acts ELSE "role" \in Acts

\* Only an admin, and never on a creator.  A member can be added with a role, and
\* any role be given, that of a creator included.
MayChange(n, k, role) ==
    /\ IsAdmin(StoredAt(n), n)
    /\ StoredAt(n).role[k] # "creator"
    /\ IF ~IsMember(StoredAt(n), k)
       THEN "add" \in Acts /\ role # None
       ELSE IF role = None THEN "remove" \in Acts ELSE "role" \in Acts

\* What somebody may grant.
Granted(n, k, role) == IF IsAdmin(StoredAt(n), n) THEN {<<k, role>>} ELSE {}

\* The object is changed.  An admin, as it is listed from now on, signs the
\* bytes of this moment and awaits the signature; who has removed or demoted
\* himself stores it unsigned.
Change(n, k, role) ==
    LET m == WithRole(StoredAt(n), k, role, n) IN
    /\ man[n] # 0 /\ op[n] = Idle /\ Called /\ StoredAt(n).ver < MaxVersion
    /\ MayChange(n, k, role)
    /\ Does(n, IF IsAdmin(m, n)
               THEN [kind |-> "sign", at |-> man[n], content |-> ContentOf(m)]
               ELSE [kind |-> "saved"])
    /\ admitted' = admitted \cup Granted(n, k, role)
    /\ UNCHANGED <<man, mship, invite, link, chan, pend, joined, blamed>>
    /\ Objects(n, [obj[n] EXCEPT ![man[n]] = m])

\* The signature is there: the object is stored, whatever is stored by now,
\* and broadcast.
Finish(n) ==
    LET m == Signed(obj[n][op[n].at], n, op[n].content) IN
    /\ op[n].kind = "sign"
    /\ Does(n, Idle)
    /\ chan' = Sent(chan, n, PoolNode, ManifestMessage(m)) /\ Room(chan')
    /\ UNCHANGED <<mship, invite, link, pend, calls, admitted, joined, blamed>>
    /\ Install(n, op[n].at, m)

\* The same after a change that was not signed.
Announce(n) ==
    /\ op[n].kind = "saved" /\ Does(n, Idle)
    /\ chan' = IF man[n] = 0 THEN chan
               ELSE Sent(chan, n, PoolNode, ManifestMessage(StoredAt(n)))
    /\ Room(chan')
    /\ UNCHANGED <<obj, man, mship, invite, link, pend, calls, admitted, joined,
                   blamed>>

\* ---- leave_pool(): the departure is broadcast, ...
Leave(n) ==
    /\ "leave" \in Acts /\ man[n] # 0 /\ op[n] = Idle /\ Called
    /\ StoredAt(n).role[n] \in {"member", "admin"}
    /\ StoredAt(n).ver < MaxVersion
    /\ Does(n, [kind |-> "leave"])
    /\ chan' = Sent(chan, n, PoolNode, [type |-> "leave", key |-> n])
    /\ Room(chan')
    /\ UNCHANGED <<obj, man, mship, invite, link, pend, admitted,
                   joined, blamed>>

\* ... the membership is given up if the node is still listed, ...
Forget(n) ==
    /\ op[n].kind = "leave"
    /\ IF man[n] # 0 /\ StoredAt(n).role[n] \in {"member", "admin"}
       THEN Does(n, [kind |-> "left"]) /\ mship' = [mship EXCEPT ![n] = FALSE]
       ELSE Does(n, Idle) /\ UNCHANGED mship
    /\ UNCHANGED <<obj, man, invite, link, chan, pend, calls, admitted, joined,
                   blamed>>

\* ... and the manifest that is stored by then is dropped.
Drop(n) ==
    /\ op[n].kind = "left" /\ Does(n, Idle)
    /\ man' = [man EXCEPT ![n] = 0]
    /\ UNCHANGED <<mship, invite, link, chan, pend, calls, admitted, joined,
                   blamed>>
    /\ Objects(n, obj[n])

\* ---- delete_pool() of the creator, and its broadcast
Delete(n) ==
    /\ "delete" \in Acts /\ man[n] # 0 /\ op[n] = Idle /\ Called
    /\ StoredAt(n).role[n] = "creator"
    /\ Does(n, [kind |-> "deleted"])
    /\ UNCHANGED <<link, chan, pend, admitted, joined, blamed>>
    /\ DropPool(n)

Deleted(n) ==
    /\ op[n].kind = "deleted" /\ Does(n, Idle)
    /\ chan' = Sent(chan, n, PoolNode, [type |-> "delete", key |-> n])
    /\ Room(chan')
    /\ UNCHANGED <<obj, man, mship, invite, link, pend, calls, admitted,
                   joined, blamed>>

\* ---- join_pool_with_invite(): a request to the node of the invite, ...
Join(n) ==
    /\ "join" \in Acts /\ op[n] = Idle /\ Called
    /\ ~Listed(n)
    /\ Creator \in Peers(n)
    /\ Does(n, [kind |-> "joining"])
    /\ chan' = Sent(chan, n, {Creator}, [type |-> "join"]) /\ Room(chan')
    /\ UNCHANGED <<obj, man, mship, invite, link, pend, admitted,
                   joined, blamed>>

\* ... and two seconds later, a look at what came.
Joined(n) ==
    /\ op[n].kind = "joining" /\ Does(n, Idle)
    /\ mship' = [mship EXCEPT ![n] =
                    @ \/ Listed(n)]
    /\ UNCHANGED <<obj, man, invite, link, chan, pend, calls, admitted, joined,
                   blamed>>

\* The invite expires or is deleted.
CloseInvite ==
    /\ invite.open /\ "join" \in Acts
    /\ invite' = [invite EXCEPT !.open = FALSE]
    /\ UNCHANGED <<obj, man, mship, link, chan, pend, op, calls, admitted,
                   joined, blamed>>

----------------------------------------------------------------------------
\* Connections.  The side that accepted one sends its manifest if it is a
\* member; the other side does so when it has reconnected to pool peers.

Syncs(ch, n, m) ==
    IF mship[n] /\ man[n] # 0
    THEN [ch EXCEPT ![n][m] = Append(@, ManifestMessage(StoredAt(n)))] ELSE ch

Connect(m, n, both) ==
    /\ m # n /\ {m, n} \notin link
    /\ link' = link \cup {{m, n}}
    /\ chan' = LET accepted == Syncs(chan, n, m)
               IN  IF both THEN Syncs(accepted, m, n) ELSE accepted
    /\ Room(chan')
    /\ UNCHANGED <<obj, man, mship, invite, pend, op, calls, admitted, joined,
                   blamed>>

Cut(m, n) ==
    /\ {m, n} \in link /\ Called
    /\ link' = link \ {{m, n}}
    /\ chan' = [chan EXCEPT ![m][n] = <<>>, ![n][m] = <<>>]
    /\ UNCHANGED <<obj, man, mship, invite, pend, op, admitted, joined, blamed>>

----------------------------------------------------------------------------
\* The handlers: n takes the next message from m.

Head1(m, n) == chan[m][n][1]
Arrives(m, n, type) ==
    /\ pend[n][m] = Idle /\ chan[m][n] # <<>> /\ Head1(m, n).type = type
Taken(m, n) == [chan EXCEPT ![m][n] = Tail(@)]

\* _handle_pool_manifest(): an older one is answered with the own; a newer one
\* is checked, which is awaited.
TakeManifest(m, n) ==
    LET new == Head1(m, n).m IN
    /\ Arrives(m, n, "manifest")
    /\ IF man[n] # 0 /\ StoredAt(n).ver >= new.ver
       THEN /\ chan' = IF StoredAt(n).ver = new.ver THEN Taken(m, n)
                       ELSE Sent(Taken(m, n), n, {m}, ManifestMessage(StoredAt(n)))
            /\ UNCHANGED pend
       ELSE /\ chan' = Taken(m, n)
            /\ IF ValidManifest(new)
               THEN Awaits(n, m, [kind |-> "store", m |-> new])
               ELSE UNCHANGED pend
    /\ Room(chan')
    /\ UNCHANGED <<obj, man, mship, invite, link, op, calls, admitted, joined,
                   blamed>>

\* It was valid: it is stored, whatever is stored by now.  Who was a member
\* and is not listed drops all of the pool.
StoreManifest(m, n) ==
    LET new == pend[n][m].m IN
    /\ pend[n][m].kind = "store" /\ Awaits(n, m, Idle)
    /\ FreeSlots(n) # {}
    /\ UNCHANGED <<link, chan, op, calls, admitted, joined, blamed>>
    /\ IF mship[n] /\ ~IsMember(new, n)
       THEN DropPool(n)
       ELSE /\ mship' = [mship EXCEPT ![n] = IsMember(new, n)]
            /\ UNCHANGED invite
            /\ Install(n, NextSlot(n), new)

\* PoolMemberUpdate "add", sent on behalf of by; its time may fall into
\* another second than those in the manifest that was signed.
Update(key, by, sig, sameSecond) ==
    [type |-> "add", key |-> key, by |-> by, sig |-> sig, ok |-> sameSecond,
     from |-> Creator]

\* PoolInvite.is_valid()
InviteValid == invite.open /\ invite.uses < MaxUses

\* _handle_pool_join_request(), where the invite is: the object is changed, and the
\* saving of the invite is awaited, ...
TakeJoin(m, n) ==
    LET new == WithRole(StoredAt(n), m, "member", n) IN
    /\ Arrives(m, n, "join")
    /\ chan' = Taken(m, n)
    /\ UNCHANGED <<man, mship, link, op, calls, blamed>>
    /\ IF man[n] = 0 \/ ~InviteValid
       THEN UNCHANGED <<obj, invite, pend, admitted, joined>>
       ELSE IF IsMember(StoredAt(n), m)
       THEN /\ Awaits(n, m, [kind |-> "joined", at |-> man[n],
                             content |-> NoContent])
            /\ UNCHANGED <<obj, invite, admitted, joined>>
       ELSE /\ StoredAt(n).ver < MaxVersion
            /\ Awaits(n, m, [kind |-> "invited", at |-> man[n]])
            /\ invite' = [invite EXCEPT !.uses = @ + 1]
            /\ joined' = Append(joined, m)
            /\ admitted' = admitted \cup {<<m, "member">>}
            /\ Objects(n, [obj[n] EXCEPT ![man[n]] = new])

\* ... before the bytes of that moment are signed, which is awaited, too.
SignJoin(m, n) ==
    LET s == pend[n][m].at IN
    /\ pend[n][m].kind = "invited"
    /\ Awaits(n, m, [kind |-> "joined", at |-> s, content |-> ContentOf(obj[n][s])])
    /\ UNCHANGED <<obj, man, mship, invite, link, chan, op, calls, admitted, joined,
                   blamed>>

\* The manifest is signed and stored, sent to the new member, and the change
\* to all others.
AnswerJoin(m, n, sameSecond) ==
    LET s == pend[n][m].at
        new == IF pend[n][m].content = NoContent THEN obj[n][s]
               ELSE Signed(obj[n][s], n, pend[n][m].content)
    IN
    /\ pend[n][m].kind = "joined" /\ Awaits(n, m, Idle)
    /\ chan' = Sent(Sent(chan, n, {m}, ManifestMessage(new)), n, PoolNode \ {m},
                    Update(m, n, new.sig, sameSecond))
    /\ Room(chan')
    /\ UNCHANGED <<mship, invite, link, op, calls, admitted, joined, blamed>>
    /\ IF pend[n][m].content = NoContent
       THEN UNCHANGED man /\ Objects(n, obj[n])
       ELSE Install(n, s, new)

\* validate_message_security(): who sends a message is its sender; one that
\* was passed on is dropped and held against the peer that did it.
Foreign(m, n) == Head1(m, n).from # m

TakeForeign(m, n) ==
    /\ Arrives(m, n, "add") /\ Foreign(m, n)
    /\ chan' = Taken(m, n)
    /\ blamed' = blamed \cup {m}
    /\ UNCHANGED <<obj, man, mship, invite, link, pend, op, calls, admitted,
                   joined>>

\* _handle_pool_member_update(): the change is made to a copy; it counts if
\* one of the signatures that came with it is that of the result.
TakeUpdate(m, n) ==
    LET u == Head1(m, n)
        new == WithRole(StoredAt(n), u.key, "member", u.by)
        signed == u.ok /\ \E k \in PoolNode : u.sig[k] = ContentOf(new)
    IN
    /\ Arrives(m, n, "add") /\ ~Foreign(m, n)
    /\ chan' = Taken(m, n)
    /\ IF man[n] = 0 \/ ~IsAdmin(StoredAt(n), u.by) \/ IsMember(StoredAt(n), u.key)
       THEN UNCHANGED pend
       ELSE Awaits(n, m, IF signed
                         THEN [kind |-> "update", m |-> [new EXCEPT !.sig = u.sig],
                               msg |-> u]
                         ELSE [kind |-> "reply", at |-> man[n]])
    /\ UNCHANGED <<obj, man, mship, invite, link, op, calls, admitted, joined,
                   blamed>>

\* The member itself says that it leaves: the result keeps its signatures,
\* although they are not those of its content.
TakeLeave(m, n) ==
    LET u == Head1(m, n)
        new == WithRole(StoredAt(n), u.key, None, u.key)
    IN
    /\ Arrives(m, n, "leave")
    /\ chan' = Taken(m, n)
    /\ IF u.key # m THEN blamed' = blamed \cup {m} /\ UNCHANGED pend
       ELSE /\ UNCHANGED blamed
            /\ IF man[n] = 0 \/ ~IsMember(StoredAt(n), u.key) THEN UNCHANGED pend
               ELSE Awaits(n, m, [kind |-> "update", m |-> new, msg |-> u])
    /\ UNCHANGED <<obj, man, mship, invite, link, op, calls, admitted, joined>>

\* The copy becomes the manifest, whatever is stored by now, and the message
\* is passed on to the others.
StoreUpdate(m, n) ==
    /\ pend[n][m].kind = "update" /\ Awaits(n, m, Idle)
    /\ FreeSlots(n) # {}
    /\ chan' = Sent(chan, n, PoolNode \ {m}, pend[n][m].msg) /\ Room(chan')
    /\ UNCHANGED <<mship, invite, link, op, calls, admitted, joined, blamed>>
    /\ Install(n, NextSlot(n), pend[n][m].m)

\* The signature does not fit: the sender gets the own manifest and will
\* answer with its newer one.
ReplyUpdate(m, n) ==
    /\ pend[n][m].kind = "reply" /\ Awaits(n, m, Idle)
    /\ chan' = Sent(chan, n, {m}, ManifestMessage(obj[n][pend[n][m].at]))
    /\ Room(chan')
    /\ UNCHANGED <<man, mship, invite, link, op, calls, admitted, joined, blamed>>
    /\ Objects(n, obj[n])

\* _handle_pool_delete(): only of the creator, whoever sent it.
TakeDelete(m, n) ==
    /\ Arrives(m, n, "delete")
    /\ chan' = Taken(m, n)
    /\ UNCHANGED <<link, pend, op, calls, admitted, joined, blamed>>
    /\ IF man[n] # 0 /\ Head1(m, n).key = Creator THEN DropPool(n)
       ELSE UNCHANGED <<obj, man, mship, invite>>

----------------------------------------------------------------------------
PoolOperation(n) ==
    \/ \E k \in PoolNode, role \in Role : Change(n, k, role)
    \/ Finish(n) \/ Announce(n)
    \/ Leave(n) \/ Forget(n) \/ Drop(n)
    \/ Delete(n) \/ Deleted(n)
    \/ Join(n) \/ Joined(n)

PoolHandler(m, n) ==
    \/ TakeManifest(m, n) \/ StoreManifest(m, n)
    \/ TakeJoin(m, n) \/ SignJoin(m, n) \/ \E ok \in BOOLEAN : AnswerJoin(m, n, ok)
    \/ TakeForeign(m, n) \/ TakeUpdate(m, n) \/ TakeLeave(m, n)
    \/ StoreUpdate(m, n) \/ ReplyUpdate(m, n)
    \/ TakeDelete(m, n)

PoolNext ==
    \/ \E n \in PoolNode : PoolOperation(n)
    \/ \E m, n \in PoolNode : PoolHandler(m, n)
    \/ \E m, n \in PoolNode, both \in BOOLEAN : Connect(m, n, both)
    \/ \E m, n \in PoolNode : Cut(m, n)
    \/ CloseInvite

PoolSpec == PoolInit /\ [][PoolNext]_poolVars

----------------------------------------------------------------------------
\* Type invariant.
PoolTypeOK ==
    /\ \A n \in PoolNode, s \in Slot :
          /\ obj[n][s].ver \in Nat
          /\ obj[n][s].role \in [PoolNode -> Role]
    /\ man \in [PoolNode -> {0} \cup Slot]
    /\ mship \in [PoolNode -> BOOLEAN]
    /\ invite.uses \in 0..MaxUses /\ invite.open \in BOOLEAN
    /\ \A m, n \in PoolNode : Len(chan[m][n]) <= MaxInbox
    /\ calls \in 0..MaxCalls
    /\ admitted \subseteq PoolNode \X Role /\ blamed \subseteq PoolNode

Manifests == {StoredAt(n) : n \in {k \in PoolNode : man[k] # 0}}

\* Whoever a node lists with a role was given it by an admin or admitted by
\* the invite, whatever is overwritten, merged or answered late on the way.
RolesWereGranted ==
    \A m \in Manifests, n \in PoolNode :
        IsMember(m, n) => <<n, m.role[n]>> \in admitted

\* No manifest of any node loses the creator.
CreatorStays == \A m \in Manifests : m.role[Creator] = "creator"

\* The invite admits no more nodes than its maximum, however many join at a
\* time while manifests are signed, replaced and deleted.
InviteWithinUses == Len(joined) <= MaxUses

\* What holds of manifests and the invite in every state: roles come from admins
\* or the invite, which is not overused, and the creator stays.
PoolInv == PoolTypeOK /\ RolesWereGranted /\ CreatorStays /\ InviteWithinUses

Quiet ==
    /\ \A m, n \in PoolNode : pend[n][m] = Idle /\ chan[m][n] = <<>>
    /\ \A n \in PoolNode : op[n] = Idle
    /\ \A m, n \in PoolNode : m # n => {m, n} \in link

\* What docs/cometnet/cometnet.md and _sync_manifests_with_peers() promise:
\* when everything that was sent has been handled, members that are connected
\* have the same version of the manifest.
PoolsConverge ==
    Quiet => \A m, n \in PoolNode :
                mship[m] /\ mship[n] /\ man[m] # 0 /\ man[n] # 0 =>
                    StoredAt(m).ver = StoredAt(n).ver
=============================================================================
