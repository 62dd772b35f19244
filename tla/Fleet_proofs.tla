--------------------------- MODULE Fleet_proofs ---------------------------
(***************************************************************************)
(* What holds of the machines around a running chain for every fleet,      *)
(* every number of releases, wallets, invocations, chains and upgrades:    *)
(* one section for each module, with its inductive invariant first.        *)
(***************************************************************************)
EXTENDS NodeRollout, ChainUpgrades, WalletDoor, ConsoleDeploy, Generations, WellFoundedInduction, TLAPS

-----------------------------------------------------------------------------
\* The door of the console.  An invitation in the store is one that was issued, the only one of its
\* nonce, and no session was opened with it yet; every session's nonce was issued.
LoginType == [nonce : Nat, signer : Wallets]

DoorInv ==
  /\ issued \in Nat /\ logins \in Seq(LoginType)
  /\ \A i \in invites : i.nonce \in 1 .. issued
  /\ \A i, j \in invites : i.nonce = j.nonce => i = j
  /\ \A k \in DOMAIN logins : logins[k].nonce \in 1 .. issued
  /\ \A i \in invites, k \in DOMAIN logins : logins[k].nonce # i.nonce
  /\ OneSessionPerInvite

\* What only takes invitations away and leaves the sessions ever opened as they are keeps DoorInv.
LEMMA FewerInvites ==
  ASSUME DoorInv, invites' \subseteq invites, issued' = issued, logins' = logins
  PROVE  DoorInv'
BY DEF DoorInv, OneSessionPerInvite

\* moiKy gives the new invitation a nonce no invitation or session has.
LEMMA InviteKeeps ==
  ASSUME DoorInv, NEW w \in Wallets, AskInvite(w)
  PROVE  DoorInv'
<1>1. logins' = logins
  BY DEF AskInvite
<1>2. CASE Cardinality(Live(invites)) >= MaxPending
  BY <1>1, <1>2, FewerInvites DEF AskInvite, Live
<1>3. CASE ~(Cardinality(Live(invites)) >= MaxPending)
  <2> DEFINE new == [nonce |-> issued + 1, address |-> w, until |-> clock + TtlNonce]
  <2>1. invites' = Live(invites) \cup {new} /\ issued' = issued + 1
    BY <1>3 DEF AskInvite
  <2>2. new.nonce = issued + 1
    OBVIOUS
  <2>3. invites' \subseteq invites \cup {new}
    BY <2>1 DEF Live
  <2> HIDE DEF new
  <2>4. issued' \in Nat /\ logins' \in Seq(LoginType) /\ OneSessionPerInvite'
    BY <1>1, <2>1 DEF DoorInv, OneSessionPerInvite
  <2>5. \A i \in invites' : i.nonce \in 1 .. issued'
    BY <2>1, <2>2, <2>3 DEF DoorInv
  <2>6. \A i, j \in invites' : i.nonce = j.nonce => i = j
    BY <2>2, <2>3 DEF DoorInv
  <2>7. \A k \in DOMAIN logins' : logins'[k].nonce \in 1 .. issued'
    BY <1>1, <2>1 DEF DoorInv
  <2>8. \A i \in invites', k \in DOMAIN logins' : logins'[k].nonce # i.nonce
    BY <1>1, <2>2, <2>3 DEF DoorInv
  <2> QED
    BY <2>4, <2>5, <2>6, <2>7, <2>8 DEF DoorInv
<1> QED
  BY <1>2, <1>3

\* xacThuc spends the invitation it opens a session with.
LEMMA LoginKeeps ==
  ASSUME DoorInv, NEW w \in Wallets, NEW i \in invites, Login(i, w)
  PROVE  DoorInv'
<1>1. issued' = issued /\ invites' = invites \ {i}
  BY DEF Login, Spent
<1>2. \/ logins' = logins
      \/ logins' = Append(logins, [nonce |-> i.nonce, signer |-> w])
  BY DEF Login
<1>3. CASE logins' = logins
  BY <1>1, <1>3, FewerInvites
<1>4. CASE logins' = Append(logins, [nonce |-> i.nonce, signer |-> w])
  <2> DEFINE new == [nonce |-> i.nonce, signer |-> w]
  <2>1. new \in LoginType /\ new.nonce = i.nonce /\ i.nonce \in 1 .. issued
    BY DEF DoorInv, LoginType
  <2>2. /\ logins \in Seq(LoginType) /\ logins' = Append(logins, new)
        /\ \A k \in DOMAIN logins : logins[k].nonce # i.nonce
    BY <1>4 DEF DoorInv
  <2> HIDE DEF new
  <2>3. /\ logins' \in Seq(LoginType)
        /\ DOMAIN logins' = DOMAIN logins \cup {Len(logins) + 1}
        /\ \A k \in DOMAIN logins : logins'[k] = logins[k]
        /\ logins'[Len(logins) + 1] = new
        /\ Len(logins) + 1 \notin DOMAIN logins
    BY <2>1, <2>2
  <2>4. \A k \in DOMAIN logins' : logins'[k].nonce \in 1 .. issued'
    BY <1>1, <2>1, <2>3 DEF DoorInv
  <2>5. \A j \in invites', k \in DOMAIN logins' : logins'[k].nonce # j.nonce
    <3> SUFFICES ASSUME NEW j \in invites', NEW k \in DOMAIN logins'
                 PROVE  logins'[k].nonce # j.nonce
      OBVIOUS
    <3>1. j \in invites /\ j.nonce # i.nonce
      BY <1>1 DEF DoorInv
    <3>2. CASE k \in DOMAIN logins
      BY <2>3, <3>1, <3>2 DEF DoorInv
    <3>3. CASE k = Len(logins) + 1
      BY <2>1, <2>3, <3>1, <3>3
    <3> QED
      BY <2>3, <3>2, <3>3
  <2>6. OneSessionPerInvite'
    <3> SUFFICES ASSUME NEW j \in DOMAIN logins', NEW k \in DOMAIN logins',
                        logins'[j].nonce = logins'[k].nonce
                 PROVE  j = k
      BY DEF OneSessionPerInvite
    <3>1. CASE j \in DOMAIN logins /\ k \in DOMAIN logins
      BY <2>3, <3>1 DEF DoorInv, OneSessionPerInvite
    <3>2. CASE j \in DOMAIN logins /\ k = Len(logins) + 1
      BY <2>1, <2>2, <2>3, <3>2
    <3>3. CASE j = Len(logins) + 1 /\ k \in DOMAIN logins
      BY <2>1, <2>2, <2>3, <3>3
    <3> QED
      BY <2>3, <3>1, <3>2, <3>3
  <2>7. /\ issued' \in Nat /\ \A j \in invites' : j.nonce \in 1 .. issued'
        /\ \A j, k \in invites' : j.nonce = k.nonce => j = k
    BY <1>1 DEF DoorInv
  <2> QED
    BY <2>3, <2>4, <2>5, <2>6, <2>7 DEF DoorInv
<1> QED
  BY <1>2, <1>3, <1>4

THEOREM DoorInvariance == DoorSpec => []DoorInv
<1>1. DoorInit => DoorInv
  BY DEF DoorInit, DoorInv, OneSessionPerInvite
<1>2. ASSUME DoorInv, [DoorNext]_doorVars
      PROVE  DoorInv'
  <2>1. CASE UNCHANGED doorVars
    BY <1>2, <2>1, FewerInvites DEF doorVars
  <2>2. CASE DoorTick \/ DoorRestart \/ SweepHits \/ SweepStores \/ RunRevoke
    <3>1. invites' \subseteq invites /\ issued' = issued /\ logins' = logins
      BY <2>2 DEF DoorTick, DoorRestart, SweepHits, SweepStores, RunRevoke, Live
    <3> QED
      BY <1>2, <3>1, FewerInvites
  <2>3. ASSUME NEW w \in Wallets, AskInvite(w)
        PROVE  DoorInv'
    BY <1>2, <2>3, InviteKeeps
  <2>4. ASSUME NEW w \in Wallets, CreateChain(w) \/ AskRevoke(w) \/ \E x \in Wallets : HandOver(w, x)
        PROVE  DoorInv'
    <3>1. invites' = invites /\ issued' = issued /\ logins' = logins
      BY <2>4 DEF CreateChain, AskRevoke, HandOver
    <3> QED
      BY <1>2, <3>1, FewerInvites
  <2>5. ASSUME NEW w \in Wallets, NEW i \in invites, Login(i, w)
        PROVE  DoorInv'
    BY <1>2, <2>5, LoginKeeps
  <2> QED
    BY <1>2, <2>1, <2>2, <2>3, <2>4, <2>5 DEF DoorNext
<1> QED
  BY <1>1, <1>2, PTL DEF DoorSpec

\* An invitation opens at most one session, for any stores, limits and lifetimes of nonces.
THEOREM OneLoginPerInvite == DoorSpec => []OneSessionPerInvite
<1>1. DoorInv => OneSessionPerInvite
  BY DEF DoorInv
<1> QED
  BY <1>1, DoorInvariance, PTL

-----------------------------------------------------------------------------
\* Every set of naturals has a least element, which is how an induction is done here.
LEMMA LeastNatural ==
  ASSUME NEW T \in SUBSET Nat, T # {}
  PROVE  \E x \in T : \A y \in T : x <= y
<1> DEFINE R == OpToRel(<, Nat)
<1>1. IsWellFoundedOn(R, Nat)
  BY NatLessThanWellFounded
<1>2. \A x, y \in Nat : x < y => <<x, y>> \in R
  BY DEF OpToRel
<1> HIDE DEF R
<1>3. \E x \in T : \A y \in T : ~(<<y, x>> \in R)
  BY <1>1, WFMin
<1>4. PICK x \in T : \A y \in T : ~(<<y, x>> \in R)
  BY <1>3
<1>5. ASSUME NEW y \in T PROVE x <= y
  <2>1. x \in Nat /\ y \in Nat
    OBVIOUS
  <2>2. ~(y < x)
    BY <1>2, <1>4, <2>1
  <2> QED
    BY <2>1, <2>2
<1> QED BY <1>5

\* A set of naturals that is bounded has the greatest element Max chooses.
LEMMA MaxOfBounded ==
  ASSUME NEW S \in SUBSET Nat, S # {}, NEW b \in Nat, \A y \in S : y <= b
  PROVE  Max(S) \in S /\ \A y \in S : Max(S) >= y
<1> DEFINE T == {b - y : y \in S}
<1>1. T \in SUBSET Nat /\ T # {}
  <2>1. ASSUME NEW y \in S PROVE b - y \in Nat
    <3>1. y \in Nat /\ y <= b
      OBVIOUS
    <3> QED
      BY <3>1
  <2> QED
    BY <2>1
<1>2. PICK t \in T : \A u \in T : t <= u
  <2> HIDE DEF T
  <2> QED
    BY <1>1, LeastNatural
<1>3. PICK x \in S : t = b - x
  OBVIOUS
<1>4. ASSUME NEW y \in S PROVE x >= y
  <2>1. b - x <= b - y
    BY <1>2, <1>3
  <2>2. x \in Nat /\ y \in Nat
    OBVIOUS
  <2> QED
    BY <2>1, <2>2
<1> QED
  BY <1>4 DEF Max

-----------------------------------------------------------------------------
\* The upgrades of a chain.  Every list is sorted and legal, and until the shortest lead after the last plan
\* is over, the list on disk, the one before it while it is rolled out, and the public node's agree on what
\* is past.
EntryType == [key : Keys, at : Nat, disable : BOOLEAN, admin : Owners]
Sorted(l) == \A i, j \in DOMAIN l : i < j => l[i].at <= l[j].at
IsList(l) == l \in Seq(EntryType) /\ Sorted(l) /\ Legal(l)

UpgradeInv ==
  /\ now \in Nat /\ head \in Nat /\ head <= now /\ planned \in Nat
  /\ recorded \in Owners /\ planning \subseteq Owners
  /\ \A t \in transfers : t.to \in Owners /\ t = [to |-> t.to, keys |-> t.keys]
  /\ IsList(list) /\ DOMAIN runs = 1 .. Carriers /\ \A v \in 1 .. Carriers : IsList(runs[v])
  /\ \A u \in Nat : u < planned + MinLead => Past(list, u) = Past(runs[Carriers], u)
  /\ rollingTo >= 0 => Len(list) > 0 /\ list[Len(list)].at >= planned + MinLead
  /\ rollingTo \in {Idle, Undoing} \cup 0 .. Carriers - 1

LEMMA TimesAreNatural == ASSUME NEW l \in Seq(EntryType) PROVE \A i \in DOMAIN l : l[i].at \in Nat
<1> SUFFICES ASSUME NEW i \in DOMAIN l PROVE l[i].at \in Nat
  OBVIOUS
<1>1. l[i] \in EntryType
  OBVIOUS
<1> QED
  BY <1>1 DEF EntryType

\* The entry an upgrade adds is not nearer than its lead.
LEMMA EntryIsAhead ==
  ASSUME UpgradeInv, NEW k \in Keys, NEW lead \in Nat, NEW w \in Owners
  PROVE  Entry(k, lead, w) \in EntryType /\ Entry(k, lead, w).at >= now + lead
<1> DEFINE times == {list[i].at : i \in DOMAIN list}
           same == {list[i].at : i \in {j \in DOMAIN list : list[j].key = k}}
           S == {now + lead} \cup times
<1>1. now + lead \in Nat /\ list \in Seq(EntryType) /\ Sorted(list)
  BY DEF UpgradeInv, IsList
<1>2. \A i \in DOMAIN list : list[i].at \in Nat
  BY <1>1, TimesAreNatural
<1>3. times \in SUBSET Nat /\ same \subseteq times
  BY <1>2
<1>4. \E b \in Nat : now + lead <= b /\ \A y \in times : y <= b
  <2>1. CASE list = <<>>
    <3>1. DOMAIN list = {}
      BY <2>1
    <3> QED
      BY <1>1, <3>1
  <2>2. CASE list # <<>>
    <3> DEFINE last == list[Len(list)].at
    <3>1. Len(list) \in DOMAIN list /\ Len(list) \in Nat /\ \A i \in DOMAIN list : i \in Nat /\ i <= Len(list)
      BY <1>1, <2>2
    <3>2. last \in Nat /\ \A i \in DOMAIN list : list[i].at <= last
      BY <1>1, <1>2, <3>1 DEF Sorted
    <3> HIDE DEF last
    <3>3. CASE now + lead <= last
      BY <3>2, <3>3
    <3>4. CASE ~(now + lead <= last)
      <4>1. \A y \in times : y <= now + lead
        BY <1>1, <1>2, <3>2, <3>4
      <4> QED
        BY <1>1, <4>1
    <3> QED
      BY <3>3, <3>4
  <2> QED
    BY <2>1, <2>2
<1>5. PICK b \in Nat : now + lead <= b /\ \A y \in times : y <= b
  BY <1>4
<1>6. Max(S) \in S /\ \A y \in S : Max(S) >= y
  <2>1. S \in SUBSET Nat /\ S # {} /\ \A y \in S : y <= b
    BY <1>1, <1>3, <1>5
  <2> HIDE DEF S
  <2> QED
    BY <2>1, MaxOfBounded
<1>7. ActivateAt(lead) \in Nat /\ ActivateAt(lead) >= now + lead
  BY <1>1, <1>3, <1>6 DEF ActivateAt
<1>8. same # {} => Max(same) \in Nat
  <2>1. same \in SUBSET Nat /\ \A y \in same : y <= b
    BY <1>3, <1>5
  <2> HIDE DEF same
  <2> QED
    BY <2>1, MaxOfBounded
<1> DEFINE t == IF same # {} /\ Max(same) >= ActivateAt(lead) THEN Max(same) + 1 ELSE ActivateAt(lead)
<1>9. t \in Nat /\ t >= now + lead
  BY <1>1, <1>7, <1>8
<1>10. Entry(k, lead, w) = IF Enabled(list, k, now) THEN Disable(k, t) ELSE Enable(k, t, w)
  BY DEF Entry
<1> HIDE DEF t
<1>11. FirstOwner \in Owners
  BY UpgradeConstants
<1> QED
  BY <1>9, <1>10, <1>11 DEF Disable, Enable, EntryType

\* A list and the same one with an entry more.
LEMMA OneMore ==
  ASSUME NEW l \in Seq(EntryType), NEW e \in EntryType, NEW t \in Nat
  PROVE  /\ IsList(l) /\ Legal(Append(l, e)) => IsList(Append(l, e))
         /\ ~(e.at <= t) => Past(Append(l, e), t) = Past(l, t)
<1> DEFINE m == Append(l, e)
<1>1. /\ m \in Seq(EntryType) /\ Len(m) = Len(l) + 1 /\ Len(l) \in Nat /\ m[Len(l) + 1] = e
      /\ \A i \in DOMAIN l : m[i] = l[i]
      /\ DOMAIN l = 1 .. Len(l) /\ DOMAIN m = 1 .. Len(l) + 1
  OBVIOUS
<1> HIDE DEF m
<1>2. ASSUME IsList(l), Legal(m), NEW i \in DOMAIN m, NEW j \in DOMAIN m, i < j PROVE m[i].at <= m[j].at
  <2>1. CASE j <= Len(l)
    <3>1. i \in DOMAIN l /\ j \in DOMAIN l
      BY <1>1, <1>2, <2>1
    <3> QED
      BY <1>1, <1>2, <3>1 DEF Sorted, IsList
  <2>2. CASE j = Len(l) + 1
    <3>1. i \in DOMAIN l /\ Len(l) \in DOMAIN l /\ j > 1 /\ j - 1 = Len(l) /\ i <= Len(l)
      BY <1>1, <1>2, <2>2
    <3>2. m[j].at >= m[j - 1].at
      BY <1>2, <3>1 DEF Legal
    <3>3. \A n \in DOMAIN l : l[n].at \in Nat
      BY TimesAreNatural
    <3>4. l[i].at <= l[Len(l)].at
      BY <1>1, <1>2, <3>1, <3>3 DEF Sorted, IsList
    <3>5. e.at \in Nat
      BY DEF EntryType
    <3>6. m[i] = l[i] /\ m[j - 1] = l[Len(l)] /\ m[j] = e
      BY <1>1, <2>2, <3>1
    <3>7. l[i].at \in Nat /\ l[Len(l)].at \in Nat
      BY <3>1, <3>3
    <3> QED
      BY <3>2, <3>4, <3>5, <3>6, <3>7
  <2> QED
    BY <1>1, <2>1, <2>2
<1>3. ASSUME ~(e.at <= t) PROVE Past(m, t) = Past(l, t)
  <2>1. {j \in DOMAIN m : m[j].at <= t} = {j \in DOMAIN l : l[j].at <= t}
    BY <1>1, <1>3
  <2> QED
    BY <1>1, <2>1 DEF Past
<1> QED
  BY <1>1, <1>2, <1>3 DEF IsList, Sorted, m

\* The list an undo puts back: the one without its last entry.
LEMMA OneLess ==
  ASSUME NEW l, IsList(l), Len(l) > 0, NEW t \in Nat
  PROVE  /\ IsList(SubSeq(l, 1, Len(l) - 1))
         /\ \A i \in DOMAIN SubSeq(l, 1, Len(l) - 1) : i \in DOMAIN l /\ SubSeq(l, 1, Len(l) - 1)[i] = l[i]
         /\ ~(l[Len(l)].at <= t) => Past(SubSeq(l, 1, Len(l) - 1), t) = Past(l, t)
<1> DEFINE m == SubSeq(l, 1, Len(l) - 1)
<1>1. l \in Seq(EntryType) /\ Len(l) \in Nat /\ DOMAIN l = 1 .. Len(l) /\ Len(l) - 1 \in Nat
  BY DEF IsList
<1>2. /\ m \in Seq(EntryType) /\ DOMAIN m = 1 .. Len(l) - 1
      /\ \A i \in DOMAIN m : i \in DOMAIN l /\ m[i] = l[i]
  BY <1>1
<1> HIDE DEF m
<1>3. Sorted(m)
  BY <1>2 DEF Sorted, IsList
<1>4. ASSUME NEW i \in DOMAIN m PROVE Before(m, i) = Before(l, i) /\ Before(l, i) \subseteq DOMAIN m
  <2>1. \A j \in 1 .. i - 1 : j \in DOMAIN m
    BY <1>1, <1>2
  <2>2. \A j \in 1 .. i - 1 : m[j] = l[j]
    BY <1>2, <2>1
  <2> QED
    BY <1>2, <2>1, <2>2 DEF Before
<1>5. Legal(m)
  <2> SUFFICES ASSUME NEW i \in DOMAIN m
               PROVE  /\ i > 1 => m[i].at >= m[i - 1].at
                      /\ \A j \in Before(m, i) : m[i].at > m[j].at
                      /\ m[i].disable = IF Before(m, i) = {} THEN m[i].key \in OnAtBirth ELSE ~m[Max(Before(m, i))].disable
    BY DEF Legal
  <2>1. /\ i > 1 => l[i].at >= l[i - 1].at
        /\ \A j \in Before(l, i) : l[i].at > l[j].at
        /\ l[i].disable = IF Before(l, i) = {} THEN l[i].key \in OnAtBirth ELSE ~l[Max(Before(l, i))].disable
    BY <1>2 DEF IsList, Legal
  <2>2. i > 1 => i - 1 \in DOMAIN m
    BY <1>1, <1>2
  <2>3. Before(l, i) # {} => Max(Before(l, i)) \in Before(l, i)
    <3> DEFINE B == Before(l, i)
    <3>1. B \in SUBSET Nat /\ \A j \in B : j <= i
      BY <1>1, <1>2 DEF Before
    <3>2. i \in Nat
      BY <1>1, <1>2
    <3> HIDE DEF B
    <3>3. B # {} => Max(B) \in B
      BY <3>1, <3>2, MaxOfBounded
    <3> QED
      BY <3>3 DEF B
  <2>4. Before(l, i) # {} => m[Max(Before(l, i))] = l[Max(Before(l, i))]
    BY <1>2, <1>4, <2>3
  <2>5. \A j \in Before(m, i) : m[j] = l[j]
    BY <1>2, <1>4
  <2>6. Before(m, i) = Before(l, i) /\ m[i] = l[i] /\ (i > 1 => m[i - 1] = l[i - 1])
    BY <1>2, <1>4, <2>2
  <2> QED
    BY <2>1, <2>4, <2>5, <2>6
<1>6. ASSUME ~(l[Len(l)].at <= t) PROVE Past(m, t) = Past(l, t)
  <2>1. {j \in DOMAIN m : m[j].at <= t} = {j \in DOMAIN l : l[j].at <= t}
    BY <1>1, <1>2, <1>6
  <2> QED
    BY <1>2, <2>1 DEF Past
<1> QED
  BY <1>2, <1>3, <1>5, <1>6 DEF IsList, m

LEMMA UpgradeKeeps ==
  ASSUME UpgradeInv, NEW k \in Keys, NEW lead \in Nat, Upgrade(k, lead)
  PROVE  UpgradeInv'
<1>1. PICK w \in planning : Legal(Append(list, Entry(k, lead, w))) /\ list' = Append(list, Entry(k, lead, w))
  BY DEF Upgrade
<1> DEFINE e == Entry(k, lead, w)
<1>2. w \in Owners
  BY DEF UpgradeInv
<1>3. e \in EntryType /\ e.at >= now + lead /\ e.at \in Nat
  BY <1>2, EntryIsAhead DEF EntryType
<1> HIDE DEF e
<1>4. /\ rollingTo' = 0 /\ planned' = now /\ planning' = {} /\ list = runs[Carriers] /\ MinLead <= lead
      /\ UNCHANGED <<now, head, runs, transfers, recorded>>
  BY DEF Upgrade, LeadInRange, NodeRunsDisk, inForce, chainVars
<1>5. list' = Append(list, e) /\ Legal(Append(list, e))
  BY <1>1 DEF e
<1>6. list \in Seq(EntryType) /\ IsList(list) /\ now \in Nat /\ MinLead \in Nat /\ Carriers \in Nat /\ Carriers > 0
  BY UpgradeConstants DEF UpgradeInv, IsList
<1>7. IsList(list')
  BY <1>3, <1>5, <1>6, OneMore
<1>8. ASSUME NEW u \in Nat, u < now + MinLead PROVE Past(list', u) = Past(list, u)
  <2>1. ~(e.at <= u)
    BY <1>3, <1>4, <1>6, <1>8
  <2> QED
    BY <1>3, <1>5, <1>6, <2>1, OneMore
<1>9. Len(list') > 0 /\ list'[Len(list')] = e /\ e.at >= now + MinLead
  <2>1. Len(list') = Len(list) + 1 /\ Len(list) \in Nat /\ list'[Len(list) + 1] = e
    BY <1>3, <1>5, <1>6
  <2>2. e.at >= now + MinLead
    BY <1>3, <1>4, <1>6
  <2> QED
    BY <2>1, <2>2
<1>10. rollingTo' \in 0 .. Carriers - 1
  BY <1>4, <1>6
<1> QED
  BY <1>4, <1>6, <1>7, <1>8, <1>9, <1>10 DEF UpgradeInv

\* A validator that accepts the file on disk runs it.
LEMMA RereadKeeps ==
  ASSUME UpgradeInv, NEW v \in 1 .. Carriers, runs' = [runs EXCEPT ![v] = list],
         UNCHANGED <<now, head, list, planned, planning, transfers, recorded>>,
         rollingTo' \in {Idle, Undoing} \cup 0 .. Carriers - 1,
         rollingTo' >= 0 => rollingTo >= 0
  PROVE  UpgradeInv'
<1>1. DOMAIN runs = 1 .. Carriers /\ Carriers \in Nat /\ Carriers > 0
  BY UpgradeConstants DEF UpgradeInv
<1>2. \A u \in 1 .. Carriers : runs'[u] = IF u = v THEN list ELSE runs[u]
  BY <1>1
<1>3. runs'[Carriers] \in {list, runs[Carriers]}
  BY <1>1, <1>2
<1>4. \A u \in 1 .. Carriers : IsList(runs'[u])
  BY <1>2 DEF UpgradeInv
<1>5. \A u \in Nat : u < planned + MinLead => Past(list, u) = Past(runs'[Carriers], u)
  BY <1>3 DEF UpgradeInv
<1>6. DOMAIN runs' = 1 .. Carriers
  BY <1>1
<1> QED
  BY <1>4, <1>5, <1>6 DEF UpgradeInv

LEMMA FailedKeeps ==
  ASSUME UpgradeInv, RolloutFails
  PROVE  UpgradeInv'
<1>1. UNCHANGED <<now, head, runs, planned, planning, transfers, recorded>> /\ rollingTo >= 0
  BY DEF RolloutFails, chainVars
<1>2. /\ IsList(list) /\ Len(list) > 0 /\ Len(list) \in Nat /\ Len(list) \in DOMAIN list
      /\ list[Len(list)].at >= planned + MinLead /\ planned + MinLead \in Nat
  <2>1. /\ IsList(list) /\ Len(list) > 0 /\ list[Len(list)].at >= planned + MinLead
        /\ planned \in Nat /\ MinLead \in Nat
    BY <1>1, UpgradeConstants DEF UpgradeInv
  <2> QED
    BY <2>1 DEF IsList
<1>3. list[Len(list)].at \in Nat
  BY <1>2, TimesAreNatural DEF IsList
<1>4. CASE list' = list /\ rollingTo' = Idle
  BY <1>1, <1>4 DEF UpgradeInv, Idle
<1>5. CASE list' = SubSeq(list, 1, Len(list) - 1) /\ rollingTo' = Undoing
  <2>1. IsList(list')
    BY <1>2, <1>5, OneLess
  <2>2. ASSUME NEW u \in Nat, u < planned + MinLead PROVE Past(list', u) = Past(list, u)
    <3>1. ~(list[Len(list)].at <= u)
      BY <1>2, <1>3, <2>2
    <3> QED
      BY <1>2, <1>5, <3>1, OneLess
  <2>3. ~(rollingTo' >= 0)
    BY <1>5 DEF Undoing
  <2> QED
    BY <1>1, <1>5, <2>1, <2>2, <2>3 DEF UpgradeInv
<1> QED
  BY <1>4, <1>5 DEF RolloutFails

THEOREM UpgradeInvariance == GovernSpec => []UpgradeInv
<1>1. GovernInit => UpgradeInv
  <2> SUFFICES ASSUME GovernInit PROVE UpgradeInv
    OBVIOUS
  <2>1. /\ now = 0 /\ head = 0 /\ list = <<>> /\ runs = [v \in 1 .. Carriers |-> <<>>] /\ rollingTo = Idle
        /\ planned = 0 /\ planning = {} /\ transfers = {} /\ recorded = FirstOwner /\ FirstOwner \in Owners
        /\ Carriers \in Nat /\ Carriers > 0
    BY UpgradeConstants DEF GovernInit
  <2>2. IsList(<<>>)
    BY DEF IsList, Legal, Sorted
  <2>3. runs[Carriers] = <<>> /\ ~(rollingTo >= 0)
    BY <2>1 DEF Idle
  <2> QED
    BY <2>1, <2>2, <2>3 DEF UpgradeInv
<1>2. ASSUME UpgradeInv, [GovernNext]_governVars
      PROVE  UpgradeInv'
  <2>1. CASE UNCHANGED governVars
    BY <1>2, <2>1 DEF governVars, chainVars, rolloutUpVars, UpgradeInv
  <2>2. CASE Block
    BY <1>2, <2>2 DEF Block, rolloutUpVars, UpgradeInv
  <2>3. CASE \E w \in Owners, k \in EveryKey : SetAdmin(w, k)
    BY <1>2, <2>3 DEF SetAdmin, rolloutUpVars, UpgradeInv
  <2>4. CASE Elapse
    <3>1. now' = now + 1 /\ UNCHANGED <<head, list, runs, rollingTo, planned, planning, transfers, recorded>>
      BY <2>4 DEF Elapse, chainVars
    <3>2. now' \in Nat /\ head <= now'
      BY <1>2, <3>1 DEF UpgradeInv
    <3> QED
      BY <1>2, <3>1, <3>2 DEF UpgradeInv
  <2>5. CASE UpgradeAsks
    BY <1>2, <2>5 DEF UpgradeAsks, chainVars, rolloutUpVars, UpgradeInv
  <2>6. CASE UpgradeRefused
    BY <1>2, <2>6 DEF UpgradeRefused, chainVars, rolloutUpVars, UpgradeInv
  <2>7. ASSUME NEW k \in Keys, NEW lead \in 0 .. MaxLead + 1, Upgrade(k, lead) PROVE UpgradeInv'
    <3>1. lead \in Nat
      BY UpgradeConstants
    <3> QED
      BY <1>2, <2>7, <3>1, UpgradeKeeps
  <2>8. CASE Restarted
    <3>1. /\ rollingTo \in 0 .. Carriers - 1 /\ runs' = [runs EXCEPT ![rollingTo + 1] = list]
          /\ rollingTo' = (IF rollingTo + 1 = Carriers THEN Idle ELSE rollingTo + 1)
          /\ UNCHANGED <<now, head, list, planned, planning, transfers, recorded>> /\ Carriers \in Nat
      BY <2>8, UpgradeConstants DEF Restarted, chainVars
    <3>2. rollingTo + 1 \in 1 .. Carriers /\ rollingTo >= 0 /\ rollingTo' \in {Idle, Undoing} \cup 0 .. Carriers - 1
      BY <3>1
    <3> QED
      BY <1>2, <3>1, <3>2, RereadKeeps
  <2>9. ASSUME NEW v \in 1 .. Carriers, Reread(v) PROVE UpgradeInv'
    <3>1. /\ runs' = [runs EXCEPT ![v] = list]
          /\ UNCHANGED <<now, head, list, rollingTo, planned, planning, transfers, recorded>>
      BY <2>9 DEF Reread, chainVars
    <3>2. rollingTo \in {Idle, Undoing} \cup 0 .. Carriers - 1
      BY <1>2 DEF UpgradeInv
    <3> QED
      BY <1>2, <3>1, <3>2, RereadKeeps
  <2>10. CASE RolloutFails
    BY <1>2, <2>10, FailedKeeps
  <2>11. CASE UndoReturns
    BY <1>2, <2>11 DEF UndoReturns, chainVars, Idle, UpgradeInv
  <2>12. CASE Dies
    BY <1>2, <2>12 DEF Dies, chainVars, Idle, UpgradeInv
  <2>13. ASSUME NEW w \in Owners, TransferAsks(w) PROVE UpgradeInv'
    BY <1>2, <2>13 DEF TransferAsks, chainVars, rolloutUpVars, UpgradeInv
  <2>14. ASSUME NEW t \in transfers, TransferRefused(t) PROVE UpgradeInv'
    BY <1>2, <2>14 DEF TransferRefused, chainVars, rolloutUpVars, UpgradeInv
  <2>15. ASSUME NEW t \in transfers, Transfer(t) PROVE UpgradeInv'
    BY <1>2, <2>15 DEF Transfer, chainVars, rolloutUpVars, UpgradeInv
  <2>16. ASSUME NEW t \in transfers, NEW k \in EveryKey, RoleAnswered(t, k) PROVE UpgradeInv'
    <3>1. t = [to |-> t.to, keys |-> t.keys] /\ t.to \in Owners
      BY <1>2 DEF UpgradeInv
    <3> DEFINE n == [t EXCEPT !.keys = @ \ {k}]
    <3>2. n.to = t.to /\ n = [to |-> n.to, keys |-> n.keys]
      BY <3>1
    <3> HIDE DEF n
    <3>3. transfers' = (transfers \ {t}) \cup {n} /\ UNCHANGED <<now, chainVars, rolloutUpVars, planned, planning, recorded>>
      BY <2>16 DEF RoleAnswered, n
    <3>4. \A x \in transfers' : x.to \in Owners /\ x = [to |-> x.to, keys |-> x.keys]
      BY <1>2, <3>1, <3>2, <3>3 DEF UpgradeInv
    <3> QED
      BY <1>2, <3>3, <3>4 DEF UpgradeInv, chainVars, rolloutUpVars
  <2> QED
    BY <1>2, <2>1, <2>2, <2>3, <2>4, <2>5, <2>6, <2>7, <2>8, <2>9, <2>10, <2>11, <2>12, <2>13, <2>14, <2>15, <2>16
    DEF GovernNext
<1> QED
  BY <1>1, <1>2, PTL DEF GovernSpec

\* RestartAccepts (planUpgradeForChain, napCapChain, hoanTacNangCap): until the shortest lead after a plan is
\* over, a validator in step with the public node accepts the file it restarts on, for any number of
\* validators and of upgrades, however long a rollout takes, fails, is undone or is cut short.
THEOREM RestartsAccepted == GovernSpec => []RestartAccepts
<1>1. UpgradeInv => RestartAccepts
  <2> SUFFICES ASSUME UpgradeInv, now < planned + MinLead, NEW v \in 1 .. Carriers, runs[v] = inForce
               PROVE  Past(list, head) = Past(runs[v], head)
    BY DEF RestartAccepts, Loads, UpgradeInv, IsList
  <2>1. head \in Nat /\ head < planned + MinLead
    BY UpgradeConstants DEF UpgradeInv
  <2> QED
    BY <2>1 DEF UpgradeInv, inForce
<1> QED
  BY <1>1, UpgradeInvariance, PTL

-----------------------------------------------------------------------------
\* The owner of a chain.  OwnerAdminsAll fails in the owner_pending run: what an upgrade enables later
\* names the owner it was planned under.  It is lost in three ways: a transfer while an entry is still to
\* come for the chain (that the console's clock is past it is not enough), a transfer that reads a list the
\* chain does not run, and a transfer beside an upgrade that has read the owner and not yet written the
\* file.  It holds if a transfer starts when the chain runs the list on disk and is past all of it, and
\* takes its turn with the upgrades.
TransfersInTurn ==
  /\ \A w \in Owners :
       TransferAsks(w) => planning = {} /\ list = inForce /\ \A i \in DOMAIN list : list[i].at <= head
  /\ UpgradeAsks => transfers = {}

\* What the chain configures of k between t and u, and whether w is its admin after that.
Passed(l, k, t, u) == {i \in DOMAIN l : l[i].key = k /\ l[i].at > t /\ l[i].at <= u}
AdminsAfter(l, adm, t, u, k) ==
  IF Passed(l, k, t, u) = {} THEN adm[k]
  ELSE IF l[Max(Passed(l, k, t, u))].disable THEN {} ELSE {l[Max(Passed(l, k, t, u))].admin}
Governs(l, adm, t, u, w, k) == k = "feeManager" \/ Enabled(l, k, u) => w \in AdminsAfter(l, adm, t, u, k)

\* What is enabled after t names w.
EnablesFor(l, t, w) == \A i \in DOMAIN l : l[i].at > t => l[i].disable \/ l[i].admin = w

AllBy(l, t) == \A i \in DOMAIN l : l[i].at <= t
OnAt(k, t) == k = "feeManager" \/ Enabled(inForce, k, t)

GovernedInv ==
  /\ \A k \in EveryKey : OnAt(k, head) => recorded \in admins[k]
  /\ EnablesFor(list, head, recorded) /\ EnablesFor(inForce, head, recorded)
  /\ planning \subseteq {recorded}
  /\ transfers # {} => planning = {} /\ AllBy(list, head) /\ AllBy(inForce, head)
  /\ \A t \in transfers, k \in EveryKey : OnAt(k, head) => k \in t.keys \/ t.to \in admins[k]

LEMMA ConfiguredIs ==
  /\ \A t, u : Configured(t, u) = [k \in EveryKey |-> AdminsAfter(inForce, admins, t, u, k)]
  /\ OwnerAdminsAll <=> \A k \in EveryKey : Governs(inForce, admins, head, now, recorded, k)
<1>1. \A t, u : Configured(t, u) = [k \in EveryKey |-> AdminsAfter(inForce, admins, t, u, k)]
  BY DEF Configured, AdminsAfter, Passed
<1> QED
  BY <1>1 DEF OwnerAdminsAll, Governs

LEMMA NothingPasses ==
  ASSUME NEW l \in Seq(EntryType), NEW k, NEW t \in Nat
  PROVE  Passed(l, k, t, t) = {}
<1>1. \A i \in DOMAIN l : l[i].at \in Nat
  BY TimesAreNatural
<1> QED
  BY <1>1 DEF Passed

LEMMA FeeManagerUnlisted ==
  ASSUME NEW l \in Seq(EntryType), NEW t, NEW u
  PROVE  Passed(l, "feeManager", t, u) = {}
<1>1. \A i \in DOMAIN l : l[i] \in EntryType
  OBVIOUS
<1> QED
  BY <1>1, FeeManagerStays DEF Passed, EntryType

\* The last entry that passed is the last one in force.
LEMMA LastPassed ==
  ASSUME NEW l \in Seq(EntryType), Sorted(l), NEW k, NEW t \in Nat, NEW u \in Nat, Passed(l, k, t, u) # {}
  PROVE  /\ Max(Passed(l, k, t, u)) \in Passed(l, k, t, u)
         /\ UpTo(l, k, u) # {} /\ Max(UpTo(l, k, u)) = Max(Passed(l, k, t, u))
<1> DEFINE P == Passed(l, k, t, u)  T == UpTo(l, k, u)
<1>1. /\ Len(l) \in Nat /\ P \in SUBSET Nat /\ T \in SUBSET Nat /\ P \subseteq T
      /\ \A i \in T : i <= Len(l)
  BY DEF Passed, UpTo
<1>2. /\ Max(P) \in P /\ \A i \in P : Max(P) >= i
      /\ Max(T) \in T /\ \A i \in T : Max(T) >= i
  <2> HIDE DEF P, T
  <2>1. T # {} /\ P # {} /\ (\A i \in P : i <= Len(l))
    BY <1>1 DEF P
  <2>2. Max(P) \in P /\ \A i \in P : Max(P) >= i
    BY <1>1, <2>1, MaxOfBounded
  <2>3. Max(T) \in T /\ \A i \in T : Max(T) >= i
    BY <1>1, <2>1, MaxOfBounded
  <2> QED
    BY <2>2, <2>3
<1>3. Max(T) \in P
  <2>1. \A i \in DOMAIN l : l[i].at \in Nat
    BY TimesAreNatural
  <2>2. Max(T) \in DOMAIN l /\ l[Max(T)].key = k /\ l[Max(T)].at <= u
    BY <1>2 DEF UpTo
  <2>3. Max(P) \in DOMAIN l /\ l[Max(P)].at > t /\ Max(P) <= Max(T)
    BY <1>1, <1>2 DEF Passed
  <2>4. l[Max(P)].at <= l[Max(T)].at
    BY <2>1, <2>2, <2>3 DEF Sorted
  <2>5. l[Max(T)].at > t
    BY <2>1, <2>2, <2>3, <2>4
  <2> QED
    BY <2>2, <2>5 DEF Passed
<1>4. Max(T) = Max(P)
  <2>1. Max(P) \in Nat /\ Max(T) \in Nat /\ Max(P) >= Max(T) /\ Max(T) >= Max(P)
    BY <1>1, <1>2, <1>3
  <2> QED
    BY <2>1
<1> QED
  BY <1>1, <1>2, <1>4

\* As time passes, what is switched on names the owner.
LEMMA LaterGoverns ==
  ASSUME NEW l \in Seq(EntryType), Sorted(l), NEW adm, NEW w, NEW k \in EveryKey,
         NEW t \in Nat, NEW u \in Nat, NEW v \in Nat, t <= u, u <= v,
         Governs(l, adm, t, u, w, k), EnablesFor(l, t, w)
  PROVE  Governs(l, adm, t, v, w, k)
<1>1. CASE Passed(l, k, t, v) = {}
  <2>1. \A i \in DOMAIN l : l[i].at \in Nat
    BY TimesAreNatural
  <2>2. Passed(l, k, t, u) = {} /\ UpTo(l, k, u) = UpTo(l, k, v)
    BY <1>1, <2>1 DEF Passed, UpTo
  <2> QED
    BY <1>1, <2>2 DEF Governs, Enabled, AdminsAfter
<1>2. CASE Passed(l, k, t, v) # {}
  <2>1. k # "feeManager"
    BY <1>2, FeeManagerUnlisted
  <2> DEFINE last == Max(Passed(l, k, t, v))
  <2>2. last \in DOMAIN l /\ l[last].at > t /\ UpTo(l, k, v) # {} /\ Max(UpTo(l, k, v)) = last
    <3>1. last \in Passed(l, k, t, v) /\ UpTo(l, k, v) # {} /\ Max(UpTo(l, k, v)) = last
      BY <1>2, LastPassed
    <3> HIDE DEF last
    <3> QED
      BY <3>1 DEF Passed
  <2> HIDE DEF last
  <2>3. AdminsAfter(l, adm, t, v, k) = IF l[last].disable THEN {} ELSE {l[last].admin}
    BY <1>2 DEF AdminsAfter, last
  <2>4. Enabled(l, k, v) <=> ~l[last].disable
    BY <2>2 DEF Enabled
  <2>5. l[last].disable \/ l[last].admin = w
    BY <2>2 DEF EnablesFor
  <2> QED
    BY <2>1, <2>3, <2>4, <2>5 DEF Governs
<1> QED
  BY <1>1, <1>2

LEMMA FewerEnabled ==
  ASSUME NEW l \in Seq(EntryType), NEW t \in Nat, NEW u \in Nat, NEW w, t <= u, EnablesFor(l, t, w)
  PROVE  EnablesFor(l, u, w)
<1>1. \A i \in DOMAIN l : l[i].at \in Nat
  BY TimesAreNatural
<1> QED
  BY <1>1 DEF EnablesFor

\* A list whose entries are all past configures nothing more.
LEMMA AllPast ==
  ASSUME NEW l \in Seq(EntryType), NEW k, NEW t \in Nat, NEW u \in Nat, t <= u, \A i \in DOMAIN l : l[i].at <= t
  PROVE  Passed(l, k, t, u) = {} /\ Enabled(l, k, u) = Enabled(l, k, t)
<1>1. \A i \in DOMAIN l : l[i].at \in Nat
  BY TimesAreNatural
<1>2. Passed(l, k, t, u) = {} /\ UpTo(l, k, u) = UpTo(l, k, t)
  BY <1>1 DEF Passed, UpTo
<1> QED
  BY <1>2 DEF Enabled

\* What is on at t is decided by what is past at t.
LEMMA SamePast ==
  ASSUME NEW l \in Seq(EntryType), NEW m \in Seq(EntryType), NEW k, NEW t \in Nat, Past(l, t) = Past(m, t)
  PROVE  Enabled(l, k, t) = Enabled(m, k, t)
<1>1. ASSUME NEW a \in Seq(EntryType), NEW b \in Seq(EntryType), Past(a, t) = Past(b, t), NEW i \in DOMAIN a, a[i].at <= t
      PROVE  i \in DOMAIN b /\ b[i] = a[i]
  <2>1. <<i, a[i]>> \in Past(a, t)
    BY <1>1 DEF Past
  <2>2. <<i, a[i]>> \in Past(b, t)
    BY <1>1, <2>1
  <2>3. PICK j \in DOMAIN b : <<i, a[i]>> = <<j, b[j]>>
    BY <2>2 DEF Past
  <2> QED
    BY <2>3
<1>2. \A i \in DOMAIN l : l[i].at <= t => i \in DOMAIN m /\ m[i] = l[i]
  BY <1>1
<1>3. \A i \in DOMAIN m : m[i].at <= t => i \in DOMAIN l /\ l[i] = m[i]
  BY <1>1
<1>4. UpTo(l, k, t) = UpTo(m, k, t)
  BY <1>2, <1>3 DEF UpTo
<1>5. CASE UpTo(l, k, t) = {}
  BY <1>4, <1>5 DEF Enabled
<1>6. CASE UpTo(l, k, t) # {}
  <2> DEFINE T == UpTo(l, k, t)
  <2>1. T \in SUBSET Nat /\ Len(l) \in Nat /\ \A i \in T : i <= Len(l)
    BY DEF UpTo
  <2> HIDE DEF T
  <2>2. T # {} => Max(T) \in T
    BY <2>1, MaxOfBounded
  <2>3. Max(UpTo(l, k, t)) \in UpTo(l, k, t)
    BY <1>6, <2>2 DEF T
  <2>4. l[Max(UpTo(l, k, t))] = m[Max(UpTo(l, k, t))]
    BY <1>2, <2>3 DEF UpTo
  <2> QED
    BY <1>4, <1>6, <2>4 DEF Enabled
<1> QED
  BY <1>5, <1>6

\* From the chain's clock on, the recorded owner governs whatever comes on.
LEMMA FromTheHead ==
  ASSUME UpgradeInv, GovernedInv, NEW k \in EveryKey
  PROVE  Governs(inForce, admins, head, now, recorded, k)
<1>1. /\ now \in Nat /\ head \in Nat /\ head <= now /\ inForce \in Seq(EntryType) /\ Sorted(inForce)
  BY UpgradeConstants DEF UpgradeInv, IsList, inForce
<1>2. Passed(inForce, k, head, head) = {}
  BY <1>1, NothingPasses
<1>3. Governs(inForce, admins, head, head, recorded, k)
  BY <1>2 DEF Governs, AdminsAfter, GovernedInv, OnAt
<1>4. EnablesFor(inForce, head, recorded)
  BY DEF GovernedInv
<1> QED
  BY <1>1, <1>3, <1>4, LaterGoverns

\* A block moves the chain's clock to the console's.
LEMMA BlockGoverns ==
  ASSUME UpgradeInv, GovernedInv, head' = now,
         UNCHANGED <<now, list, runs, planning, transfers, recorded>>,
         \A k \in EveryKey : Configured(head, now)[k] \subseteq admins'[k]
  PROVE  GovernedInv'
<1>1. /\ now \in Nat /\ head \in Nat /\ head <= now /\ list \in Seq(EntryType) /\ inForce \in Seq(EntryType)
  BY UpgradeConstants DEF UpgradeInv, IsList, inForce
<1>2. inForce' = inForce
  BY DEF inForce
<1>3. ASSUME NEW k \in EveryKey, OnAt(k, now) PROVE recorded \in admins'[k]
  <2>1. recorded \in AdminsAfter(inForce, admins, head, now, k)
    BY <1>3, FromTheHead DEF Governs, OnAt
  <2>2. AdminsAfter(inForce, admins, head, now, k) \subseteq admins'[k]
    BY ConfiguredIs
  <2> QED
    BY <2>1, <2>2
<1>4. EnablesFor(list, now, recorded) /\ EnablesFor(inForce, now, recorded)
  BY <1>1, FewerEnabled DEF GovernedInv
<1>5. ASSUME transfers # {}
      PROVE  planning = {} /\ AllBy(inForce, head) /\ AllBy(list, now) /\ AllBy(inForce, now)
  <2>1. planning = {} /\ AllBy(list, head) /\ AllBy(inForce, head)
    BY <1>5 DEF GovernedInv
  <2>2. (\A i \in DOMAIN list : list[i].at \in Nat) /\ (\A i \in DOMAIN inForce : inForce[i].at \in Nat)
    BY <1>1, TimesAreNatural
  <2> QED
    BY <1>1, <2>1, <2>2 DEF AllBy
<1>6. ASSUME NEW t \in transfers, NEW k \in EveryKey, OnAt(k, now) PROVE k \in t.keys \/ t.to \in admins'[k]
  <2>1. \A i \in DOMAIN inForce : inForce[i].at <= head
    BY <1>5, <1>6 DEF AllBy
  <2>2. Passed(inForce, k, head, now) = {} /\ Enabled(inForce, k, now) = Enabled(inForce, k, head)
    BY <1>1, <2>1, AllPast
  <2>3. admins[k] \subseteq admins'[k]
    BY <2>2, ConfiguredIs DEF AdminsAfter
  <2>4. OnAt(k, head)
    BY <1>6, <2>2 DEF OnAt
  <2>5. k \in t.keys \/ t.to \in admins[k]
    BY <1>6, <2>4 DEF GovernedInv
  <2> QED
    BY <2>3, <2>5
<1>7. \A k \in EveryKey : OnAt(k, head)' = OnAt(k, now)
  BY <1>2 DEF OnAt
<1>8. /\ \A k \in EveryKey : OnAt(k, head)' => recorded' \in admins'[k]
      /\ \A t \in transfers', k \in EveryKey : OnAt(k, head)' => k \in t.keys \/ t.to \in admins'[k]
  BY <1>3, <1>6, <1>7
<1>9. EnablesFor(list, head, recorded)' /\ EnablesFor(inForce, head, recorded)' /\ planning' \subseteq {recorded'}
  BY <1>2, <1>4 DEF GovernedInv, EnablesFor
<1>10. transfers' # {} => planning' = {} /\ AllBy(list, head)' /\ AllBy(inForce, head)'
  BY <1>2, <1>5 DEF AllBy
<1> QED
  BY <1>8, <1>9, <1>10 DEF GovernedInv

\* An upgrade names the owner that was read, who is the recorded one.
LEMMA UpgradeGoverns ==
  ASSUME UpgradeInv, GovernedInv, NEW k \in Keys, NEW lead \in Nat, Upgrade(k, lead)
  PROVE  GovernedInv'
<1>1. PICK w \in planning : list' = Append(list, Entry(k, lead, w))
  BY DEF Upgrade
<1> DEFINE e == Entry(k, lead, w)
<1>2. w = recorded /\ w \in Owners
  BY DEF GovernedInv, UpgradeInv
<1>3. e \in EntryType /\ (e.disable \/ e.admin = recorded)
  BY <1>2, EntryIsAhead DEF Entry, Enable, Disable
<1> HIDE DEF e
<1>4. /\ list' = Append(list, e) /\ planning' = {} /\ transfers = {}
      /\ UNCHANGED <<now, head, admins, runs, transfers, recorded>>
  BY <1>1 DEF Upgrade, chainVars, GovernedInv, e
<1>5. list \in Seq(EntryType)
  BY DEF UpgradeInv, IsList
<1>6. /\ DOMAIN list' = 1 .. Len(list) + 1 /\ DOMAIN list = 1 .. Len(list) /\ Len(list) \in Nat
      /\ \A i \in DOMAIN list : list'[i] = list[i]
      /\ list'[Len(list) + 1] = e
  BY <1>3, <1>4, <1>5
<1>7. EnablesFor(list', head, recorded)
  BY <1>3, <1>6 DEF EnablesFor, GovernedInv
<1> QED
  BY <1>4, <1>7 DEF GovernedInv, inForce, OnAt

\* A validator that accepts the file on disk, the public node or another, leaves what is on as it is.
LEMMA RereadGoverns ==
  ASSUME UpgradeInv, GovernedInv, NEW v \in 1 .. Carriers, Loads(v), runs' = [runs EXCEPT ![v] = list],
         UNCHANGED <<now, head, admins, list, planning, transfers, recorded>>
  PROVE  GovernedInv'
<1>1. /\ head \in Nat /\ IsList(list) /\ IsList(inForce) /\ DOMAIN runs = 1 .. Carriers /\ Carriers \in 1 .. Carriers
      /\ list \in Seq(EntryType) /\ inForce \in Seq(EntryType)
  BY UpgradeConstants DEF UpgradeInv, inForce, IsList
<1>2. CASE v # Carriers
  <2>1. inForce' = inForce
    BY <1>1, <1>2 DEF inForce
  <2> QED
    BY <2>1 DEF GovernedInv, OnAt
<1>3. CASE v = Carriers
  <2>1. inForce' = list /\ Past(list, head) = Past(inForce, head)
    BY <1>1, <1>3 DEF inForce, Loads
  <2>2. \A k \in EveryKey : Enabled(list, k, head) = Enabled(inForce, k, head)
    BY <1>1, <2>1, SamePast
  <2>3. \A k \in EveryKey : OnAt(k, head)' = OnAt(k, head)
    BY <2>1, <2>2 DEF OnAt
  <2>4. EnablesFor(inForce, head, recorded)' /\ EnablesFor(list, head, recorded)'
    BY <2>1 DEF GovernedInv, EnablesFor
  <2>5. transfers' # {} => planning' = {} /\ AllBy(list, head)' /\ AllBy(inForce, head)'
    BY <2>1 DEF GovernedInv, AllBy
  <2> QED
    BY <2>3, <2>4, <2>5 DEF GovernedInv
<1> QED
  BY <1>2, <1>3

LEMMA FailedGoverns ==
  ASSUME UpgradeInv, GovernedInv, RolloutFails
  PROVE  GovernedInv'
<1>1. UNCHANGED <<now, head, admins, runs, planning, transfers, recorded>> /\ inForce' = inForce
  BY DEF RolloutFails, chainVars, inForce
<1>2. EnablesFor(list', head, recorded) /\ (AllBy(list, head) => AllBy(list', head))
  <2>1. CASE list' = list
    BY <2>1 DEF GovernedInv
  <2>2. CASE list' = SubSeq(list, 1, Len(list) - 1)
    <3>1. IsList(list) /\ Len(list) > 0 /\ head \in Nat
      BY DEF RolloutFails, UpgradeInv
    <3>2. \A i \in DOMAIN list' : i \in DOMAIN list /\ list'[i] = list[i]
      BY <2>2, <3>1, OneLess
    <3> QED
      BY <3>2 DEF GovernedInv, EnablesFor, AllBy
  <2> QED
    BY <2>1, <2>2 DEF RolloutFails
<1> QED
  BY <1>1, <1>2 DEF GovernedInv, OnAt, AllBy

\* A transfer that starts in turn asks for every role the owner must have.
LEMMA AskGoverns ==
  ASSUME UpgradeInv, GovernedInv, TransfersInTurn, NEW w \in Owners, TransferAsks(w)
  PROVE  GovernedInv'
<1> DEFINE n == [to |-> w, keys |-> Asked]
<1>1. /\ transfers' = transfers \cup {n} /\ UNCHANGED <<now, head, admins, list, runs, rollingTo, planning, recorded>>
      /\ inForce' = inForce
  BY DEF TransferAsks, chainVars, rolloutUpVars, inForce
<1>2. planning = {} /\ list = inForce /\ \A i \in DOMAIN list : list[i].at <= head
  BY DEF TransfersInTurn
<1>3. head \in Nat /\ now \in Nat /\ head <= now /\ list \in Seq(EntryType)
  BY DEF UpgradeInv, IsList
<1>4. \A k \in EveryKey : OnAt(k, head) => k \in n.keys
  <2> SUFFICES ASSUME NEW k \in EveryKey, OnAt(k, head), k # "feeManager" PROVE k \in Asked
    BY DEF Asked
  <2>1. Enabled(list, k, head) /\ k \in Keys
    BY <1>2 DEF OnAt, EveryKey
  <2>2. Enabled(list, k, now) = Enabled(list, k, head)
    BY <1>2, <1>3, AllPast
  <2> QED
    BY <2>1, <2>2 DEF Asked
<1> HIDE DEF n
<1>5. \A t \in transfers', k \in EveryKey : OnAt(k, head) => k \in t.keys \/ t.to \in admins[k]
  BY <1>1, <1>4 DEF GovernedInv
<1> QED
  BY <1>1, <1>2, <1>5 DEF GovernedInv, OnAt, AllBy

\* "the owner is the admin of anything enabled here", OwnerAdminsAll, of every list of upgrades, every order
\* of blocks, rollouts, undoes and deaths, and every owner, if transfers are made in turn (doiChu, planUpgrade).
THEOREM OwnersAdminIfReached == GovernSpec /\ [][TransfersInTurn]_governVars => []OwnerAdminsAll
<1>1. GovernInit => GovernedInv
  <2> SUFFICES ASSUME GovernInit PROVE GovernedInv
    OBVIOUS
  <2>1. /\ list = <<>> /\ inForce = <<>> /\ head = 0 /\ recorded = FirstOwner /\ planning = {} /\ transfers = {}
        /\ admins = [k \in EveryKey |-> IF k = "feeManager" \/ k \in OnAtBirth THEN {FirstOwner} ELSE {}]
    BY UpgradeConstants DEF GovernInit, inForce
  <2>2. \A k \in EveryKey : UpTo(inForce, k, head) = {}
    BY <2>1 DEF UpTo
  <2>3. \A k \in EveryKey : OnAt(k, head) => recorded \in admins[k]
    BY <2>1, <2>2 DEF OnAt, Enabled
  <2> QED
    BY <2>1, <2>3 DEF GovernedInv, EnablesFor
<1>2. ASSUME UpgradeInv, GovernedInv, [GovernNext]_governVars, [TransfersInTurn]_governVars
      PROVE  GovernedInv'
  <2>1. CASE UNCHANGED governVars
    BY <1>2, <2>1 DEF governVars, chainVars, rolloutUpVars, GovernedInv, OnAt, AllBy, inForce
  <2>2. CASE Block
    <3>1. /\ head' = now /\ UNCHANGED <<now, list, runs, planning, transfers, recorded>>
          /\ \A k \in EveryKey : Configured(head, now)[k] \subseteq admins'[k]
      BY <2>2 DEF Block, rolloutUpVars
    <3> QED
      BY <1>2, <3>1, BlockGoverns
  <2>3. ASSUME NEW w \in Owners, NEW j \in EveryKey, SetAdmin(w, j) PROVE GovernedInv'
    <3>1. /\ head' = now /\ UNCHANGED <<now, list, runs, planning, transfers, recorded>>
          /\ admins' = [Configured(head, now) EXCEPT ![j] = @ \cup {w}]
      BY <2>3 DEF SetAdmin, rolloutUpVars
    <3>2. DOMAIN Configured(head, now) = EveryKey
      BY DEF Configured
    <3>3. \A k \in EveryKey : Configured(head, now)[k] \subseteq admins'[k]
      BY <3>1, <3>2
    <3> QED
      BY <1>2, <3>1, <3>3, BlockGoverns
  <2>4. CASE Elapse
    BY <1>2, <2>4 DEF Elapse, chainVars, GovernedInv, OnAt, AllBy, inForce
  <2>5. CASE UpgradeAsks /\ ~UNCHANGED governVars
    <3>1. transfers = {}
      BY <1>2, <2>5 DEF TransfersInTurn
    <3> QED
      BY <1>2, <2>5, <3>1 DEF UpgradeAsks, chainVars, rolloutUpVars, GovernedInv, OnAt, AllBy, inForce
  <2>6. CASE UpgradeRefused
    BY <1>2, <2>6 DEF UpgradeRefused, chainVars, rolloutUpVars, GovernedInv, OnAt, AllBy, inForce
  <2>7. ASSUME NEW k \in Keys, NEW lead \in 0 .. MaxLead + 1, Upgrade(k, lead) PROVE GovernedInv'
    <3>1. lead \in Nat
      BY UpgradeConstants
    <3> QED
      BY <1>2, <2>7, <3>1, UpgradeGoverns
  <2>8. CASE Restarted
    <3>1. /\ rollingTo \in 0 .. Carriers - 1 /\ runs' = [runs EXCEPT ![rollingTo + 1] = list] /\ Loads(rollingTo + 1)
          /\ UNCHANGED <<now, head, admins, list, planning, transfers, recorded>> /\ Carriers \in Nat
      BY <2>8, UpgradeConstants DEF Restarted, chainVars
    <3>2. rollingTo + 1 \in 1 .. Carriers
      BY <3>1
    <3> QED
      BY <1>2, <3>1, <3>2, RereadGoverns
  <2>9. ASSUME NEW v \in 1 .. Carriers, Reread(v) PROVE GovernedInv'
    <3>1. /\ runs' = [runs EXCEPT ![v] = list] /\ Loads(v)
          /\ UNCHANGED <<now, head, admins, list, planning, transfers, recorded>>
      BY <2>9 DEF Reread, chainVars
    <3> QED
      BY <1>2, <3>1, RereadGoverns
  <2>10. CASE RolloutFails
    BY <1>2, <2>10, FailedGoverns
  <2>11. CASE UndoReturns
    BY <1>2, <2>11 DEF UndoReturns, chainVars, GovernedInv, OnAt, AllBy, inForce
  <2>12. CASE Dies
    BY <1>2, <2>12 DEF Dies, chainVars, GovernedInv, OnAt, AllBy, inForce
  <2>13. ASSUME NEW w \in Owners, TransferAsks(w), ~UNCHANGED governVars PROVE GovernedInv'
    BY <1>2, <2>13, AskGoverns
  <2>14. ASSUME NEW t \in transfers, TransferRefused(t) PROVE GovernedInv'
    BY <1>2, <2>14 DEF TransferRefused, chainVars, rolloutUpVars, GovernedInv, OnAt, AllBy, inForce
  <2>15. ASSUME NEW t \in transfers, Transfer(t) PROVE GovernedInv'
    <3>1. /\ recorded' = t.to /\ t.keys = {} /\ transfers' \subseteq transfers /\ inForce' = inForce
          /\ UNCHANGED <<head, admins, list, planning>>
      BY <2>15 DEF Transfer, chainVars, rolloutUpVars, inForce
    <3>2. planning = {} /\ AllBy(list, head) /\ AllBy(inForce, head)
      BY <1>2 DEF GovernedInv
    <3>3. \A k \in EveryKey : OnAt(k, head) => t.to \in admins[k]
      BY <1>2, <3>1 DEF GovernedInv
    <3>4. EnablesFor(list, head, t.to) /\ EnablesFor(inForce, head, t.to)
      <4>1. head \in Nat /\ list \in Seq(EntryType) /\ inForce \in Seq(EntryType)
        BY <1>2, UpgradeConstants DEF UpgradeInv, IsList, inForce
      <4>2. (\A i \in DOMAIN list : list[i].at \in Nat) /\ (\A i \in DOMAIN inForce : inForce[i].at \in Nat)
        BY <4>1, TimesAreNatural
      <4> QED
        BY <3>2, <4>1, <4>2 DEF EnablesFor, AllBy
    <3>5. \A k \in EveryKey : OnAt(k, head)' = OnAt(k, head)
      BY <3>1 DEF OnAt
    <3> QED
      BY <1>2, <3>1, <3>2, <3>3, <3>4, <3>5 DEF GovernedInv, AllBy
  <2>16. ASSUME NEW t \in transfers, NEW j \in EveryKey, RoleAnswered(t, j) PROVE GovernedInv'
    <3> DEFINE n == [t EXCEPT !.keys = @ \ {j}]
    <3>1. t = [to |-> t.to, keys |-> t.keys]
      BY <1>2 DEF UpgradeInv
    <3>2. n.to = t.to /\ n.keys = t.keys \ {j}
      BY <3>1
    <3> HIDE DEF n
    <3>3. /\ transfers' = (transfers \ {t}) \cup {n} /\ t.to \in admins[j] /\ inForce' = inForce
          /\ UNCHANGED <<head, admins, list, planning, recorded>>
      BY <2>16 DEF RoleAnswered, chainVars, rolloutUpVars, inForce, n
    <3>4. \A k \in EveryKey : OnAt(k, head) => k \in n.keys \/ n.to \in admins[k]
      BY <1>2, <3>2, <3>3 DEF GovernedInv
    <3>5. \A x \in transfers', k \in EveryKey : OnAt(k, head) => k \in x.keys \/ x.to \in admins[k]
      BY <1>2, <3>3, <3>4 DEF GovernedInv
    <3>6. \A k \in EveryKey : OnAt(k, head)' = OnAt(k, head)
      BY <3>3 DEF OnAt
    <3>7. planning = {} /\ AllBy(list, head) /\ AllBy(inForce, head)
      BY <1>2 DEF GovernedInv
    <3> QED
      BY <1>2, <3>3, <3>5, <3>6, <3>7 DEF GovernedInv, AllBy
  <2> QED
    BY <1>2, <2>1, <2>2, <2>3, <2>4, <2>5, <2>6, <2>7, <2>8, <2>9, <2>10, <2>11, <2>12, <2>13, <2>14, <2>15, <2>16
    DEF GovernNext
<1>3. UpgradeInv /\ GovernedInv => OwnerAdminsAll
  BY ConfiguredIs, FromTheHead
<1> QED
  BY <1>1, <1>2, <1>3, UpgradeInvariance, PTL DEF GovernSpec

-----------------------------------------------------------------------------
\* The generations of the network.  Where a chain's number is held: by the ledger of the machine, by a
\* list of the issued, or by the released ones; and a chain's name likewise.
ChainType == [name : Names, id : Ids]
LedgerType == [live : SUBSET ChainType, retired : SUBSET ChainType]
ListType == [ids : SUBSET Ids, names : SUBSET Names]

GenTypeOK ==
  /\ machine \in [ledger : LedgerType, issued : ListType, build : Nat, gen : Nat]
  /\ console \in [open : BOOLEAN, issued : ListType, build : Nat]
  /\ repo \in [archive : [Files -> SUBSET ChainType], issued : ListType, released : ListType, build : Nat]
  /\ pulled \in [ledger : LedgerType, fresh : BOOLEAN]

HeldBy(c, ids, names) == c.id \in ids \cup repo.released.ids /\ c.name \in names \cup repo.released.names

OnMachineOr(l) ==
  \A c \in created : HeldBy(c, IdsOf(Records(machine.ledger)) \cup l.ids, NamesOf(Records(machine.ledger)) \cup l.names)

\* With the door closed, a fresh pull has every record of the machine's ledger, and the checkout holds
\* the number and the name of each of them.
PullCovers ==
  ~console.open /\ pulled.fresh =>
    /\ Records(machine.ledger) \subseteq Records(pulled.ledger)
    /\ \A c \in Records(pulled.ledger) :
         HeldBy(c, IdsOf(Known) \cup repo.issued.ids, NamesOf(Known) \cup repo.issued.names)

\* Every chain there ever was is on the machine's ledger or in the list of the checkout, and as long as
\* the door is open also on the ledger or in the list the console read.
GenInv ==
  /\ GenTypeOK /\ NeverReissued /\ PullCovers
  /\ OnMachineOr(repo.issued) /\ (console.open => OnMachineOr(console.issued))

\* The ratchet of gen-chainid-issued.mjs: what a list had it has, or it was released.
LEMMA WriteOnlyGrows ==
  ASSUME GenTypeOK, Write
  PROVE  /\ repo' = [repo EXCEPT !.issued = Rebuilt] /\ repo'.issued = Rebuilt /\ Rebuilt \in ListType
         /\ repo'.released = repo.released /\ repo'.archive = repo.archive
         /\ repo.issued.ids \subseteq Rebuilt.ids \cup repo.released.ids
         /\ repo.issued.names \subseteq Rebuilt.names \cup repo.released.names
<1>1. Unaccounted(repo.issued, Rebuilt) = NoIssued
  BY DEF Write
<1>2. /\ repo.issued.ids \ (Rebuilt.ids \cup repo.released.ids) = {}
      /\ repo.issued.names \ (Rebuilt.names \cup repo.released.names) = {}
  BY <1>1 DEF Unaccounted, NoIssued
<1>3. Rebuilt \in ListType
  BY DEF Rebuilt, ListType, IdsOf, NamesOf, Known, GenTypeOK, ChainType
<1> QED
  BY <1>2, <1>3 DEF Write, GenTypeOK

LEMMA GenTypes == ASSUME GenTypeOK, [GenNext]_genVars PROVE GenTypeOK'
<1>1. CASE UNCHANGED genVars
  BY <1>1 DEF genVars, GenTypeOK
<1>2. ASSUME NEW n \in Names, NEW id \in Ids, Create(n, id) PROVE GenTypeOK'
  <2>1. [name |-> n, id |-> id] \in ChainType
    BY DEF ChainType
  <2> QED
    BY <1>2, <2>1 DEF Create, GenTypeOK, LedgerType
<1>3. ASSUME NEW c \in machine.ledger.live, Revoke(c) PROVE GenTypeOK'
  BY <1>3 DEF Revoke, GenTypeOK, LedgerType
<1>4. ASSUME CloseDoor \/ OpenDoor PROVE GenTypeOK'
  <2>1. machine' = machine /\ repo' = repo /\ pulled' = [pulled EXCEPT !.fresh = FALSE]
    BY <1>4 DEF CloseDoor, OpenDoor
  <2>2. PICK open \in BOOLEAN : console' = [open |-> open, issued |-> machine.issued, build |-> machine.build]
    BY <1>4 DEF CloseDoor, OpenDoor, Booted
  <2>3. machine.issued \in ListType /\ machine.build \in Nat
    BY DEF GenTypeOK
  <2>4. pulled' \in [ledger : LedgerType, fresh : BOOLEAN]
    BY <2>1 DEF GenTypeOK
  <2> QED
    BY <2>1, <2>2, <2>3, <2>4 DEF GenTypeOK
<1>5. CASE Write
  BY <1>5, WriteOnlyGrows DEF Write, GenTypeOK
<1>6. CASE ShipIssued \/ ShipBuild
  BY <1>6 DEF ShipIssued, ShipBuild, GenTypeOK
<1>7. CASE Upload
  BY <1>7 DEF Upload, Compacted, Records, GenTypeOK, LedgerType
<1>8. CASE Regenesis
  <2>1. PICK ledger \in {machine.ledger, Empty} : machine' = [machine EXCEPT !.gen = @ + 1, !.ledger = ledger]
    BY <1>8 DEF Regenesis
  <2>2. repo' = [repo EXCEPT !.build = machine.gen + 1] /\ console' = console /\ pulled' = pulled
    BY <1>8 DEF Regenesis
  <2>3. ledger \in LedgerType
    BY DEF GenTypeOK, LedgerType, Empty
  <2>4. machine' \in [ledger : LedgerType, issued : ListType, build : Nat, gen : Nat]
    <3>1. machine \in [ledger : LedgerType, issued : ListType, build : Nat, gen : Nat]
      BY DEF GenTypeOK
    <3>2. machine' = [ledger |-> ledger, issued |-> machine.issued, build |-> machine.build, gen |-> machine.gen + 1]
      BY <2>1, <3>1
    <3>3. machine.issued \in ListType /\ machine.build \in Nat /\ machine.gen + 1 \in Nat
      BY <3>1
    <3> QED
      BY <2>3, <3>2, <3>3
  <2>5. repo' \in [archive : [Files -> SUBSET ChainType], issued : ListType, released : ListType, build : Nat]
    BY <2>2 DEF GenTypeOK
  <2> QED
    BY <2>2, <2>4, <2>5 DEF GenTypeOK
<1>9. ASSUME NEW f \in Files, Pull(f) PROVE GenTypeOK'
  BY <1>9 DEF Pull, GenTypeOK, LedgerType, Records
<1>10. ASSUME NEW f \in Files, Lose(f) PROVE GenTypeOK'
  BY <1>10 DEF Lose, GenTypeOK
<1>11. ASSUME NEW c \in Known, Release(c) PROVE GenTypeOK'
  <2>1. c.id \in Ids /\ c.name \in Names
    BY DEF Known, GenTypeOK, ChainType
  <2> QED
    BY <1>11, <2>1 DEF Release, GenTypeOK, ListType
<1> QED
  BY <1>1, <1>2, <1>3, <1>4, <1>5, <1>6, <1>7, <1>8, <1>9, <1>10, <1>11 DEF GenNext

\* An operation after which every place still has what it had, and that creates no chain.
LEMMA HeldStays ==
  ASSUME GenInv, GenTypeOK', created' = created,
         IdsOf(Records(machine.ledger)) \subseteq IdsOf(Records(machine.ledger))' \cup repo'.issued.ids \cup repo'.released.ids,
         NamesOf(Records(machine.ledger)) \subseteq
           NamesOf(Records(machine.ledger))' \cup repo'.issued.names \cup repo'.released.names,
         repo.issued.ids \subseteq repo'.issued.ids \cup repo'.released.ids,
         repo.issued.names \subseteq repo'.issued.names \cup repo'.released.names,
         repo.released.ids \subseteq repo'.released.ids,
         repo.released.names \subseteq repo'.released.names
  PROVE  OnMachineOr(repo.issued)' /\ NeverReissued'
<1>1. OnMachineOr(repo.issued)'
  BY DEF GenInv, OnMachineOr, HeldBy
<1>2. NeverReissued'
  BY DEF GenInv, NeverReissued
<1> QED
  BY <1>1, <1>2

\* While the door stays open the console's list is as it was.
LEMMA OpenStays ==
  ASSUME GenInv, created' = created, console' = console, console.open,
         IdsOf(Records(machine.ledger)) \subseteq IdsOf(Records(machine.ledger))',
         NamesOf(Records(machine.ledger)) \subseteq NamesOf(Records(machine.ledger))',
         repo.released.ids \subseteq repo'.released.ids,
         repo.released.names \subseteq repo'.released.names
  PROVE  OnMachineOr(console.issued)'
BY DEF GenInv, OnMachineOr, HeldBy

LEMMA CreateKeeps ==
  ASSUME GenInv, GenTypeOK', NEW n \in Names, NEW id \in Ids, Create(n, id)
  PROVE  GenInv'
<1> DEFINE new == [name |-> n, id |-> id, nth |-> Cardinality(created) + 1]
<1>1. new.id = id /\ new.name = n
  OBVIOUS
<1>2. created' = created \cup {new} /\ console.open /\ console' = console /\ repo' = repo /\ pulled' = pulled
  BY DEF Create
<1> HIDE DEF new
<1>3. Records(machine.ledger)' = Records(machine.ledger) \cup {[name |-> n, id |-> id]}
  BY DEF Create, Records, GenInv, GenTypeOK, LedgerType
<1>4. /\ IdsOf(Records(machine.ledger))' = IdsOf(Records(machine.ledger)) \cup {id}
      /\ NamesOf(Records(machine.ledger))' = NamesOf(Records(machine.ledger)) \cup {n}
  <2> DEFINE c == [name |-> n, id |-> id]
  <2>1. c.id = id /\ c.name = n
    OBVIOUS
  <2> HIDE DEF c
  <2>2. Records(machine.ledger)' = Records(machine.ledger) \cup {c}
    BY <1>3 DEF c
  <2> QED
    BY <2>1, <2>2 DEF IdsOf, NamesOf
<1>5. /\ id \notin IdsOf(Records(machine.ledger)) \cup console.issued.ids
      /\ n \notin NamesOf(Records(machine.ledger)) \cup console.issued.names
  BY DEF Create, Free
<1>6. \A c \in created : /\ c.id = id => id \in repo.released.ids
                         /\ c.name = n => n \in repo.released.names
  BY <1>2, <1>5 DEF GenInv, OnMachineOr, HeldBy
<1>7. NeverReissued'
  BY <1>1, <1>2, <1>6 DEF GenInv, NeverReissued
<1>8. OnMachineOr(repo.issued)'
  BY <1>1, <1>2, <1>4 DEF GenInv, OnMachineOr, HeldBy
<1>9. OnMachineOr(console.issued)'
  BY <1>1, <1>2, <1>4 DEF GenInv, OnMachineOr, HeldBy
<1>10. PullCovers'
  BY <1>2 DEF PullCovers
<1> QED
  BY <1>7, <1>8, <1>9, <1>10 DEF GenInv

LEMMA RevokeKeeps ==
  ASSUME GenInv, GenTypeOK', NEW c \in machine.ledger.live, Revoke(c)
  PROVE  GenInv'
<1>1. Records(machine.ledger)' = Records(machine.ledger)
  BY DEF Revoke, Records, GenInv, GenTypeOK, LedgerType
<1>2. UNCHANGED <<console, repo, pulled, created>>
  BY DEF Revoke
<1>3. /\ IdsOf(Records(machine.ledger))' = IdsOf(Records(machine.ledger))
      /\ NamesOf(Records(machine.ledger))' = NamesOf(Records(machine.ledger))
  BY <1>1 DEF IdsOf, NamesOf
<1>4. OnMachineOr(repo.issued)' /\ NeverReissued'
  BY <1>2, <1>3, HeldStays
<1>5. console.open => OnMachineOr(console.issued)'
  BY <1>2, <1>3, OpenStays
<1>6. Known' = Known
  BY <1>2 DEF Known
<1>7. PullCovers'
  BY <1>1, <1>2, <1>6 DEF GenInv, PullCovers, HeldBy
<1> QED
  BY <1>2, <1>4, <1>5, <1>7 DEF GenInv

\* The door opens when the list on the machine, which the console reads then, is the checkout's.
LEMMA DoorKeeps ==
  ASSUME GenInv, GenTypeOK', CloseDoor \/ OpenDoor
  PROVE  GenInv'
<1>1. machine' = machine /\ repo' = repo /\ created' = created
  BY DEF CloseDoor, OpenDoor
<1>2. ~pulled'.fresh
  BY DEF CloseDoor, OpenDoor, GenInv, GenTypeOK
<1>3. OnMachineOr(repo.issued)' /\ NeverReissued' /\ PullCovers'
  BY <1>1, <1>2 DEF GenInv, OnMachineOr, HeldBy, NeverReissued, PullCovers
<1>4. CASE CloseDoor
  <2>1. ~console'.open
    BY <1>4 DEF CloseDoor, Booted
  <2> QED
    BY <1>3, <2>1 DEF GenInv
<1>5. CASE OpenDoor
  <2>1. console'.issued = repo'.issued
    BY <1>1, <1>5 DEF OpenDoor, Booted, Ready, Shipped
  <2>2. OnMachineOr(console.issued)'
    BY <1>3, <2>1 DEF OnMachineOr
  <2> QED
    BY <1>3, <2>2 DEF GenInv
<1> QED
  BY <1>4, <1>5

LEMMA WriteKeeps == ASSUME GenInv, GenTypeOK', Write PROVE GenInv'
<1>1. machine' = machine /\ console' = console /\ pulled' = pulled /\ created' = created
  BY DEF Write
<1>2. /\ repo'.released = repo.released /\ repo'.archive = repo.archive
      /\ repo.issued.ids \subseteq repo'.issued.ids \cup repo.released.ids
      /\ repo.issued.names \subseteq repo'.issued.names \cup repo.released.names
  BY WriteOnlyGrows DEF GenInv
<1>3. Known' = Known
  BY <1>2 DEF Known
<1>4. PullCovers'
  BY <1>1, <1>2, <1>3 DEF GenInv, PullCovers, HeldBy
<1>5. OnMachineOr(repo.issued)' /\ NeverReissued'
  BY <1>1, <1>2, HeldStays
<1>6. console.open => OnMachineOr(console.issued)'
  BY <1>1, <1>2, OpenStays
<1> QED
  BY <1>1, <1>4, <1>5, <1>6 DEF GenInv

LEMMA ShipKeeps == ASSUME GenInv, GenTypeOK', ShipIssued \/ ShipBuild PROVE GenInv'
<1>1. console' = console /\ repo' = repo /\ pulled' = pulled /\ created' = created
  BY DEF ShipIssued, ShipBuild
<1>2. machine'.ledger = machine.ledger
  BY DEF ShipIssued, ShipBuild, GenInv, GenTypeOK
<1> QED
  BY <1>1, <1>2 DEF GenInv, OnMachineOr, HeldBy, NeverReissued, PullCovers, Known

\* The compacted ledger has the records of the one that was pulled.
LEMMA UploadKeeps == ASSUME GenInv, GenTypeOK', Upload PROVE GenInv'
<1>1. ~console.open /\ pulled.fresh /\ console' = console /\ repo' = repo /\ pulled' = pulled /\ created' = created
  BY DEF Upload
<1>2. Records(machine.ledger)' = Records(pulled.ledger)
  BY DEF Upload, Compacted, Records, GenInv, GenTypeOK, LedgerType
<1>3. Records(machine.ledger) \subseteq Records(machine.ledger)'
  BY <1>1, <1>2 DEF GenInv, PullCovers
<1>4. /\ IdsOf(Records(machine.ledger)) \subseteq IdsOf(Records(machine.ledger))'
      /\ NamesOf(Records(machine.ledger)) \subseteq NamesOf(Records(machine.ledger))'
  BY <1>3 DEF IdsOf, NamesOf
<1>5. OnMachineOr(repo.issued)' /\ NeverReissued'
  BY <1>1, <1>4, HeldStays
<1>6. Known' = Known
  BY <1>1 DEF Known
<1>7. PullCovers'
  BY <1>1, <1>2, <1>6 DEF GenInv, PullCovers, HeldBy
<1> QED
  BY <1>1, <1>5, <1>7 DEF GenInv

\* The list is up to date with the archived ledgers when the network is erased, so what the machine's
\* ledger had is listed or released.
LEMMA RegenesisKeeps == ASSUME GenInv, GenTypeOK', Regenesis PROVE GenInv'
<1>1. ~console.open /\ pulled.fresh /\ repo.issued = Rebuilt
  BY DEF Regenesis, Checked
<1>2. console' = console /\ pulled' = pulled /\ created' = created
  BY DEF Regenesis
<1>3. repo'.issued = repo.issued /\ repo'.released = repo.released /\ repo'.archive = repo.archive
  BY DEF Regenesis, GenInv, GenTypeOK
<1>4. Records(machine.ledger)' \subseteq Records(machine.ledger)
  <2>1. machine'.ledger = machine.ledger \/ machine'.ledger = Empty
    BY DEF Regenesis, GenInv, GenTypeOK
  <2>2. Records(Empty) = {}
    BY DEF Records, Empty
  <2> QED
    BY <2>1, <2>2 DEF Records
<1>5. \A c \in Records(machine.ledger) :
        c.id \in repo.issued.ids \cup repo.released.ids /\ c.name \in repo.issued.names \cup repo.released.names
  <2>1. \A c \in Records(machine.ledger) : HeldBy(c, IdsOf(Known) \cup repo.issued.ids, NamesOf(Known) \cup repo.issued.names)
    BY <1>1 DEF GenInv, PullCovers
  <2>2. /\ IdsOf(Known) \subseteq repo.issued.ids \cup repo.released.ids
        /\ NamesOf(Known) \subseteq repo.issued.names \cup repo.released.names
    BY <1>1 DEF Rebuilt
  <2> QED
    BY <2>1, <2>2 DEF HeldBy
<1>6. /\ IdsOf(Records(machine.ledger)) \subseteq repo'.issued.ids \cup repo'.released.ids
      /\ NamesOf(Records(machine.ledger)) \subseteq repo'.issued.names \cup repo'.released.names
  BY <1>3, <1>5 DEF IdsOf, NamesOf
<1>7. OnMachineOr(repo.issued)' /\ NeverReissued'
  BY <1>2, <1>3, <1>6, HeldStays
<1>8. Known' = Known
  BY <1>3 DEF Known
<1>9. PullCovers'
  BY <1>1, <1>2, <1>3, <1>4, <1>8 DEF GenInv, PullCovers, HeldBy
<1> QED
  BY <1>1, <1>2, <1>7, <1>9 DEF GenInv

\* After a pull the archived ledgers have every record of the machine's, also when an older ledger of
\* the same day is overwritten.
LEMMA PullKeeps == ASSUME GenInv, GenTypeOK', NEW f \in Files, Pull(f) PROVE GenInv'
<1>1. machine' = machine /\ console' = console /\ created' = created
  BY DEF Pull
<1>2. pulled'.ledger = machine.ledger
  BY DEF Pull
<1>3. repo'.issued = repo.issued /\ repo'.released = repo.released
  BY DEF Pull, GenInv, GenTypeOK
<1>4. Records(machine.ledger) \subseteq Known'
  <2>1. CASE Records(machine.ledger) \subseteq Known
    BY <2>1 DEF Pull, Known
  <2>2. CASE ~(Records(machine.ledger) \subseteq Known)
    <3>1. repo'.archive[f] = Records(machine.ledger)
      BY <2>2 DEF Pull, GenInv, GenTypeOK
    <3> QED
      BY <3>1 DEF Known
  <2> QED
    BY <2>1, <2>2
<1>5. PullCovers'
  BY <1>1, <1>2, <1>4 DEF PullCovers, HeldBy, IdsOf, NamesOf
<1>6. OnMachineOr(repo.issued)' /\ NeverReissued'
  BY <1>1, <1>3, HeldStays
<1>7. console.open => OnMachineOr(console.issued)'
  BY <1>1, <1>3, OpenStays
<1> QED
  BY <1>1, <1>5, <1>6, <1>7 DEF GenInv

\* An archived ledger that goes missing was listed.
LEMMA LoseKeeps == ASSUME GenInv, GenTypeOK', NEW f \in Files, Lose(f) PROVE GenInv'
<1>1. machine' = machine /\ console' = console /\ pulled' = pulled /\ created' = created
  BY DEF Lose
<1>2. /\ repo'.issued = repo.issued /\ repo'.released = repo.released
      /\ \A g \in Files : g # f => repo'.archive[g] = repo.archive[g]
  BY DEF Lose, GenInv, GenTypeOK
<1>3. Known \subseteq Known' \cup repo.archive[f]
  BY <1>2 DEF Known
<1>4. /\ IdsOf(Known) \subseteq IdsOf(Known') \cup IdsOf(repo.archive[f])
      /\ NamesOf(Known) \subseteq NamesOf(Known') \cup NamesOf(repo.archive[f])
  BY <1>3 DEF IdsOf, NamesOf
<1>5. /\ IdsOf(Known) \subseteq IdsOf(Known)' \cup repo'.issued.ids \cup repo'.released.ids
      /\ NamesOf(Known) \subseteq NamesOf(Known)' \cup repo'.issued.names \cup repo'.released.names
  BY <1>2, <1>4 DEF Lose, Listed, IdsOf, NamesOf
<1>6. PullCovers'
  BY <1>1, <1>2, <1>5 DEF GenInv, PullCovers, HeldBy
<1>7. OnMachineOr(repo.issued)' /\ NeverReissued'
  BY <1>1, <1>2, HeldStays
<1>8. console.open => OnMachineOr(console.issued)'
  BY <1>1, <1>2, OpenStays
<1> QED
  BY <1>1, <1>6, <1>7, <1>8 DEF GenInv

LEMMA ReleaseKeeps == ASSUME GenInv, GenTypeOK', NEW c \in Known, Release(c) PROVE GenInv'
<1>1. machine' = machine /\ console' = console /\ pulled' = pulled /\ created' = created
  BY DEF Release
<1>2. /\ repo'.issued = repo.issued /\ repo'.archive = repo.archive
      /\ repo'.released = [ids |-> repo.released.ids \cup {c.id}, names |-> repo.released.names \cup {c.name}]
  BY DEF Release, GenInv, GenTypeOK
<1>3. repo.released.ids \subseteq repo'.released.ids /\ repo.released.names \subseteq repo'.released.names
  BY <1>2
<1>4. Known' = Known
  BY <1>2 DEF Known
<1>5. PullCovers'
  BY <1>1, <1>2, <1>3, <1>4 DEF GenInv, PullCovers, HeldBy
<1>6. OnMachineOr(repo.issued)' /\ NeverReissued'
  BY <1>1, <1>2, <1>3, HeldStays
<1>7. console.open => OnMachineOr(console.issued)'
  BY <1>1, <1>3, OpenStays
<1> QED
  BY <1>1, <1>5, <1>6, <1>7 DEF GenInv

THEOREM GenInvariance == GenSpec => []GenInv
<1>1. GenInit => GenInv
  <2> SUFFICES ASSUME GenInit PROVE GenInv
    OBVIOUS
  <2>1. GenTypeOK
    BY DEF GenInit, GenTypeOK, LedgerType, ListType, Empty, NoIssued
  <2> QED
    BY <2>1 DEF GenInit, GenInv, NeverReissued, PullCovers, OnMachineOr
<1>2. ASSUME GenInv, [GenNext]_genVars
      PROVE  GenInv'
  <2>1. GenTypeOK'
    BY <1>2, GenTypes DEF GenInv
  <2>2. CASE UNCHANGED genVars
    BY <1>2, <2>2 DEF genVars, GenInv, GenTypeOK, NeverReissued, PullCovers, OnMachineOr, HeldBy, Known
  <2> QED
    BY <1>2, <2>1, <2>2, CreateKeeps, RevokeKeeps, DoorKeeps, WriteKeeps, ShipKeeps, UploadKeeps, RegenesisKeeps,
       PullKeeps, LoseKeeps, ReleaseKeeps DEF GenNext
<1> QED
  BY <1>1, <1>2, PTL DEF GenSpec

\* A number or a name is given to one chain in all generations, unless it was released: for any number
\* of generations, of chains and of archived ledgers.
THEOREM IdentitiesAcrossGenerations == GenSpec => []NeverReissued
<1>1. GenInv => NeverReissued
  BY DEF GenInv
<1> QED
  BY <1>1, GenInvariance, PTL

-----------------------------------------------------------------------------
\* The rollout over the nodes.
Chains == SUBSET {"a", "b"}
RolloutType ==
  [kind : {"create", "revoke", "upgrade"}, phase : {"up", "wait", "restore", "undo"}, target : [Fleet -> Chains],
   todo : SUBSET Fleet, done : SUBSET Fleet, force : BOOLEAN, upped : SUBSET Fleet, named : SUBSET Fleet,
   compose : BOOLEAN, prev : Nat]

RolloutTypeOK ==
  /\ model \in {"unset", "every", "each"} /\ chainB \in {"absent", "pending", "recorded"}
  /\ file \in Nat /\ upgraded \in Nat
  /\ lists \in [Fleet -> Chains] /\ tracks \in [Fleet -> Chains] /\ loaded \in [Fleet -> Nat]
  /\ rollout = NoRollout \/ rollout \in RolloutType
  /\ model = "unset" => rollout = NoRollout /\ answer = NoAnswer
  /\ rollout # NoRollout => answer = NoAnswer
  /\ answer.kind \in {"undone", "incomplete"} => answer.upped \subseteq Fleet

Upgrading == rollout.kind = "upgrade"
GoingOut == rollout.phase \in {"up", "wait"}

\* What the disk has, and what it would be put back to, is not behind the ledger.
FileKept == upgraded <= file /\ (Upgrading => upgraded <= rollout.prev)

\* A node that is done runs the file of the upgrade, or tracks the list of the rollout, and no node the
\* rollout has to touch is left out.
UpgradeCarried ==
  Upgrading /\ GoingOut =>
    /\ rollout.force /\ Validators \subseteq rollout.todo \cup rollout.done
    /\ \A n \in rollout.done : loaded[n] = file

TracksCarried ==
  rollout.kind \in {"create", "revoke"} =>
    /\ GoingOut /\ lists = rollout.target
    /\ model = "every" => rollout.todo \cup rollout.done = Fleet
    /\ model = "every" => \A n \in rollout.done : tracks[n] = rollout.target[n]

WaitsOnTouched ==
  rollout # NoRollout /\ rollout.phase = "wait" =>
    /\ rollout.todo # {}
    /\ model = "every" /\ ~Upgrading => \A n \in rollout.todo : First(n, rollout.todo) => tracks[n] = rollout.target[n]

\* Which containers an upgrade has brought up, in each phase.
UppedKnown ==
  Upgrading =>
    /\ rollout.phase = "up" => rollout.upped \subseteq rollout.done
    /\ rollout.phase = "wait" => \A n \in rollout.upped : n \in rollout.done \/ First(n, rollout.todo)
    /\ rollout.phase = "restore" /\ ~rollout.compose => rollout.upped \subseteq rollout.todo
    /\ rollout.phase = "undo" /\ ~rollout.compose =>
         \A n \in rollout.upped : loaded[n] <= file \/ n \in rollout.named \/ n \in rollout.todo

RolloutInv ==
  /\ RolloutTypeOK
  /\ FileKept /\ UpgradeCarried /\ TracksCarried /\ WaitsOnTouched /\ UppedKnown
  /\ RecordedIsRun /\ TouchedOrNamed /\ EveryNodeTracks

LEMMA FirstIsOne ==
  ASSUME NEW nodes \in SUBSET Fleet, NEW n, NEW m, First(n, nodes), First(m, nodes)
  PROVE  n = m
<1>1. Order \in Seq(ToSet(Order)) /\ IsInjective(Order)
  BY RolloutConstants
<1>2. DOMAIN Order \subseteq Nat
  BY <1>1
<1>3. n \in Fleet /\ m \in Fleet
  BY DEF First
<1>4. \A k \in Fleet : Position(k) \in DOMAIN Order /\ Order[Position(k)] = k
  BY DEF Fleet, ToSet, Position
<1>5. Position(n) <= Position(m) /\ Position(m) <= Position(n)
  BY DEF First
<1>6. Position(n) = Position(m)
  BY <1>2, <1>3, <1>4, <1>5
<1> QED
  BY <1>3, <1>4, <1>6

LEMMA ValidatorsRun == Validators \subseteq Fleet /\ PublicNode \in Fleet
<1>1. Order \in Seq(ToSet(Order)) /\ Order # <<>>
  BY RolloutConstants
<1>2. Len(Order) \in DOMAIN Order
  BY <1>1
<1> QED
  BY <1>2, RolloutConstants DEF Fleet, PublicNode, Last, ToSet

\* A container created anew reads the file on disk.
LEMMA RecreateReads ==
  ASSUME RolloutTypeOK, NEW n \in Fleet, NEW l \in Chains, Recreate(n, l)
  PROVE  /\ tracks' \in [Fleet -> Chains] /\ loaded' \in [Fleet -> Nat]
         /\ tracks'[n] = l /\ loaded'[n] = file
         /\ \A m \in Fleet : m # n => tracks'[m] = tracks[m] /\ loaded'[m] = loaded[m]
BY DEF Recreate, RolloutTypeOK

\* compose up leaves the container with its list on disk, and a forced one with the file on disk.
LEMMA ComposeReads ==
  ASSUME RolloutTypeOK, NEW n \in Fleet, NEW force \in BOOLEAN, ComposeUp(n, force)
  PROVE  /\ tracks' \in [Fleet -> Chains] /\ loaded' \in [Fleet -> Nat]
         /\ tracks'[n] = lists[n] /\ loaded'[n] \in {loaded[n], file} /\ (force => loaded'[n] = file)
         /\ \A m \in Fleet : m # n => tracks'[m] = tracks[m] /\ loaded'[m] = loaded[m]
<1>1. lists[n] \in Chains
  BY DEF RolloutTypeOK
<1>2. CASE force \/ tracks[n] # lists[n]
  <2>1. Recreate(n, lists[n])
    BY <1>2 DEF ComposeUp
  <2> QED
    BY <1>1, <2>1, RecreateReads
<1>3. CASE ~(force \/ tracks[n] # lists[n])
  <2>1. UNCHANGED nodesVars
    BY <1>3 DEF ComposeUp
  <2> QED
    BY <1>3, <2>1 DEF nodesVars, RolloutTypeOK
<1> QED
  BY <1>2, <1>3

\* What a node reads is the file on disk, which is not behind the ledger.
LEMMA ReadsOnlyTheFile ==
  ASSUME RolloutTypeOK, FileKept, RecordedIsRun, upgraded' = upgraded,
         \A m \in Fleet : loaded'[m] \in {loaded[m], file}
  PROVE  RecordedIsRun'
<1> SUFFICES ASSUME NEW m \in Validators PROVE loaded'[m] >= upgraded'
  BY DEF RecordedIsRun
<1>1. m \in Fleet
  BY ValidatorsRun
<1> QED
  BY <1>1 DEF RolloutTypeOK, FileKept, RecordedIsRun

LEMMA TargetsAreLists == \A b : TargetLists(b) \in [Fleet -> Chains]
BY DEF TargetLists, Chains

LEMMA UnderWay ==
  ASSUME RolloutTypeOK, rollout.kind # "none"
  PROVE  rollout \in RolloutType /\ rollout # NoRollout /\ answer = NoAnswer /\ model # "unset"
BY DEF RolloutTypeOK, NoRollout

\* The next rollout replaces the answer to the last one.
LEMMA BegunAs ==
  ASSUME RolloutTypeOK, NEW kind \in {"create", "revoke", "upgrade"}, NEW phase \in {"up", "restore"},
         NEW target \in [Fleet -> Chains], NEW todo \in SUBSET Fleet, Begin(kind, phase, target, todo)
  PROVE  /\ rollout' \in RolloutType /\ rollout' # NoRollout /\ answer' = NoAnswer
         /\ rollout'.kind = kind /\ rollout'.phase = phase /\ rollout'.target = target /\ rollout'.todo = todo
         /\ rollout'.done = {} /\ (kind = "upgrade" => rollout'.force) /\ rollout'.upped = {} /\ rollout'.prev = file
<1>1. rollout' = [kind |-> kind, phase |-> phase, target |-> target, todo |-> todo, done |-> {},
                  force |-> kind = "upgrade", upped |-> {}, named |-> {}, compose |-> FALSE, prev |-> file]
  BY DEF Begin
<1>2. rollout'.kind # "none"
  BY <1>1
<1>3. kind = "upgrade" => rollout'.force
  BY <1>1
<1>4. (kind = "upgrade") \in BOOLEAN
  OBVIOUS
<1>5. rollout' \in RolloutType
  BY <1>1, <1>4 DEF RolloutTypeOK, RolloutType
<1> QED
  BY <1>1, <1>2, <1>3, <1>5 DEF Begin, NoRollout

LEMMA StartKeeps == ASSUME RolloutInv, NEW m \in {"every", "each"}, StartModel(m) PROVE RolloutInv'
<1>1. rollout = NoRollout /\ answer = NoAnswer
  BY DEF StartModel, RolloutInv, RolloutTypeOK
<1>2. /\ model' = m /\ tracks' = lists' /\ rollout' = rollout /\ answer' = answer
      /\ chainB' = chainB /\ upgraded' = upgraded /\ file' = file /\ loaded' = loaded
  BY DEF StartModel, ledgerVars
<1>3. lists' \in [Fleet -> Chains]
  BY DEF StartModel, Chains
<1>4. rollout'.kind = "none" /\ answer'.kind = "none"
  BY <1>1, <1>2 DEF NoRollout, NoAnswer
<1>5. RolloutTypeOK'
  BY <1>1, <1>2, <1>3, <1>4 DEF RolloutInv, RolloutTypeOK
<1> QED
  BY <1>1, <1>2, <1>4, <1>5
     DEF RolloutInv, FileKept, Upgrading, UpgradeCarried, TracksCarried, WaitsOnTouched, UppedKnown, RecordedIsRun,
         TouchedOrNamed, EveryNodeTracks

\* A rollout of tracks: every node is to do in the every-node model.
LEMMA BeginTracksKeeps ==
  ASSUME RolloutInv, NEW kind \in {"create", "revoke"}, BeginTracks(kind)
  PROVE  RolloutInv'
<1> DEFINE target == TargetLists(IF kind = "create" THEN "recorded" ELSE "absent")
<1>1. /\ model # "unset" /\ rollout = NoRollout /\ model' = model /\ upgraded' = upgraded /\ file' = file
      /\ tracks' = tracks /\ loaded' = loaded /\ chainB' \in {"absent", "pending", "recorded"}
  BY DEF BeginTracks, nodesVars, RolloutInv, RolloutTypeOK
<1>2. target \in [Fleet -> Chains]
  BY TargetsAreLists
<1>3. CASE OverTheWall(target)
  <2>1. UNCHANGED <<lists, rollout, answer, rollouts>>
    BY <1>3 DEF BeginTracks
  <2>2. RolloutTypeOK'
    BY <1>1, <2>1 DEF RolloutInv, RolloutTypeOK
  <2> QED
    BY <1>1, <2>1, <2>2
       DEF RolloutInv, FileKept, Upgrading, UpgradeCarried, TracksCarried, WaitsOnTouched, UppedKnown, RecordedIsRun,
           TouchedOrNamed, EveryNodeTracks, GoingOut
<1>4. CASE ~OverTheWall(target)
  <2>1. Begin(kind, "up", target, Touches(target)) /\ lists' = target
    BY <1>4 DEF BeginTracks
  <2>2. Touches(target) \in SUBSET Fleet /\ (model = "every" => Touches(target) = Fleet)
    BY DEF Touches
  <2> HIDE DEF target
  <2>3. RolloutTypeOK
    BY DEF RolloutInv
  <2>4. /\ rollout' \in RolloutType /\ rollout' # NoRollout /\ answer' = NoAnswer
        /\ rollout'.kind = kind /\ rollout'.phase = "up" /\ rollout'.target = target /\ rollout'.todo = Touches(target)
        /\ rollout'.done = {} /\ rollout'.upped = {} /\ rollout'.prev = file
    BY <1>2, <2>1, <2>2, <2>3, BegunAs
  <2>5. answer'.kind = "none"
    BY <2>4 DEF NoAnswer
  <2>6. RolloutTypeOK'
    BY <1>1, <1>2, <2>1, <2>3, <2>4, <2>5 DEF RolloutTypeOK
  <2> QED
    BY <1>1, <2>1, <2>2, <2>4, <2>5, <2>6
       DEF RolloutInv, FileKept, Upgrading, UpgradeCarried, TracksCarried, WaitsOnTouched, UppedKnown, RecordedIsRun,
           TouchedOrNamed, EveryNodeTracks, GoingOut
<1> QED
  BY <1>3, <1>4

\* An upgrade: every validator is to do, unless the wall stops it before the first.
LEMMA BeginUpgradeKeeps == ASSUME RolloutInv, BeginUpgrade PROVE RolloutInv'
<1> DEFINE target == TargetLists(chainB)
<1>1. /\ model # "unset" /\ rollout = NoRollout /\ model' = model /\ upgraded' = upgraded /\ file' = file + 1
      /\ tracks' = tracks /\ loaded' = loaded /\ chainB' = chainB
  BY DEF BeginUpgrade, nodesVars, ledgerVars
<1>2. target \in [Fleet -> Chains]
  BY TargetsAreLists
<1>3. RolloutTypeOK /\ Validators \in SUBSET Fleet
  BY ValidatorsRun DEF RolloutInv
<1>4. PICK phase \in {"up", "restore"}, todo \in SUBSET Fleet :
        /\ Begin("upgrade", phase, target, todo) /\ lists' \in [Fleet -> Chains]
        /\ phase = "up" => todo = Validators
  <2>1. CASE OverTheWall(target)
    BY <1>3, <2>1 DEF BeginUpgrade, RolloutTypeOK
  <2>2. CASE ~OverTheWall(target)
    <3>1. Begin("upgrade", "up", target, UpgradeTouches) /\ lists' = target
      BY <2>2 DEF BeginUpgrade
    <3> QED
      BY <1>2, <1>3, <3>1 DEF UpgradeTouches
  <2> QED
    BY <2>1, <2>2
<1> HIDE DEF target
<1>5. /\ rollout' \in RolloutType /\ rollout' # NoRollout /\ answer' = NoAnswer
      /\ rollout'.kind = "upgrade" /\ rollout'.phase = phase /\ rollout'.target = target /\ rollout'.todo = todo
      /\ rollout'.done = {} /\ rollout'.force /\ rollout'.upped = {} /\ rollout'.prev = file
  <2>1. "upgrade" \in {"create", "revoke", "upgrade"}
    OBVIOUS
  <2> QED
    BY <1>2, <1>3, <1>4, <2>1, BegunAs
<1>6. answer'.kind = "none"
  BY <1>5 DEF NoAnswer
<1>7. RolloutTypeOK'
  BY <1>1, <1>3, <1>4, <1>5, <1>6 DEF RolloutTypeOK
<1>8. FileKept'
  BY <1>1, <1>3, <1>5 DEF RolloutInv, FileKept, Upgrading, RolloutTypeOK
<1>9. RecordedIsRun' /\ TouchedOrNamed' /\ EveryNodeTracks'
  BY <1>1, <1>6 DEF RolloutInv, RecordedIsRun, TouchedOrNamed, EveryNodeTracks
<1>10. UpgradeCarried' /\ TracksCarried' /\ WaitsOnTouched' /\ UppedKnown'
  BY <1>4, <1>5 DEF UpgradeCarried, TracksCarried, WaitsOnTouched, UppedKnown, Upgrading, GoingOut
<1> QED
  BY <1>7, <1>8, <1>9, <1>10 DEF RolloutInv

\* A rollout of tracks that fails is over, one of an upgrade is undone on the nodes it names.
LEMMA FailKeeps ==
  ASSUME RolloutInv, rollout.kind # "none",
         NEW done \in SUBSET Fleet, NEW failed \in SUBSET Fleet, NEW upped \in SUBSET Fleet, NEW compose \in BOOLEAN,
         FailWith(done, failed, upped, compose), compose \/ upped \subseteq done \cup failed,
         UNCHANGED <<model, ledgerVars, diskVars>>, tracks' \in [Fleet -> Chains], loaded' \in [Fleet -> Nat],
         \A m \in Fleet : loaded'[m] \in {loaded[m], file}
  PROVE  RolloutInv'
<1>1. RolloutTypeOK /\ rollout \in RolloutType /\ rollout # NoRollout /\ answer = NoAnswer /\ model # "unset"
  BY UnderWay DEF RolloutInv
<1>2. model' = model /\ chainB' = chainB /\ upgraded' = upgraded /\ lists' = lists /\ file' = file
  BY DEF ledgerVars, diskVars
<1>3. RecordedIsRun'
  BY <1>1, <1>2, ReadsOnlyTheFile DEF RolloutInv
<1>4. CASE rollout.kind = "upgrade"
  <2>1. /\ rollout' = [rollout EXCEPT !.phase = "restore", !.todo = done \cup failed, !.upped = upped, !.compose = compose]
        /\ answer' = answer
    BY <1>4 DEF FailWith, ToUndo
  <2>2. /\ rollout' \in RolloutType /\ rollout'.kind = "upgrade" /\ rollout'.phase = "restore"
        /\ rollout'.todo = done \cup failed /\ rollout'.upped = upped /\ rollout'.compose = compose
        /\ rollout'.prev = rollout.prev
    BY <1>1, <1>4, <2>1 DEF RolloutType
  <2>3. answer'.kind = "none" /\ answer' = NoAnswer
    BY <1>1, <2>1 DEF NoAnswer
  <2>4. RolloutTypeOK'
    BY <1>1, <1>2, <2>2, <2>3 DEF RolloutTypeOK
  <2>5. FileKept'
    BY <1>2, <1>4, <2>2 DEF RolloutInv, FileKept, Upgrading
  <2>6. UpgradeCarried' /\ TracksCarried' /\ WaitsOnTouched' /\ UppedKnown' /\ TouchedOrNamed' /\ EveryNodeTracks'
    BY <2>2, <2>3 DEF UpgradeCarried, TracksCarried, WaitsOnTouched, UppedKnown, Upgrading, GoingOut, TouchedOrNamed,
                      EveryNodeTracks
  <2> QED
    BY <1>3, <2>4, <2>5, <2>6 DEF RolloutInv
<1>5. CASE rollout.kind # "upgrade"
  <2>1. rollout' = NoRollout /\ answer' = [kind |-> "failed"]
    BY <1>5 DEF FailWith
  <2>2. rollout'.kind = "none" /\ answer'.kind = "failed"
    BY <2>1 DEF NoRollout
  <2>3. RolloutTypeOK'
    BY <1>1, <1>2, <2>1, <2>2 DEF RolloutTypeOK
  <2> QED
    BY <1>2, <1>3, <2>1, <2>2, <2>3
       DEF RolloutInv, FileKept, UpgradeCarried, TracksCarried, WaitsOnTouched, UppedKnown, Upgrading, TouchedOrNamed,
           EveryNodeTracks
<1> QED
  BY <1>4, <1>5

\* A container is brought up: it runs the file, or tracks the list, of the rollout.
LEMMA UpKeeps == ASSUME RolloutInv, Up PROVE RolloutInv'
<1>1. RolloutTypeOK /\ rollout \in RolloutType /\ rollout # NoRollout /\ answer = NoAnswer /\ model # "unset"
  BY UnderWay DEF RolloutInv, Up
<1>2. /\ rollout.kind # "none" /\ rollout.phase = "up" /\ rollout.todo # {}
      /\ UNCHANGED <<model, ledgerVars, diskVars>>
  BY DEF Up
<1>3. model' = model /\ chainB' = chainB /\ upgraded' = upgraded /\ lists' = lists /\ file' = file
  BY <1>2 DEF ledgerVars, diskVars
<1>4. /\ rollout.todo \in SUBSET Fleet /\ rollout.done \in SUBSET Fleet /\ rollout.upped \in SUBSET Fleet
      /\ rollout.force \in BOOLEAN
  BY <1>1 DEF RolloutType
<1>5. ASSUME UNCHANGED nodesVars, FailWith({}, {}, rollout.upped, TRUE) PROVE RolloutInv'
  <2>1. tracks' = tracks /\ loaded' = loaded
    BY <1>5 DEF nodesVars
  <2>2. tracks' \in [Fleet -> Chains] /\ loaded' \in [Fleet -> Nat] /\ \A m \in Fleet : loaded'[m] \in {loaded[m], file}
    BY <1>1, <2>1 DEF RolloutTypeOK
  <2>3. {} \in SUBSET Fleet /\ TRUE \in BOOLEAN
    OBVIOUS
  <2> QED
    BY <1>2, <1>4, <1>5, <2>2, <2>3, FailKeeps
<1>6. ASSUME NEW n \in rollout.todo, First(n, rollout.todo), ComposeUp(n, rollout.force),
             \/ rollout' = [rollout EXCEPT !.phase = "wait", !.upped = rollout.upped \cup {n}] /\ answer' = answer
             \/ FailWith(rollout.done, {n}, rollout.upped \cup {n}, FALSE)
      PROVE  RolloutInv'
  <2>1. n \in Fleet
    BY <1>4
  <2>2. /\ tracks' \in [Fleet -> Chains] /\ loaded' \in [Fleet -> Nat]
        /\ tracks'[n] = lists[n] /\ loaded'[n] \in {loaded[n], file} /\ (rollout.force => loaded'[n] = file)
        /\ \A m \in Fleet : m # n => tracks'[m] = tracks[m] /\ loaded'[m] = loaded[m]
    BY <1>1, <1>4, <1>6, <2>1, ComposeReads
  <2>3. \A m \in Fleet : loaded'[m] \in {loaded[m], file}
    BY <2>2
  <2>4. rollout.kind = "upgrade" => rollout.upped \subseteq rollout.done
    BY <1>2 DEF RolloutInv, UppedKnown, Upgrading
  <2>5. CASE FailWith(rollout.done, {n}, rollout.upped \cup {n}, FALSE)
    <3>1. CASE rollout.kind = "upgrade"
      <4>1. {n} \in SUBSET Fleet /\ rollout.upped \cup {n} \in SUBSET Fleet /\ FALSE \in BOOLEAN
        BY <1>4, <2>1
      <4>2. rollout.upped \cup {n} \subseteq rollout.done \cup {n}
        BY <2>4, <3>1
      <4> QED
        BY <1>2, <1>4, <2>2, <2>3, <2>5, <4>1, <4>2, FailKeeps
    <3>2. CASE rollout.kind # "upgrade"
      <4>1. FailWith(rollout.done, {n}, {}, FALSE)
        BY <2>5, <3>2 DEF FailWith
      <4>2. {n} \in SUBSET Fleet /\ {} \in SUBSET Fleet /\ FALSE \in BOOLEAN
        BY <2>1
      <4> QED
        BY <1>2, <1>4, <2>2, <2>3, <4>1, <4>2, FailKeeps
    <3> QED
      BY <3>1, <3>2
  <2>6. CASE rollout' = [rollout EXCEPT !.phase = "wait", !.upped = rollout.upped \cup {n}] /\ answer' = answer
    <3>1. /\ rollout' \in RolloutType /\ rollout'.phase = "wait" /\ rollout'.upped = rollout.upped \cup {n}
          /\ rollout'.kind = rollout.kind /\ rollout'.todo = rollout.todo /\ rollout'.done = rollout.done
          /\ rollout'.force = rollout.force /\ rollout'.prev = rollout.prev /\ rollout'.target = rollout.target
      BY <1>1, <1>4, <2>1, <2>6 DEF RolloutType
    <3>2. answer'.kind = "none" /\ answer' = NoAnswer
      BY <1>1, <2>6 DEF NoAnswer
    <3>3. RolloutTypeOK'
      BY <1>1, <1>3, <2>2, <3>1, <3>2 DEF RolloutTypeOK
    <3>4. FileKept'
      BY <1>3, <3>1 DEF RolloutInv, FileKept, Upgrading
    <3>5. UpgradeCarried'
      <4> SUFFICES ASSUME rollout.kind = "upgrade"
                   PROVE  /\ rollout.force /\ Validators \subseteq rollout.todo \cup rollout.done
                          /\ \A m \in rollout.done : loaded'[m] = file
        BY <1>3, <3>1 DEF UpgradeCarried, Upgrading
      <4>1. /\ rollout.force /\ Validators \subseteq rollout.todo \cup rollout.done
            /\ \A m \in rollout.done : loaded[m] = file
        BY <1>2 DEF RolloutInv, UpgradeCarried, Upgrading, GoingOut
      <4> QED
        BY <1>4, <2>3, <4>1
    <3>6. TracksCarried'
      <4> SUFFICES ASSUME rollout.kind \in {"create", "revoke"}
                   PROVE  /\ lists = rollout.target
                          /\ model = "every" => rollout.todo \cup rollout.done = Fleet
                          /\ model = "every" => \A m \in rollout.done : tracks'[m] = rollout.target[m]
        BY <1>3, <3>1 DEF TracksCarried, GoingOut
      <4>1. /\ lists = rollout.target
            /\ model = "every" => rollout.todo \cup rollout.done = Fleet
            /\ model = "every" => \A m \in rollout.done : tracks[m] = rollout.target[m]
        BY DEF RolloutInv, TracksCarried
      <4> QED
        BY <1>4, <2>2, <4>1
    <3>7. WaitsOnTouched'
      <4> SUFFICES ASSUME model = "every", rollout.kind # "upgrade", NEW m \in rollout.todo, First(m, rollout.todo)
                   PROVE  tracks'[m] = rollout.target[m]
        BY <1>2, <1>3, <3>1 DEF WaitsOnTouched, Upgrading
      <4>1. m = n
        BY <1>4, <1>6, FirstIsOne
      <4>2. lists = rollout.target
        BY <1>1 DEF RolloutInv, TracksCarried, RolloutType
      <4> QED
        BY <2>2, <4>1, <4>2
    <3>8. UppedKnown'
      BY <1>6, <2>4, <3>1 DEF UppedKnown, Upgrading
    <3>9. RecordedIsRun'
      BY <1>1, <1>3, <2>3, ReadsOnlyTheFile DEF RolloutInv
    <3>10. TouchedOrNamed' /\ EveryNodeTracks'
      BY <3>2 DEF TouchedOrNamed, EveryNodeTracks
    <3> QED
      BY <3>3, <3>4, <3>5, <3>6, <3>7, <3>8, <3>9, <3>10 DEF RolloutInv
  <2> QED
    BY <1>6, <2>5, <2>6
<1> QED
  BY <1>5, <1>6 DEF Up

\* The node answers: it is done.
LEMMA WaitKeeps == ASSUME RolloutInv, Wait PROVE RolloutInv'
<1>1. RolloutTypeOK /\ rollout \in RolloutType /\ rollout # NoRollout /\ answer = NoAnswer /\ model # "unset"
  BY UnderWay DEF RolloutInv, Wait
<1>2. rollout.kind # "none" /\ rollout.phase = "wait" /\ UNCHANGED <<model, ledgerVars, diskVars, nodesVars>>
  BY DEF Wait
<1>3. /\ model' = model /\ chainB' = chainB /\ upgraded' = upgraded /\ lists' = lists /\ file' = file
      /\ tracks' = tracks /\ loaded' = loaded
  BY <1>2 DEF ledgerVars, diskVars, nodesVars
<1>4. /\ rollout.todo \in SUBSET Fleet /\ rollout.done \in SUBSET Fleet /\ rollout.upped \in SUBSET Fleet
      /\ rollout.force \in BOOLEAN
  BY <1>1 DEF RolloutType
<1>5. tracks' \in [Fleet -> Chains] /\ loaded' \in [Fleet -> Nat] /\ \A m \in Fleet : loaded'[m] \in {loaded[m], file}
  BY <1>1, <1>3 DEF RolloutTypeOK
<1>6. PICK n \in rollout.todo :
        /\ First(n, rollout.todo)
        /\ \/ /\ ChainAsRequired(n)
              /\ rollout' = [rollout EXCEPT !.phase = "up", !.todo = rollout.todo \ {n}, !.done = rollout.done \cup {n}]
              /\ answer' = answer
           \/ FailWith(rollout.done, {n}, rollout.upped, FALSE)
  BY DEF Wait
<1>7. n \in Fleet
  BY <1>4
<1>8. rollout.kind = "upgrade" => rollout.upped \subseteq rollout.done \cup {n}
  <2> SUFFICES ASSUME rollout.kind = "upgrade", NEW m \in rollout.upped PROVE m \in rollout.done \/ m = n
    OBVIOUS
  <2>1. m \in rollout.done \/ First(m, rollout.todo)
    BY <1>2 DEF RolloutInv, UppedKnown, Upgrading
  <2> QED
    BY <1>4, <1>6, <2>1, FirstIsOne
<1>9. CASE FailWith(rollout.done, {n}, rollout.upped, FALSE)
  <2>1. {n} \in SUBSET Fleet /\ {} \in SUBSET Fleet /\ FALSE \in BOOLEAN
    BY <1>7
  <2>2. CASE rollout.kind = "upgrade"
    BY <1>2, <1>4, <1>5, <1>8, <1>9, <2>1, <2>2, FailKeeps
  <2>3. CASE rollout.kind # "upgrade"
    <3>1. FailWith(rollout.done, {n}, {}, FALSE)
      BY <1>9, <2>3 DEF FailWith
    <3> QED
      BY <1>2, <1>4, <1>5, <2>1, <3>1, FailKeeps
  <2> QED
    BY <2>2, <2>3
<1>10. CASE /\ ChainAsRequired(n)
            /\ rollout' = [rollout EXCEPT !.phase = "up", !.todo = rollout.todo \ {n}, !.done = rollout.done \cup {n}]
            /\ answer' = answer
  <2>1. /\ rollout' \in RolloutType /\ rollout'.phase = "up" /\ rollout'.upped = rollout.upped
        /\ rollout'.kind = rollout.kind /\ rollout'.todo = rollout.todo \ {n} /\ rollout'.done = rollout.done \cup {n}
        /\ rollout'.force = rollout.force /\ rollout'.prev = rollout.prev /\ rollout'.target = rollout.target
    BY <1>1, <1>4, <1>7, <1>10 DEF RolloutType
  <2>2. answer'.kind = "none" /\ answer' = NoAnswer
    BY <1>1, <1>10 DEF NoAnswer
  <2>3. RolloutTypeOK'
    BY <1>1, <1>3, <1>5, <2>1, <2>2 DEF RolloutTypeOK
  <2>4. FileKept'
    BY <1>3, <2>1 DEF RolloutInv, FileKept, Upgrading
  <2>5. UpgradeCarried'
    <3> SUFFICES ASSUME rollout.kind = "upgrade"
                 PROVE  /\ rollout.force /\ Validators \subseteq (rollout.todo \ {n}) \cup (rollout.done \cup {n})
                        /\ \A m \in rollout.done \cup {n} : loaded[m] = file
      BY <1>3, <2>1 DEF UpgradeCarried, Upgrading
    <3>1. /\ rollout.force /\ Validators \subseteq rollout.todo \cup rollout.done
          /\ \A m \in rollout.done : loaded[m] = file
      BY <1>2 DEF RolloutInv, UpgradeCarried, Upgrading, GoingOut
    <3>2. loaded[n] = file
      BY <1>10, <3>1 DEF ChainAsRequired
    <3> QED
      BY <3>1, <3>2
  <2>6. TracksCarried'
    <3> SUFFICES ASSUME rollout.kind \in {"create", "revoke"}
                 PROVE  /\ lists = rollout.target
                        /\ model = "every" => (rollout.todo \ {n}) \cup (rollout.done \cup {n}) = Fleet
                        /\ model = "every" => \A m \in rollout.done \cup {n} : tracks[m] = rollout.target[m]
      BY <1>3, <2>1 DEF TracksCarried, GoingOut
    <3>1. /\ lists = rollout.target
          /\ model = "every" => rollout.todo \cup rollout.done = Fleet
          /\ model = "every" => \A m \in rollout.done : tracks[m] = rollout.target[m]
      BY DEF RolloutInv, TracksCarried
    <3>2. model = "every" => tracks[n] = rollout.target[n]
      BY <1>1, <1>2, <1>6 DEF RolloutInv, WaitsOnTouched, Upgrading
    <3> QED
      BY <1>7, <3>1, <3>2
  <2>7. WaitsOnTouched'
    BY <2>1 DEF WaitsOnTouched
  <2>8. UppedKnown'
    BY <1>8, <2>1 DEF UppedKnown, Upgrading
  <2>9. RecordedIsRun'
    BY <1>3 DEF RolloutInv, RecordedIsRun
  <2>10. TouchedOrNamed' /\ EveryNodeTracks'
    BY <2>2 DEF TouchedOrNamed, EveryNodeTracks
  <2> QED
    BY <2>3, <2>4, <2>5, <2>6, <2>7, <2>8, <2>9, <2>10 DEF RolloutInv
<1> QED
  BY <1>6, <1>9, <1>10

\* The rollout returns with nothing left to do: every validator runs the upgrade that is recorded, and
\* every node tracks the list.
LEMMA ReturnKeeps == ASSUME RolloutInv, Return PROVE RolloutInv'
<1>1. RolloutTypeOK /\ rollout \in RolloutType /\ rollout # NoRollout /\ answer = NoAnswer /\ model # "unset"
  BY UnderWay DEF RolloutInv, Return
<1>2. /\ rollout.phase = "up" /\ rollout.todo = {} /\ rollout' = NoRollout
      /\ model' = model /\ lists' = lists /\ file' = file /\ tracks' = tracks /\ loaded' = loaded
  BY DEF Return, diskVars, nodesVars
<1>3. rollout'.kind = "none"
  BY <1>2 DEF NoRollout
<1>4. CASE rollout.kind = "upgrade"
  <2>1. /\ upgraded' \in {upgraded, file} /\ chainB' = chainB
        /\ answer' \in {[kind |-> "upgraded"], [kind |-> "unrecorded"]}
    BY <1>4 DEF Return
  <2>2. answer'.kind \in {"upgraded", "unrecorded"}
    BY <2>1
  <2>3. \A n \in Validators : loaded[n] = file
    BY <1>2, <1>4 DEF RolloutInv, UpgradeCarried, Upgrading, GoingOut
  <2>4. RolloutTypeOK'
    BY <1>1, <1>2, <1>3, <2>1, <2>2 DEF RolloutTypeOK
  <2>5. FileKept' /\ RecordedIsRun'
    BY <1>1, <1>2, <1>3, <2>1, <2>3 DEF RolloutInv, FileKept, RecordedIsRun, Upgrading, RolloutTypeOK
  <2> QED
    BY <1>2, <1>3, <2>2, <2>4, <2>5
       DEF RolloutInv, UpgradeCarried, TracksCarried, WaitsOnTouched, UppedKnown, Upgrading, TouchedOrNamed, EveryNodeTracks
<1>5. CASE rollout.kind # "upgrade"
  <2>1. rollout.kind \in {"create", "revoke"}
    BY <1>1, <1>5 DEF RolloutType
  <2>2. /\ upgraded' = upgraded /\ chainB' \in {"recorded", "absent"}
        /\ answer' = [kind |-> "tracking", target |-> rollout.target]
    BY <1>5 DEF Return
  <2>3. answer'.kind = "tracking" /\ answer'.target = rollout.target
    BY <2>2
  <2>4. model = "every" => \A n \in Fleet : tracks[n] = rollout.target[n]
    BY <1>2, <2>1 DEF RolloutInv, TracksCarried
  <2>5. RolloutTypeOK'
    BY <1>1, <1>2, <1>3, <2>2, <2>3 DEF RolloutTypeOK
  <2>6. FileKept' /\ RecordedIsRun'
    BY <1>2, <1>3, <2>2 DEF RolloutInv, FileKept, RecordedIsRun, Upgrading
  <2>7. EveryNodeTracks' /\ TouchedOrNamed'
    BY <1>2, <2>3, <2>4 DEF EveryNodeTracks, TouchedOrNamed
  <2> QED
    BY <1>2, <1>3, <2>5, <2>6, <2>7
       DEF RolloutInv, UpgradeCarried, TracksCarried, WaitsOnTouched, UppedKnown, Upgrading
<1> QED
  BY <1>4, <1>5

LEMMA RestoreKeeps == ASSUME RolloutInv, Restore PROVE RolloutInv'
<1>1. RolloutTypeOK /\ rollout \in RolloutType /\ rollout # NoRollout /\ answer = NoAnswer /\ model # "unset"
  BY UnderWay DEF RolloutInv, Restore
<1>2. /\ rollout.kind = "upgrade" /\ rollout.phase = "restore" /\ answer' = answer
      /\ model' = model /\ chainB' = chainB /\ upgraded' = upgraded /\ lists' = lists
      /\ tracks' = tracks /\ loaded' = loaded
  BY DEF Restore, ledgerVars, nodesVars
<1>3. /\ rollout' \in RolloutType /\ rollout'.kind = "upgrade" /\ rollout'.phase = "undo"
      /\ rollout'.upped = rollout.upped /\ rollout'.prev = rollout.prev /\ rollout'.compose = rollout.compose
      /\ rollout.todo \subseteq rollout'.todo \cup rollout'.named /\ file' \in {rollout.prev, file}
  <2>1. CASE file' = rollout.prev /\ rollout' = [rollout EXCEPT !.phase = "undo"]
    BY <1>1, <1>2, <2>1 DEF RolloutType
  <2>2. CASE file' = file /\ rollout' = [rollout EXCEPT !.phase = "undo", !.todo = {}, !.named = rollout.todo]
    <3>1. rollout.todo \in SUBSET Fleet /\ {} \in SUBSET Fleet
      BY <1>1 DEF RolloutType
    <3> QED
      BY <1>1, <1>2, <2>2, <3>1 DEF RolloutType
  <2> QED
    BY <2>1, <2>2 DEF Restore
<1>4. answer'.kind = "none"
  BY <1>1, <1>2 DEF NoAnswer
<1>5. RolloutTypeOK'
  BY <1>1, <1>2, <1>3, <1>4 DEF RolloutTypeOK, RolloutType
<1>6. FileKept'
  BY <1>2, <1>3 DEF RolloutInv, FileKept, Upgrading
<1>7. UppedKnown'
  BY <1>2, <1>3 DEF RolloutInv, UppedKnown, Upgrading
<1>8. RecordedIsRun'
  BY <1>2 DEF RolloutInv, RecordedIsRun
<1> QED
  BY <1>3, <1>4, <1>5, <1>6, <1>7, <1>8
     DEF RolloutInv, UpgradeCarried, TracksCarried, WaitsOnTouched, Upgrading, GoingOut, TouchedOrNamed, EveryNodeTracks

\* A node of the undo reads the file on disk, or is named.
LEMMA UndoNodeKeeps == ASSUME RolloutInv, UndoNode PROVE RolloutInv'
<1>1. RolloutTypeOK /\ rollout \in RolloutType /\ rollout # NoRollout /\ answer = NoAnswer /\ model # "unset"
  BY UnderWay DEF RolloutInv, UndoNode
<1>2. /\ rollout.kind = "upgrade" /\ rollout.phase = "undo" /\ answer' = answer
      /\ model' = model /\ chainB' = chainB /\ upgraded' = upgraded /\ lists' = lists /\ file' = file
  BY DEF UndoNode, ledgerVars, diskVars
<1>3. rollout.todo \in SUBSET Fleet /\ rollout.named \in SUBSET Fleet /\ rollout.upped \in SUBSET Fleet
  BY <1>1 DEF RolloutType
<1>4. PICK n \in rollout.todo :
        \/ Recreate(n, UndoList(n)) /\ rollout' = [rollout EXCEPT !.todo = rollout.todo \ {n}]
        \/ /\ Recreate(n, UndoList(n)) \/ UNCHANGED nodesVars
           /\ rollout' = [rollout EXCEPT !.todo = rollout.todo \ {n}, !.named = rollout.named \cup {n}]
  BY DEF UndoNode
<1>5. n \in Fleet
  BY <1>3
<1>6. UndoList(n) \in Chains
  BY <1>1, <1>5, TargetsAreLists DEF UndoList, RolloutTypeOK
<1>7. /\ tracks' \in [Fleet -> Chains] /\ loaded' \in [Fleet -> Nat]
      /\ \A m \in Fleet : loaded'[m] \in {loaded[m], file}
      /\ Recreate(n, UndoList(n)) => loaded'[n] = file
  <2>1. CASE Recreate(n, UndoList(n))
    BY <1>1, <1>5, <1>6, <2>1, RecreateReads
  <2>2. CASE UNCHANGED nodesVars
    <3>1. tracks' = tracks /\ loaded' = loaded
      BY <2>2 DEF nodesVars
    <3>2. Recreate(n, UndoList(n)) => loaded'[n] = file
      BY <1>1, <1>5, <1>6, RecreateReads
    <3> QED
      BY <1>1, <3>1, <3>2 DEF RolloutTypeOK
  <2> QED
    BY <1>4, <2>1, <2>2
<1>8. /\ rollout' \in RolloutType /\ rollout'.kind = "upgrade" /\ rollout'.phase = "undo"
      /\ rollout'.upped = rollout.upped /\ rollout'.prev = rollout.prev /\ rollout'.compose = rollout.compose
      /\ rollout'.todo = rollout.todo \ {n} /\ rollout.named \subseteq rollout'.named
      /\ loaded'[n] = file \/ n \in rollout'.named
  <2>1. CASE Recreate(n, UndoList(n)) /\ rollout' = [rollout EXCEPT !.todo = rollout.todo \ {n}]
    BY <1>1, <1>2, <1>3, <1>7, <2>1 DEF RolloutType
  <2>2. CASE rollout' = [rollout EXCEPT !.todo = rollout.todo \ {n}, !.named = rollout.named \cup {n}]
    BY <1>1, <1>2, <1>3, <1>5, <2>2 DEF RolloutType
  <2> QED
    BY <1>4, <2>1, <2>2
<1>9. answer'.kind = "none"
  BY <1>1, <1>2 DEF NoAnswer
<1>10. RolloutTypeOK'
  BY <1>1, <1>2, <1>7, <1>8, <1>9 DEF RolloutTypeOK
<1>11. FileKept'
  BY <1>2, <1>8 DEF RolloutInv, FileKept, Upgrading
<1>12. UppedKnown'
  <2> SUFFICES ASSUME ~rollout.compose, NEW m \in rollout.upped
               PROVE  loaded'[m] <= file \/ m \in rollout'.named \/ m \in rollout'.todo
    BY <1>2, <1>8 DEF UppedKnown, Upgrading
  <2>1. loaded[m] <= file \/ m \in rollout.named \/ m \in rollout.todo
    BY <1>2 DEF RolloutInv, UppedKnown, Upgrading
  <2>2. m \in Fleet /\ file <= file
    BY <1>1, <1>3 DEF RolloutTypeOK
  <2> QED
    BY <1>7, <1>8, <2>1, <2>2
<1>13. RecordedIsRun'
  BY <1>1, <1>2, <1>7, ReadsOnlyTheFile DEF RolloutInv
<1> QED
  BY <1>8, <1>9, <1>10, <1>11, <1>12, <1>13
     DEF RolloutInv, UpgradeCarried, TracksCarried, WaitsOnTouched, Upgrading, GoingOut, TouchedOrNamed, EveryNodeTracks

\* The report names every node that was brought up and does not run the file on disk, or an older one.
LEMMA UndoAnswerKeeps == ASSUME RolloutInv, UndoAnswer PROVE RolloutInv'
<1>1. RolloutTypeOK /\ rollout \in RolloutType /\ rollout # NoRollout /\ answer = NoAnswer /\ model # "unset"
  BY UnderWay DEF RolloutInv, UndoAnswer
<1>2. /\ rollout.kind = "upgrade" /\ rollout.phase = "undo" /\ rollout.todo = {} /\ rollout' = NoRollout
      /\ model' = model /\ chainB' = chainB /\ upgraded' = upgraded /\ lists' = lists /\ file' = file
      /\ tracks' = tracks /\ loaded' = loaded
  BY DEF UndoAnswer, ledgerVars, diskVars, nodesVars
<1>3. /\ answer'.kind \in {"undone", "incomplete"} /\ answer'.upped = rollout.upped /\ answer'.named = rollout.named
      /\ answer'.compose = rollout.compose
  BY DEF UndoAnswer
<1>4. rollout'.kind = "none" /\ rollout.upped \subseteq Fleet
  BY <1>1, <1>2 DEF NoRollout, RolloutType
<1>5. RolloutTypeOK'
  BY <1>1, <1>2, <1>3, <1>4 DEF RolloutTypeOK
<1>6. ~rollout.compose => \A n \in rollout.upped : loaded[n] <= file \/ n \in rollout.named
  BY <1>2 DEF RolloutInv, UppedKnown, Upgrading
<1>7. TouchedOrNamed' /\ EveryNodeTracks'
  BY <1>2, <1>3, <1>6 DEF TouchedOrNamed, EveryNodeTracks
<1> QED
  BY <1>2, <1>4, <1>5, <1>7
     DEF RolloutInv, FileKept, UpgradeCarried, TracksCarried, WaitsOnTouched, UppedKnown, RecordedIsRun, Upgrading

LEMMA RolloutCrashKeeps == ASSUME RolloutInv, RolloutCrash PROVE RolloutInv'
<1>1. /\ rollout' = NoRollout /\ answer' = NoAnswer
      /\ model' = model /\ chainB' = chainB /\ upgraded' = upgraded /\ lists' = lists /\ file' = file
      /\ tracks' = tracks /\ loaded' = loaded
  BY DEF RolloutCrash, ledgerVars, diskVars, nodesVars
<1>2. rollout'.kind = "none" /\ answer'.kind = "none"
  BY <1>1 DEF NoRollout, NoAnswer
<1>3. RolloutTypeOK'
  BY <1>1, <1>2 DEF RolloutInv, RolloutTypeOK
<1> QED
  BY <1>1, <1>2, <1>3
     DEF RolloutInv, FileKept, UpgradeCarried, TracksCarried, WaitsOnTouched, UppedKnown, RecordedIsRun, Upgrading,
         TouchedOrNamed, EveryNodeTracks

\* A container that restarts by itself reads the file on disk too.
LEMMA NodeRestartsKeeps == ASSUME RolloutInv, NEW n \in Fleet, NodeRestarts(n) PROVE RolloutInv'
<1>1. /\ loaded' = [loaded EXCEPT ![n] = file] /\ rollout' = rollout /\ answer' = answer
      /\ model' = model /\ chainB' = chainB /\ upgraded' = upgraded /\ lists' = lists /\ file' = file /\ tracks' = tracks
  BY DEF NodeRestarts, ledgerVars, diskVars
<1>2. RolloutTypeOK /\ file \in Nat /\ loaded \in [Fleet -> Nat]
  BY DEF RolloutInv, RolloutTypeOK
<1>3. loaded' \in [Fleet -> Nat] /\ \A m \in Fleet : loaded'[m] \in {loaded[m], file}
  BY <1>1, <1>2
<1>4. RolloutTypeOK'
  BY <1>1, <1>2, <1>3 DEF RolloutTypeOK
<1>5. RecordedIsRun'
  BY <1>1, <1>2, <1>3, ReadsOnlyTheFile DEF RolloutInv
<1>6. rollout # NoRollout => rollout.done \subseteq Fleet /\ rollout.upped \subseteq Fleet
  BY <1>2 DEF RolloutTypeOK, RolloutType
<1>7. UpgradeCarried'
  BY <1>1, <1>3, <1>6 DEF RolloutInv, UpgradeCarried, Upgrading, GoingOut, NoRollout
<1>8. UppedKnown'
  <2> SUFFICES ASSUME rollout.kind = "upgrade", rollout.phase = "undo", ~rollout.compose, NEW m \in rollout.upped
               PROVE  loaded'[m] <= file \/ m \in rollout.named \/ m \in rollout.todo
    BY <1>1 DEF RolloutInv, UppedKnown, Upgrading
  <2>1. loaded[m] <= file \/ m \in rollout.named \/ m \in rollout.todo
    BY DEF RolloutInv, UppedKnown, Upgrading
  <2>2. m \in Fleet
    BY <1>6 DEF NoRollout
  <2> QED
    BY <1>2, <1>3, <2>1, <2>2
<1>9. TouchedOrNamed'
  <2> SUFFICES ASSUME answer.kind \in {"undone", "incomplete"}, ~answer.compose, NEW m \in answer.upped
               PROVE  loaded'[m] <= file \/ m \in answer.named
    BY <1>1 DEF TouchedOrNamed
  <2>1. loaded[m] <= file \/ m \in answer.named
    BY DEF RolloutInv, TouchedOrNamed
  <2>2. m \in Fleet
    BY <1>2 DEF RolloutTypeOK
  <2> QED
    BY <1>2, <1>3, <2>1, <2>2
<1> QED
  BY <1>1, <1>4, <1>5, <1>7, <1>8, <1>9
     DEF RolloutInv, FileKept, TracksCarried, WaitsOnTouched, Upgrading, GoingOut, EveryNodeTracks

THEOREM RolloutInvariance == RolloutSpec => []RolloutInv
<1>1. RolloutInit => RolloutInv
  <2> SUFFICES ASSUME RolloutInit PROVE RolloutInv
    OBVIOUS
  <2>1. rollout.kind = "none" /\ answer.kind = "none" /\ rollout = NoRollout /\ answer = NoAnswer
    BY DEF RolloutInit, NoRollout, NoAnswer
  <2>2. RolloutTypeOK
    BY <2>1 DEF RolloutInit, RolloutTypeOK, Chains
  <2>3. RecordedIsRun
    BY ValidatorsRun DEF RolloutInit, RecordedIsRun
  <2> QED
    BY <2>1, <2>2, <2>3
       DEF RolloutInit, RolloutInv, FileKept, UpgradeCarried, TracksCarried, WaitsOnTouched, UppedKnown, Upgrading,
           TouchedOrNamed, EveryNodeTracks
<1>2. ASSUME RolloutInv, [RolloutNext]_rolloutVars
      PROVE  RolloutInv'
  <2>1. CASE UNCHANGED rolloutVars
    BY <1>2, <2>1
       DEF rolloutVars, ledgerVars, diskVars, nodesVars, RolloutInv, RolloutTypeOK, FileKept, UpgradeCarried, TracksCarried,
           WaitsOnTouched, UppedKnown, Upgrading, GoingOut, RecordedIsRun, TouchedOrNamed, EveryNodeTracks
  <2> QED
    BY <1>2, <2>1, StartKeeps, BeginTracksKeeps, BeginUpgradeKeeps, UpKeeps, WaitKeeps, ReturnKeeps, RestoreKeeps,
       UndoNodeKeeps, UndoAnswerKeeps, RolloutCrashKeeps, NodeRestartsKeeps DEF RolloutNext
<1> QED
  BY <1>1, <1>2, PTL DEF RolloutSpec

\* An upgrade in the ledger is run by every validator of the chain, for any fleet and any rollouts.
THEOREM UpgradesAreRun == RolloutSpec => []RecordedIsRun
<1>1. RolloutInv => RecordedIsRun
  BY DEF RolloutInv
<1> QED
  BY <1>1, RolloutInvariance, PTL

\* An undo reports every node it had brought up and that may run the new file.
THEOREM UndoReportsTruly == RolloutSpec => []TouchedOrNamed
<1>1. RolloutInv => TouchedOrNamed
  BY DEF RolloutInv
<1> QED
  BY <1>1, RolloutInvariance, PTL

\* A rollout of tracks that returned has left every node of the every-node model with the list.
THEOREM RolloutsReachAll == RolloutSpec => []EveryNodeTracks
<1>1. RolloutInv => EveryNodeTracks
  BY DEF RolloutInv
<1> QED
  BY <1>1, RolloutInvariance, PTL

-----------------------------------------------------------------------------
\* The deployment of a release.
Actions == {"apply", "resume", "unwind"}
PhaseNames == UNION {{PhasesOf(a)[i] : i \in 1 .. Len(PhasesOf(a))} : a \in Actions}
Releases == {"old", "mixed", "new"}
ServerType ==
  [boot : Nat, pause : Nat, by : Invocations \cup {Nobody, "operator"}, busy : BOOLEAN, lock : Invocations \cup {Nobody},
   stage : [Invocations -> {"none", "empty", "part", "whole"}], disk : Releases, runs : Releases]
RunType == [action : Actions, phase : PhaseNames, boot : Nat, pause : Nat]
ReceiptType ==
  [outcome : {"paused", "resumed", "unwound", "fail"}, action : Actions, phase : PhaseNames, boot : Nat, pause : Nat]

InPhase(x) == \E i \in 1 .. Len(PhasesOf(x.action)) : PhasesOf(x.action)[i] = x.phase
NotAhead(x) == x.boot <= server.boot /\ x.pause <= server.pause

\* What an action may presume of the receipt it was given.
ReceiptFits(r) ==
  CASE run[r].action = "apply" -> receipt[r] = NoReceipt
    [] run[r].action = "resume" -> ResumesFrom(receipt[r])
    [] run[r].action = "unwind" -> UnwindsFrom(receipt[r])
    [] OTHER -> TRUE

DeployTypeOK ==
  /\ server \in ServerType
  /\ run \in [Invocations -> RunType \cup {NoRun}] /\ receipt \in [Invocations -> ReceiptType \cup {NoReceipt}]
  /\ \A r \in Invocations :
       /\ run[r] # NoRun => InPhase(run[r]) /\ NotAhead(run[r])
       /\ receipt[r] # NoReceipt => NotAhead(receipt[r])
       /\ ReceiptFits(r)

\* An invocation that has begun to install, or is past it.
Installing == {"install", "restart", "verify-installed"}
HasInstalled(r) ==
  \/ run[r].action = "apply" /\ run[r].phase \in Installing
  \/ receipt[r].outcome \in {"paused", "resumed"}
  \/ receipt[r].outcome = "fail" /\ receipt[r].action = "apply" /\ receipt[r].phase \in Installing

Whole == server.runs = server.disk /\ server.disk # "mixed"

\* A source that is not whole, or not what runs, is behind a pause and behind the lock of who installs it.
LockedAway == ~Whole => Paused(server) /\ server.lock \in Invocations /\ HasInstalled(server.lock)

\* What a resume has verified stands while the lock, the process and the pause are the ones it saw.
VerifiedStands ==
  \A r \in Invocations :
    /\ run[r].action = "resume" /\ run[r].phase \in {"exact-source-audit", "public-drift", "public-ledger", "resume"}
    /\ server.lock = r /\ SeesIts(server, run[r])
    => Whole

\* Nobody takes the lock from an unwind that has seen it.
UnwindHoldsLock ==
  \A r \in Invocations :
    run[r].action = "unwind" /\ run[r].phase \in {"maintenance-status", "maintenance-resume", "lock-abandon"} =>
      server.lock = r

DeployInv == DeployTypeOK /\ LockedAway /\ VerifiedStands /\ UnwindHoldsLock

\* A phase of a list and the one after it: no phase is in a list twice.
LEMMA ListsOf ==
  PhasesOf("apply") = ApplyPhases /\ PhasesOf("resume") = ResumePhases /\ PhasesOf("unwind") = UnwindPhases
BY DEF PhasesOf

LEMMA ApplyList ==
  /\ (\E S : ApplyPhases \in Seq(S)) /\ Len(ApplyPhases) = 15 /\ \A i, j \in 1 .. 15 : ApplyPhases[i] = ApplyPhases[j] => i = j
  /\ \A i \in 1 .. 15 : /\ (ApplyPhases[i] \in Installing <=> i >= 13)
                        /\ ApplyPhases[i] \notin {"resume", "maintenance-resume", "lock-abandon"}
<1>1. ApplyPhases \in Seq({"local-validation", "source-audit", "maintenance-status", "lock-acquire", "maintenance-recheck",
                          "pause-and-drain", "lock-before-stage", "stage", "upload", "verify-package", "backup",
                          "dependencies", "install", "restart", "verify-installed"}) /\ Len(ApplyPhases) = 15
  BY DEF ApplyPhases
<1>2. /\ ApplyPhases[1] = "local-validation" /\ ApplyPhases[2] = "source-audit" /\ ApplyPhases[3] = "maintenance-status"
      /\ ApplyPhases[4] = "lock-acquire" /\ ApplyPhases[5] = "maintenance-recheck" /\ ApplyPhases[6] = "pause-and-drain"
      /\ ApplyPhases[7] = "lock-before-stage" /\ ApplyPhases[8] = "stage" /\ ApplyPhases[9] = "upload"
      /\ ApplyPhases[10] = "verify-package" /\ ApplyPhases[11] = "backup" /\ ApplyPhases[12] = "dependencies"
      /\ ApplyPhases[13] = "install" /\ ApplyPhases[14] = "restart" /\ ApplyPhases[15] = "verify-installed"
  BY DEF ApplyPhases
<1> QED
  BY <1>1, <1>2 DEF Installing

LEMMA ResumeList ==
  /\ Len(ResumePhases) = 7 /\ \A i, j \in 1 .. 7 : ResumePhases[i] = ResumePhases[j] => i = j
  /\ \A i \in 1 .. 7 : /\ (ResumePhases[i] \in {"exact-source-audit", "public-drift", "public-ledger", "resume"} <=> i >= 4)
                       /\ (ResumePhases[i] = "verify-installed" <=> i = 3) /\ (ResumePhases[i] = "resume" <=> i = 7)
                       /\ ResumePhases[i] \notin {"install", "lock-acquire", "maintenance-resume", "lock-abandon"}
<1>1. Len(ResumePhases) = 7
  BY DEF ResumePhases
<1>2. /\ ResumePhases[1] = "local-validation" /\ ResumePhases[2] = "lock-before-resume" /\ ResumePhases[3] = "verify-installed"
      /\ ResumePhases[4] = "exact-source-audit" /\ ResumePhases[5] = "public-drift" /\ ResumePhases[6] = "public-ledger"
      /\ ResumePhases[7] = "resume"
  BY DEF ResumePhases
<1> QED
  BY <1>1, <1>2 DEF Installing

LEMMA UnwindList ==
  /\ Len(UnwindPhases) = 5 /\ \A i, j \in 1 .. 5 : UnwindPhases[i] = UnwindPhases[j] => i = j
  /\ \A i \in 1 .. 5 : /\ (UnwindPhases[i] \in {"maintenance-status", "maintenance-resume", "lock-abandon"} <=> i >= 3)
                       /\ (UnwindPhases[i] = "lock-before-unwind" <=> i = 2) /\ (UnwindPhases[i] = "lock-abandon" <=> i = 5)
                       /\ UnwindPhases[i] \notin {"install", "lock-acquire", "resume"}
<1>1. Len(UnwindPhases) = 5
  BY DEF UnwindPhases
<1>2. /\ UnwindPhases[1] = "local-validation" /\ UnwindPhases[2] = "lock-before-unwind" /\ UnwindPhases[3] = "maintenance-status"
      /\ UnwindPhases[4] = "maintenance-resume" /\ UnwindPhases[5] = "lock-abandon"
  BY DEF UnwindPhases
<1> QED
  BY <1>1, <1>2 DEF Installing

LEMMA NextInList ==
  ASSUME NEW x, x.action \in Actions, NEW i \in 1 .. Len(PhasesOf(x.action)), PhasesOf(x.action)[i] = x.phase,
         x.phase # Last(PhasesOf(x.action))
  PROVE  /\ i + 1 \in 2 .. Len(PhasesOf(x.action)) /\ NextPhase(x) = PhasesOf(x.action)[i + 1]
<1> DEFINE p == PhasesOf(x.action)
<1>1. Len(p) \in Nat /\ \A j, k \in 1 .. Len(p) : p[j] = p[k] => j = k
  <2>1. CASE x.action = "apply"
    <3>1. p = ApplyPhases
      BY <2>1, ListsOf
    <3> HIDE DEF p
    <3> QED
      BY <3>1, ApplyList
  <2>2. CASE x.action = "resume"
    <3>1. p = ResumePhases
      BY <2>2, ListsOf
    <3> HIDE DEF p
    <3> QED
      BY <3>1, ResumeList
  <2>3. CASE x.action = "unwind"
    <3>1. p = UnwindPhases
      BY <2>3, ListsOf
    <3> HIDE DEF p
    <3> QED
      BY <3>1, UnwindList
  <2> QED
    BY <2>1, <2>2, <2>3 DEF Actions
<1>2. NextPhase(x) = p[CHOOSE k \in 2 .. Len(p) : p[k - 1] = x.phase]
  BY DEF NextPhase
<1>3. p[i] = x.phase /\ x.phase # p[Len(p)] /\ i \in 1 .. Len(p)
  BY DEF Last
<1> HIDE DEF p
<1>4. i + 1 \in 2 .. Len(p) /\ p[(i + 1) - 1] = x.phase
  BY <1>1, <1>3
<1>5. \A k \in 2 .. Len(p) : p[k - 1] = x.phase => k = i + 1
  BY <1>1, <1>3
<1>6. (CHOOSE k \in 2 .. Len(p) : p[k - 1] = x.phase) = i + 1
  BY <1>4, <1>5
<1> QED
  BY <1>2, <1>4, <1>6 DEF p

\* What the phase that follows says about the one before it.
LEMMA NextPhases ==
  ASSUME NEW x \in RunType, InPhase(x), x.phase # Last(PhasesOf(x.action))
  PROVE  /\ NextPhase(x) \in PhaseNames /\ InPhase([x EXCEPT !.phase = NextPhase(x)])
         /\ x.action = "apply" /\ x.phase \in Installing => NextPhase(x) \in Installing
         /\ x.action = "resume" /\ NextPhase(x) \in {"exact-source-audit", "public-drift", "public-ledger", "resume"} =>
              x.phase \in {"verify-installed", "exact-source-audit", "public-drift", "public-ledger"}
         /\ x.action = "unwind" /\ NextPhase(x) \in {"maintenance-status", "maintenance-resume", "lock-abandon"} =>
              x.phase \in {"lock-before-unwind", "maintenance-status", "maintenance-resume"}
<1>1. PICK i \in 1 .. Len(PhasesOf(x.action)) : PhasesOf(x.action)[i] = x.phase
  BY DEF InPhase
<1>2. x.action \in Actions
  BY DEF RunType
<1>3. i + 1 \in 2 .. Len(PhasesOf(x.action)) /\ NextPhase(x) = PhasesOf(x.action)[i + 1]
  BY <1>1, <1>2, NextInList
<1>4. CASE x.action = "apply"
  <2>1. i \in 1 .. 14 /\ x.phase = ApplyPhases[i] /\ NextPhase(x) = ApplyPhases[i + 1]
    <3>1. PhasesOf(x.action) = ApplyPhases
      BY <1>4, ListsOf
    <3> QED
      BY <1>1, <1>3, <3>1, ApplyList
  <2>2. NextPhase(x) \in PhaseNames
    BY <1>2, <1>3 DEF PhaseNames
  <2>3. x.phase \in Installing => NextPhase(x) \in Installing
    BY <2>1, ApplyList
  <2>4. InPhase([x EXCEPT !.phase = NextPhase(x)])
    BY <1>3, <1>4, <2>2 DEF InPhase, RunType
  <2> QED
    BY <1>4, <2>2, <2>3, <2>4
<1>5. CASE x.action = "resume"
  <2>1. i \in 1 .. 6 /\ x.phase = ResumePhases[i] /\ NextPhase(x) = ResumePhases[i + 1]
    <3>1. PhasesOf(x.action) = ResumePhases
      BY <1>5, ListsOf
    <3> QED
      BY <1>1, <1>3, <3>1, ResumeList
  <2>2. NextPhase(x) \in PhaseNames
    BY <1>2, <1>3 DEF PhaseNames
  <2>3. NextPhase(x) \in {"exact-source-audit", "public-drift", "public-ledger", "resume"} =>
          x.phase \in {"verify-installed", "exact-source-audit", "public-drift", "public-ledger"}
    BY <2>1, ResumeList
  <2>4. InPhase([x EXCEPT !.phase = NextPhase(x)])
    BY <1>3, <1>5, <2>2 DEF InPhase, RunType
  <2> QED
    BY <1>5, <2>2, <2>3, <2>4
<1>6. CASE x.action = "unwind"
  <2>1. i \in 1 .. 4 /\ x.phase = UnwindPhases[i] /\ NextPhase(x) = UnwindPhases[i + 1]
    <3>1. PhasesOf(x.action) = UnwindPhases
      BY <1>6, ListsOf
    <3> QED
      BY <1>1, <1>3, <3>1, UnwindList
  <2>2. NextPhase(x) \in PhaseNames
    BY <1>2, <1>3 DEF PhaseNames
  <2>3. NextPhase(x) \in {"maintenance-status", "maintenance-resume", "lock-abandon"} =>
          x.phase \in {"lock-before-unwind", "maintenance-status", "maintenance-resume"}
    BY <2>1, UnwindList
  <2>4. InPhase([x EXCEPT !.phase = NextPhase(x)])
    BY <1>3, <1>6, <2>2 DEF InPhase, RunType
  <2> QED
    BY <1>6, <2>2, <2>3, <2>4
<1> QED
  BY <1>2, <1>4, <1>5, <1>6 DEF Actions

\* An apply that may be unwound has not begun to install.
LEMMA UnwindableIsEarly == UnwindablePhases \cap Installing = {}
<1> SUFFICES ASSUME NEW f \in UnwindablePhases PROVE f \notin Installing
  OBVIOUS
<1>1. PICK i \in DOMAIN SubSeq(ApplyPhases, 5, 12) : f = SubSeq(ApplyPhases, 5, 12)[i]
  BY DEF UnwindablePhases, ToSet
<1>2. PICK S : ApplyPhases \in Seq(S) /\ Len(ApplyPhases) = 15
  BY ApplyList
<1>3. i \in 1 .. 8 /\ f = ApplyPhases[i + 4]
  BY <1>1, <1>2
<1>4. i + 4 \in 1 .. 15 /\ ~(i + 4 >= 13)
  BY <1>3
<1> QED
  BY <1>3, <1>4, ApplyList

\* What one phase does to the server, and what it needed of it.
LEMMA PhaseDoes ==
  ASSUME server \in ServerType, NEW r \in Invocations, NEW x \in RunType,
         Accepts(server, r, x), server' \in Effect(server, r, x)
  PROVE  /\ server' \in ServerType /\ server.boot <= server'.boot /\ server.pause <= server'.pause
         /\ \/ server'.lock = server.lock
            \/ x.phase = "lock-acquire" /\ server.lock = Nobody /\ server'.lock = r
            \/ x.phase \in {"resume", "lock-abandon"} /\ server.lock = r /\ server'.lock = Nobody
         /\ \/ server'.disk = server.disk /\ server'.runs = server.runs
            \/ x.phase = "install" /\ server.lock = r /\ server'.lock = r /\ Paused(server)
            \/ x.phase = "restart" /\ server'.runs = server.disk /\ server'.disk = server.disk /\ server.boot < server'.boot
         /\ Paused(server) /\ ~Paused(server') => x.phase \in {"resume", "maintenance-resume"}
         /\ x.phase = "resume" => server.lock = r /\ SeesIts(server, x)
         /\ x.phase = "lock-before-unwind" => server.lock = r
         /\ x.phase = "verify-installed" =>
              server'.disk = server'.runs /\ server'.disk # "mixed"
<1>1. /\ server.boot \in Nat /\ server.pause \in Nat /\ server.lock \in Invocations \cup {Nobody}
      /\ server.by \in Invocations \cup {Nobody, "operator"} /\ server.disk \in Releases /\ server.runs \in Releases
      /\ server.busy \in BOOLEAN /\ server.stage \in [Invocations -> {"none", "empty", "part", "whole"}]
      /\ r # Nobody
  BY DeployConstants DEF ServerType, Nobody
<1>2. CASE x.phase = "lock-acquire"
  <2>1. server' = [server EXCEPT !.lock = r] /\ server.lock = Nobody
    BY <1>2 DEF Effect, Accepts
  <2> QED
    BY <1>1, <1>2, <2>1 DEF ServerType, Paused
<1>3. CASE x.phase = "pause-and-drain"
  <2>1. server' = server \/ (~Paused(server) /\ server' = [server EXCEPT !.pause = server.pause + 1, !.by = r])
    BY <1>3 DEF Effect
  <2>2. CASE server' = server
    BY <1>1, <1>3, <2>2
  <2>3. CASE ~Paused(server) /\ server' = [server EXCEPT !.pause = server.pause + 1, !.by = r]
    <3>1. server' = [boot |-> server.boot, pause |-> server.pause + 1, by |-> r, busy |-> server.busy, lock |-> server.lock,
                     stage |-> server.stage, disk |-> server.disk, runs |-> server.runs]
      BY <2>3 DEF ServerType
    <3> QED
      BY <1>1, <1>3, <2>3, <3>1 DEF ServerType, Paused
  <2> QED
    BY <2>1, <2>2, <2>3
<1>4. CASE x.phase = "stage"
  <2>1. server' = [server EXCEPT !.stage[r] = "empty"]
    BY <1>4 DEF Effect
  <2> QED
    BY <1>1, <1>4, <2>1 DEF ServerType, Paused
<1>5. CASE x.phase = "upload"
  <2>1. PICK c \in {"part", "whole"} : server' = [server EXCEPT !.stage[r] = c]
    BY <1>5 DEF Effect
  <2> QED
    BY <1>1, <1>5, <2>1 DEF ServerType, Paused
<1>6. CASE x.phase = "install"
  <2>1. PICK c \in {"mixed", "new"} : server' = [server EXCEPT !.disk = c]
    BY <1>6 DEF Effect
  <2>2. Owned(server, r, x)
    BY <1>6 DEF Accepts
  <2>3. server.lock = r /\ Paused(server)
    BY <2>2 DEF Owned, Drained
  <2> QED
    BY <1>1, <1>6, <2>1, <2>3 DEF ServerType, Paused, Releases
<1>7. CASE x.phase = "restart"
  <2>1. server' = Boot(server)
    BY <1>7 DEF Effect
  <2>2. PICK p \in {server.pause, server.pause + 1} :
          server' = [boot |-> server.boot + 1, pause |-> p, by |-> server.by, busy |-> FALSE, lock |-> server.lock,
                     stage |-> server.stage, disk |-> server.disk, runs |-> server.disk]
    BY <2>1 DEF Boot, ServerType
  <2> QED
    BY <1>1, <1>7, <2>2 DEF ServerType, Paused
<1>8. CASE x.phase = "resume"
  <2>1. server' = [server EXCEPT !.by = Nobody, !.lock = Nobody]
    BY <1>8 DEF Effect
  <2>2. Owned(server, r, x)
    BY <1>8 DEF Accepts
  <2> QED
    <3>1. server.lock = r /\ SeesIts(server, x)
      BY <2>2 DEF Owned
    <3>2. server' = [boot |-> server.boot, pause |-> server.pause, by |-> Nobody, busy |-> server.busy, lock |-> Nobody,
                     stage |-> server.stage, disk |-> server.disk, runs |-> server.runs]
      BY <2>1 DEF ServerType
    <3> QED
      BY <1>1, <1>8, <3>1, <3>2 DEF ServerType
<1>9. CASE x.phase = "maintenance-resume"
  <2>1. server' = [server EXCEPT !.by = Nobody]
    BY <1>9 DEF Effect
  <2> QED
    BY <1>1, <1>9, <2>1 DEF ServerType
<1>10. CASE x.phase = "lock-abandon"
  <2>1. server' = [server EXCEPT !.lock = Nobody] /\ server.lock = r
    BY <1>10 DEF Effect, Accepts
  <2> QED
    BY <1>1, <1>10, <2>1 DEF ServerType, Paused
<1>11. CASE x.phase \notin {"lock-acquire", "pause-and-drain", "stage", "upload", "install", "restart", "resume",
                            "maintenance-resume", "lock-abandon"}
  <2>1. server' = server
    BY <1>11 DEF Effect
  <2>2. x.phase = "lock-before-unwind" => server.lock = r
    BY DEF Accepts
  <2>3. x.phase = "verify-installed" => server.disk = server.runs /\ server.disk # "mixed"
    BY DEF Accepts, ReadyAgain
  <2> QED
    BY <1>1, <1>11, <2>1, <2>2, <2>3
<1> QED
  BY <1>2, <1>3, <1>4, <1>5, <1>6, <1>7, <1>8, <1>9, <1>10, <1>11

\* Which action has a phase.
LEMMA PhaseIsOf ==
  ASSUME NEW x \in RunType, InPhase(x)
  PROVE  /\ x.phase \in {"install", "lock-acquire"} => x.action = "apply"
         /\ x.phase = "resume" => x.action = "resume"
         /\ x.phase \in {"maintenance-resume", "lock-abandon"} => x.action = "unwind"
<1>1. PICK i \in 1 .. Len(PhasesOf(x.action)) : PhasesOf(x.action)[i] = x.phase
  BY DEF InPhase
<1>2. CASE x.action = "apply"
  <2>1. i \in 1 .. 15 /\ x.phase = ApplyPhases[i]
    BY <1>1, <1>2, ListsOf, ApplyList
  <2> QED
    BY <1>2, <2>1, ApplyList
<1>3. CASE x.action = "resume"
  <2>1. i \in 1 .. 7 /\ x.phase = ResumePhases[i]
    BY <1>1, <1>3, ListsOf, ResumeList
  <2> QED
    BY <1>3, <2>1, ResumeList
<1>4. CASE x.action = "unwind"
  <2>1. i \in 1 .. 5 /\ x.phase = UnwindPhases[i]
    BY <1>1, <1>4, ListsOf, UnwindList
  <2> QED
    BY <1>4, <2>1, UnwindList
<1> QED
  BY <1>2, <1>3, <1>4 DEF RunType, Actions

\* How an action goes on: it fails, it is done, or it is in its next phase.
Over(r) ==
  /\ run'[r] = NoRun
  /\ \/ run[r].action = "apply" /\ receipt'[r] = Written(run[r], "fail")
     \/ run[r].action # "apply" /\ receipt'[r] = receipt[r]
     \/ receipt'[r] = Written(run[r], Outcome(run[r].action))

InNext(r) ==
  /\ run'[r] \in RunType /\ run'[r].action = run[r].action /\ run'[r].phase = NextPhase(run[r])
  /\ run[r].phase # Last(PhasesOf(run[r].action)) /\ InPhase(run'[r]) /\ receipt'[r] = receipt[r]
  /\ \/ run'[r].boot = run[r].boot /\ run'[r].pause = run[r].pause
     \/ /\ run[r].phase \in {"maintenance-status", "pause-and-drain", "restart"}
        /\ run'[r].boot = server'.boot /\ run'[r].pause = server'.pause

LEMMA WrittenType ==
  ASSUME NEW x \in RunType, NEW outcome \in {"paused", "resumed", "unwound", "fail"}
  PROVE  /\ Written(x, outcome) \in ReceiptType /\ Written(x, outcome).outcome = outcome
         /\ Written(x, outcome).action = x.action /\ Written(x, outcome).phase = x.phase
         /\ Written(x, outcome).boot = x.boot /\ Written(x, outcome).pause = x.pause
BY DEF Written, RunType, ReceiptType

LEMMA GoesOn ==
  ASSUME DeployTypeOK, server' \in ServerType, NEW r \in Invocations, run[r] # NoRun,
         Fails(r, run[r]) \/ Goes(r, run[r], server')
  PROVE  /\ Over(r) \/ InNext(r)
         /\ run' \in [Invocations -> RunType \cup {NoRun}] /\ receipt' \in [Invocations -> ReceiptType \cup {NoReceipt}]
         /\ \A q \in Invocations : q # r => run'[q] = run[q] /\ receipt'[q] = receipt[q]
<1> DEFINE x == run[r]
<1>1. /\ x \in RunType /\ InPhase(x) /\ run \in [Invocations -> RunType \cup {NoRun}]
      /\ receipt \in [Invocations -> ReceiptType \cup {NoReceipt}]
  BY DEF DeployTypeOK
<1>2. CASE Fails(r, x)
  <2>1. Written(x, "fail") \in ReceiptType
    BY <1>1, WrittenType
  <2> QED
    BY <1>1, <1>2, <2>1 DEF Fails, Over
<1>3. CASE Goes(r, x, server') /\ x.phase = Last(PhasesOf(x.action))
  <2>1. Outcome(x.action) \in {"paused", "resumed", "unwound", "fail"}
    BY DEF Outcome
  <2>2. Written(x, Outcome(x.action)) \in ReceiptType
    BY <1>1, <2>1, WrittenType
  <2>3. /\ run' = [run EXCEPT ![r] = NoRun] /\ receipt' = [receipt EXCEPT ![r] = Written(x, Outcome(x.action))]
    BY <1>3 DEF Goes
  <2> QED
    BY <1>1, <2>2, <2>3 DEF Over
<1>4. CASE Goes(r, x, server') /\ x.phase # Last(PhasesOf(x.action))
  <2> DEFINE z == IF x.phase \in {"maintenance-status", "pause-and-drain", "restart"} THEN Seen(server', x) ELSE x
             y == [z EXCEPT !.phase = NextPhase(x)]
  <2>1. run' = [run EXCEPT ![r] = y] /\ receipt' = receipt
    BY <1>4 DEF Goes
  <2>2. /\ NextPhase(x) \in PhaseNames /\ InPhase([x EXCEPT !.phase = NextPhase(x)])
    BY <1>1, <1>4, NextPhases
  <2>3. /\ z \in RunType /\ z.action = x.action
        /\ \/ z.boot = x.boot /\ z.pause = x.pause
           \/ /\ x.phase \in {"maintenance-status", "pause-and-drain", "restart"}
              /\ z.boot = server'.boot /\ z.pause = server'.pause
    <3>1. CASE x.phase \in {"maintenance-status", "pause-and-drain", "restart"}
      <4>1. z = [action |-> x.action, phase |-> x.phase, boot |-> server'.boot, pause |-> server'.pause]
        BY <1>1, <3>1 DEF Seen, RunType
      <4>2. server'.boot \in Nat /\ server'.pause \in Nat /\ x.action \in Actions /\ x.phase \in PhaseNames
        BY <1>1 DEF ServerType, RunType
      <4> HIDE DEF z, x
      <4> QED
        BY <3>1, <4>1, <4>2 DEF RunType
    <3>2. CASE ~(x.phase \in {"maintenance-status", "pause-and-drain", "restart"})
      BY <1>1, <3>2
    <3> QED
      BY <3>1, <3>2
  <2> HIDE DEF z
  <2>4. /\ y \in RunType /\ y.action = x.action /\ y.phase = NextPhase(x) /\ y.boot = z.boot /\ y.pause = z.pause
    BY <2>2, <2>3 DEF RunType
  <2>5. InPhase(y)
    BY <1>1, <2>2, <2>4 DEF InPhase, RunType
  <2> HIDE DEF y
  <2>6. run'[r] = y
    BY <1>1, <2>1
  <2> QED
    BY <1>1, <1>4, <2>1, <2>3, <2>4, <2>5, <2>6 DEF InNext
<1> QED
  BY <1>2, <1>3, <1>4

\* An invocation that has begun to install is told from the others for ever.
LEMMA InstalledStays ==
  ASSUME DeployTypeOK, NEW r \in Invocations, run[r] # NoRun, Over(r) \/ InNext(r), HasInstalled(r)
  PROVE  HasInstalled(r)'
<1>1. run[r] \in RunType /\ InPhase(run[r]) /\ ReceiptFits(r) /\ run[r].action \in Actions
  BY DEF DeployTypeOK, RunType
<1>2. NoReceipt.outcome = "none"
  BY DEF NoReceipt
<1>3. CASE run[r].action = "apply"
  <2>1. run[r].phase \in Installing
    BY <1>1, <1>2, <1>3 DEF HasInstalled, ReceiptFits
  <2>2. CASE Over(r)
    <3>1. receipt'[r] = Written(run[r], "fail") \/ receipt'[r] = Written(run[r], "paused")
      BY <1>3, <2>2 DEF Over, Outcome
    <3> QED
      BY <1>1, <1>3, <2>1, <3>1, WrittenType DEF HasInstalled
  <2>3. CASE InNext(r)
    BY <1>1, <1>3, <2>1, <2>3, NextPhases DEF InNext, HasInstalled
  <2> QED
    BY <2>2, <2>3
<1>4. CASE run[r].action = "resume"
  <2>1. receipt[r].outcome = "paused"
    BY <1>4 DEF DeployTypeOK, ReceiptFits, ResumesFrom
  <2>2. receipt'[r] = receipt[r] \/ receipt'[r] = Written(run[r], "resumed")
    BY <1>4 DEF Over, InNext, Outcome
  <2> QED
    BY <1>1, <2>1, <2>2, WrittenType DEF HasInstalled
<1>5. CASE run[r].action = "unwind"
  <2>1. receipt[r].outcome = "fail" /\ receipt[r].phase \in UnwindablePhases
    BY <1>5 DEF DeployTypeOK, ReceiptFits, UnwindsFrom
  <2> QED
    BY <1>5, <2>1, UnwindableIsEarly DEF HasInstalled
<1> QED
  BY <1>1, <1>3, <1>4, <1>5 DEF Actions

LEMMA DeployTypeKept ==
  ASSUME DeployTypeOK, server' \in ServerType, server.boot <= server'.boot, server.pause <= server'.pause,
         NEW r \in Invocations, run[r] # NoRun, Over(r) \/ InNext(r),
         run' \in [Invocations -> RunType \cup {NoRun}], receipt' \in [Invocations -> ReceiptType \cup {NoReceipt}],
         \A q \in Invocations : q # r => run'[q] = run[q] /\ receipt'[q] = receipt[q]
  PROVE  DeployTypeOK'
<1>1. /\ server.boot \in Nat /\ server.pause \in Nat /\ server'.boot \in Nat /\ server'.pause \in Nat
  BY DEF DeployTypeOK, ServerType
<1>2. ASSUME NEW q \in Invocations, run'[q] # NoRun
      PROVE  InPhase(run'[q]) /\ run'[q].boot <= server'.boot /\ run'[q].pause <= server'.pause
  <2>1. CASE q = r
    <3>1. InNext(r)
      BY <1>2, <2>1 DEF Over
    <3>2. run[r] \in RunType /\ run[r].boot <= server.boot /\ run[r].pause <= server.pause
      BY DEF DeployTypeOK, NotAhead
    <3>3. run[r].boot \in Nat /\ run[r].pause \in Nat
      BY <3>2 DEF RunType
    <3> QED
      BY <1>1, <2>1, <3>1, <3>2, <3>3 DEF InNext
  <2>2. CASE q # r
    <3>1. run'[q] = run[q] /\ run[q] \in RunType
      BY <1>2, <2>2 DEF DeployTypeOK
    <3>2. InPhase(run[q]) /\ run[q].boot <= server.boot /\ run[q].pause <= server.pause
      BY <1>2, <3>1 DEF DeployTypeOK, NotAhead
    <3>3. run[q].boot \in Nat /\ run[q].pause \in Nat
      BY <3>1 DEF RunType
    <3> QED
      BY <1>1, <3>1, <3>2, <3>3
  <2> QED
    BY <2>1, <2>2
<1>3. ASSUME NEW q \in Invocations, receipt'[q] # NoReceipt
      PROVE  receipt'[q].boot <= server'.boot /\ receipt'[q].pause <= server'.pause
  <2>1. \/ receipt'[q] = receipt[q]
        \/ /\ receipt'[q].boot = run[q].boot /\ receipt'[q].pause = run[q].pause /\ run[q] # NoRun
    BY DEF Over, InNext, Written
  <2>2. CASE receipt'[q] = receipt[q]
    <3>1. receipt[q] \in ReceiptType /\ receipt[q].boot <= server.boot /\ receipt[q].pause <= server.pause
      BY <1>3, <2>2 DEF DeployTypeOK, NotAhead
    <3>2. receipt[q].boot \in Nat /\ receipt[q].pause \in Nat
      BY <3>1 DEF ReceiptType
    <3> QED
      BY <1>1, <2>2, <3>1, <3>2
  <2>3. CASE receipt'[q].boot = run[q].boot /\ receipt'[q].pause = run[q].pause /\ run[q] # NoRun
    <3>1. run[q] \in RunType /\ run[q].boot <= server.boot /\ run[q].pause <= server.pause
      BY <2>3 DEF DeployTypeOK, NotAhead
    <3>2. run[q].boot \in Nat /\ run[q].pause \in Nat
      BY <3>1 DEF RunType
    <3> QED
      BY <1>1, <2>3, <3>1, <3>2
  <2> QED
    BY <2>1, <2>2, <2>3
<1>4. ASSUME NEW q \in Invocations PROVE ReceiptFits(q)'
  <2>1. ReceiptFits(q)
    BY DEF DeployTypeOK
  <2>2. run'[q] = NoRun \/ (run'[q].action = run[q].action /\ receipt'[q] = receipt[q])
    BY DEF Over, InNext
  <2> QED
    BY <2>1, <2>2 DEF ReceiptFits, NoRun
<1> QED
  BY <1>2, <1>3, <1>4 DEF DeployTypeOK, NotAhead

\* Who may be unwound has installed nothing.
LEMMA UnwoundIsClean ==
  ASSUME DeployTypeOK, NEW r \in Invocations, run[r].action = "unwind"
  PROVE  ~HasInstalled(r)
BY UnwindableIsEarly DEF DeployTypeOK, ReceiptFits, UnwindsFrom, HasInstalled

\* A call that is refused, or never arrives, only ends its invocation.
LEMMA RefusedKeeps ==
  ASSUME DeployInv, NEW r \in Invocations, run[r] # NoRun, Fails(r, run[r]), UNCHANGED server
  PROVE  DeployInv'
<1>1. /\ server \in ServerType /\ server' \in ServerType /\ server'.boot = server.boot /\ server'.pause = server.pause
      /\ server.boot \in Nat /\ server.pause \in Nat
  BY DEF DeployInv, DeployTypeOK, ServerType
<1>2. /\ Over(r) \/ InNext(r)
      /\ run' \in [Invocations -> RunType \cup {NoRun}] /\ receipt' \in [Invocations -> ReceiptType \cup {NoReceipt}]
      /\ \A q \in Invocations : q # r => run'[q] = run[q] /\ receipt'[q] = receipt[q]
  BY <1>1, GoesOn DEF DeployInv
<1>3. DeployTypeOK'
  BY <1>1, <1>2, DeployTypeKept DEF DeployInv
<1>4. run'[r] = NoRun
  BY DEF Fails, DeployInv, DeployTypeOK
<1>5. LockedAway'
  <2> SUFFICES ASSUME ~Whole' PROVE (Paused(server) /\ server.lock \in Invocations /\ HasInstalled(server.lock))'
    BY DEF LockedAway
  <2>1. Paused(server) /\ server.lock \in Invocations /\ HasInstalled(server.lock)
    BY DEF DeployInv, LockedAway, Whole
  <2>2. CASE server.lock = r
    BY <1>2, <2>1, <2>2, InstalledStays DEF DeployInv, HasInstalled, Paused
  <2>3. CASE server.lock # r
    BY <1>2, <2>1, <2>3 DEF HasInstalled, Paused
  <2> QED
    BY <2>2, <2>3
<1>6. ASSUME NEW q \in Invocations PROVE run'[q] = run[q] \/ run'[q].action = "none"
  BY <1>2, <1>4 DEF NoRun
<1>7. VerifiedStands' /\ UnwindHoldsLock'
  BY <1>6 DEF DeployInv, VerifiedStands, UnwindHoldsLock, Whole, SeesIts
<1> QED
  BY <1>3, <1>5, <1>7 DEF DeployInv

\* A call that takes effect: its answer is lost, or it goes on.
LEMMA TakenKeeps ==
  ASSUME DeployInv, NEW r \in Invocations, run[r] # NoRun, Accepts(server, r, run[r]),
         server' \in Effect(server, r, run[r]), Fails(r, run[r]) \/ Goes(r, run[r], server')
  PROVE  DeployInv'
<1> DEFINE x == run[r]
<1>1. /\ x \in RunType /\ InPhase(x) /\ x.action \in Actions /\ server \in ServerType /\ Nobody \notin Invocations
      /\ r # Nobody /\ DeployTypeOK
  BY DeployConstants DEF DeployInv, DeployTypeOK, RunType, Nobody
<1>2. /\ server' \in ServerType /\ server.boot <= server'.boot /\ server.pause <= server'.pause
      /\ \/ server'.lock = server.lock
         \/ x.phase = "lock-acquire" /\ server.lock = Nobody /\ server'.lock = r
         \/ x.phase \in {"resume", "lock-abandon"} /\ server.lock = r /\ server'.lock = Nobody
      /\ \/ server'.disk = server.disk /\ server'.runs = server.runs
         \/ x.phase = "install" /\ server.lock = r /\ server'.lock = r /\ Paused(server)
         \/ x.phase = "restart" /\ server'.runs = server.disk /\ server'.disk = server.disk /\ server.boot < server'.boot
      /\ Paused(server) /\ ~Paused(server') => x.phase \in {"resume", "maintenance-resume"}
      /\ x.phase = "resume" => server.lock = r /\ SeesIts(server, x)
      /\ x.phase = "lock-before-unwind" => server.lock = r
      /\ x.phase = "verify-installed" => server'.disk = server'.runs /\ server'.disk # "mixed"
  BY <1>1, PhaseDoes
<1>3. /\ Over(r) \/ InNext(r)
      /\ run' \in [Invocations -> RunType \cup {NoRun}] /\ receipt' \in [Invocations -> ReceiptType \cup {NoReceipt}]
      /\ \A q \in Invocations : q # r => run'[q] = run[q] /\ receipt'[q] = receipt[q]
  BY <1>1, <1>2, GoesOn
<1>4. DeployTypeOK'
  BY <1>1, <1>2, <1>3, DeployTypeKept
<1>5. /\ x.phase \in {"install", "lock-acquire"} => x.action = "apply"
      /\ x.phase = "resume" => x.action = "resume"
      /\ x.phase \in {"maintenance-resume", "lock-abandon"} => x.action = "unwind"
  BY <1>1, PhaseIsOf
<1>6. ASSUME NEW q \in Invocations, HasInstalled(q) PROVE HasInstalled(q)'
  <2>1. CASE q = r
    BY <1>1, <1>3, <1>6, <2>1, InstalledStays
  <2>2. CASE q # r
    BY <1>3, <1>6, <2>2 DEF HasInstalled
  <2> QED
    BY <2>1, <2>2
<1>7. LockedAway'
  <2>1. CASE x.phase = "install" /\ server'.lock = r /\ Paused(server)
    <3>1. HasInstalled(r)
      BY <1>5, <2>1 DEF HasInstalled, Installing
    <3>2. Paused(server')
      BY <1>2, <2>1
    <3>3. server'.lock \in Invocations /\ (HasInstalled(server.lock))'
      BY <1>6, <2>1, <3>1 DEF HasInstalled
    <3> QED
      BY <3>2, <3>3 DEF LockedAway, Paused
  <2>2. CASE Whole /\ (server'.disk = server.disk /\ server'.runs \in {server.runs, server.disk})
    BY <2>2 DEF LockedAway, Whole
  <2>3. CASE ~Whole /\ (server'.disk = server.disk /\ server'.runs \in {server.runs, server.disk})
    <3>1. Paused(server) /\ server.lock \in Invocations /\ HasInstalled(server.lock)
      BY <2>3 DEF DeployInv, LockedAway
    <3>2. x.phase # "resume"
      <4> SUFFICES ASSUME x.phase = "resume" PROVE FALSE
        OBVIOUS
      <4>1. x.action = "resume" /\ server.lock = r /\ SeesIts(server, x)
        BY <1>2, <1>5
      <4> QED
        BY <2>3, <4>1 DEF DeployInv, VerifiedStands
    <3>3. x.phase \notin {"maintenance-resume", "lock-abandon"}
      <4> SUFFICES ASSUME x.phase \in {"maintenance-resume", "lock-abandon"} PROVE FALSE
        OBVIOUS
      <4>1. x.action = "unwind" /\ server.lock = r
        BY <1>5 DEF DeployInv, UnwindHoldsLock
      <4> QED
        BY <1>1, <3>1, <4>1, UnwoundIsClean
    <3>4. server'.lock = server.lock /\ Paused(server')
      BY <1>1, <1>2, <3>1, <3>2, <3>3
    <3>5. HasInstalled(server.lock)'
      BY <1>6, <3>1, <3>4 DEF HasInstalled
    <3> QED
      BY <3>1, <3>4, <3>5 DEF LockedAway, Paused
  <2> QED
    BY <1>2, <2>1, <2>2, <2>3
<1>8. VerifiedStands'
  <2> SUFFICES ASSUME NEW q \in Invocations, run'[q].action = "resume",
                      run'[q].phase \in {"exact-source-audit", "public-drift", "public-ledger", "resume"},
                      server'.lock = q, SeesIts(server', run'[q])
               PROVE  Whole'
    BY DEF VerifiedStands
  <2>1. ASSUME run[q] \in RunType, run[q].boot <= server.boot, run[q].pause <= server.pause,
               run'[q].boot = run[q].boot, run'[q].pause = run[q].pause
        PROVE  SeesIts(server, run[q]) /\ server'.boot = server.boot
    <3>1. /\ server.boot \in Nat /\ server.pause \in Nat /\ server'.boot \in Nat /\ server'.pause \in Nat
          /\ run[q].boot \in Nat /\ run[q].pause \in Nat
      BY <1>1, <1>2, <2>1 DEF ServerType, RunType
    <3>2. server'.boot = run[q].boot /\ server'.pause = run[q].pause
      BY <2>1 DEF SeesIts
    <3>3. server.boot = run[q].boot /\ server.pause = run[q].pause
      BY <1>2, <2>1, <3>1, <3>2
    <3> QED
      BY <3>2, <3>3 DEF SeesIts
  <2>2. CASE q # r
    <3>1. run'[q] = run[q] /\ run[q] # NoRun
      BY <1>3, <2>2 DEF NoRun
    <3>2. run[q] \in RunType /\ run[q].boot <= server.boot /\ run[q].pause <= server.pause
      BY <1>1, <3>1 DEF DeployTypeOK, NotAhead
    <3>3. SeesIts(server, run[q]) /\ server'.boot = server.boot
      BY <2>1, <3>1, <3>2
    <3>4. server.lock = q
      BY <1>1, <1>2, <2>2
    <3>5. Whole
      BY <3>1, <3>3, <3>4 DEF DeployInv, VerifiedStands
    <3>6. server'.disk = server.disk /\ server'.runs = server.runs
      <4>1. server.boot \in Nat
        BY <1>1 DEF ServerType
      <4> QED
        BY <1>2, <2>2, <3>3, <3>4, <4>1
    <3> QED
      BY <3>5, <3>6 DEF Whole
  <2>3. CASE q = r
    <3>1. InNext(r)
      BY <1>3, <2>3 DEF Over, NoRun
    <3>2. x.action = "resume" /\ x.phase \in {"verify-installed", "exact-source-audit", "public-drift", "public-ledger"}
      BY <1>1, <2>3, <3>1, NextPhases DEF InNext
    <3>3. server'.disk = server.disk /\ server'.runs = server.runs /\ server.lock = r
      BY <1>2, <2>3, <3>2
    <3>4. CASE x.phase = "verify-installed"
      BY <1>2, <3>4 DEF Whole
    <3>5. CASE x.phase # "verify-installed"
      <4>1. run'[r].boot = x.boot /\ run'[r].pause = x.pause
        BY <3>1, <3>2 DEF InNext
      <4>2. x.boot <= server.boot /\ x.pause <= server.pause
        BY <1>1 DEF DeployTypeOK, NotAhead
      <4>3. SeesIts(server, x)
        BY <1>1, <2>1, <2>3, <4>1, <4>2
      <4>4. Whole
        BY <3>2, <3>3, <3>5, <4>3 DEF DeployInv, VerifiedStands
      <4> QED
        BY <3>3, <4>4 DEF Whole
    <3> QED
      BY <3>4, <3>5
  <2> QED
    BY <2>2, <2>3
<1>9. UnwindHoldsLock'
  <2> SUFFICES ASSUME NEW q \in Invocations, run'[q].action = "unwind",
                      run'[q].phase \in {"maintenance-status", "maintenance-resume", "lock-abandon"}
               PROVE  server'.lock = q
    BY DEF UnwindHoldsLock
  <2>1. CASE q # r
    <3>1. server.lock = q
      BY <1>3, <2>1 DEF DeployInv, UnwindHoldsLock
    <3> QED
      BY <1>1, <1>2, <2>1, <3>1
  <2>2. CASE q = r
    <3>1. InNext(r)
      BY <1>3, <2>2 DEF Over, NoRun
    <3>2. x.action = "unwind" /\ x.phase \in {"lock-before-unwind", "maintenance-status", "maintenance-resume"}
      BY <1>1, <2>2, <3>1, NextPhases DEF InNext
    <3>3. server.lock = r
      BY <1>2, <3>2 DEF DeployInv, UnwindHoldsLock
    <3> QED
      BY <1>2, <2>2, <3>2, <3>3
  <2> QED
    BY <2>1, <2>2
<1> QED
  BY <1>4, <1>7, <1>8, <1>9 DEF DeployInv

\* The others: no invocation and no receipt changes.
LEMMA OthersKeep ==
  ASSUME DeployInv, UNCHANGED <<run, receipt>>, server' \in ServerType, server.boot <= server'.boot,
         server.pause <= server'.pause, server'.lock = server.lock, server'.disk = server.disk,
         \/ server'.runs = server.runs
         \/ server'.runs = server.disk /\ server.boot < server'.boot,
         Paused(server) /\ ~Paused(server') => server.lock = Nobody
  PROVE  DeployInv'
<1>1. /\ server.boot \in Nat /\ server.pause \in Nat /\ server'.boot \in Nat /\ server'.pause \in Nat
      /\ Nobody \notin Invocations
  BY DeployConstants DEF DeployInv, DeployTypeOK, ServerType, Nobody
<1>2. ASSUME NEW q \in Invocations, run[q] # NoRun
      PROVE  /\ run[q].boot \in Nat /\ run[q].pause \in Nat /\ run[q].boot <= server.boot /\ run[q].pause <= server.pause
             /\ InPhase(run[q])
  <2>1. run[q] \in RunType
    BY <1>2 DEF DeployInv, DeployTypeOK
  <2> QED
    BY <1>2, <2>1 DEF DeployInv, DeployTypeOK, NotAhead, RunType
<1>3. ASSUME NEW q \in Invocations, receipt[q] # NoReceipt
      PROVE  /\ receipt[q].boot \in Nat /\ receipt[q].pause \in Nat
             /\ receipt[q].boot <= server.boot /\ receipt[q].pause <= server.pause
  <2>1. receipt[q] \in ReceiptType
    BY <1>3 DEF DeployInv, DeployTypeOK
  <2> QED
    BY <1>3, <2>1 DEF DeployInv, DeployTypeOK, NotAhead, ReceiptType
<1>4. DeployTypeOK'
  <2>1. \A q \in Invocations : run[q] # NoRun => run[q].boot <= server'.boot /\ run[q].pause <= server'.pause
    BY <1>1, <1>2
  <2>2. \A q \in Invocations : receipt[q] # NoReceipt => receipt[q].boot <= server'.boot /\ receipt[q].pause <= server'.pause
    BY <1>1, <1>3
  <2>3. \A q \in Invocations : ReceiptFits(q)'
    BY DEF DeployInv, DeployTypeOK, ReceiptFits
  <2> QED
    BY <2>1, <2>2, <2>3 DEF DeployInv, DeployTypeOK, NotAhead
<1>5. LockedAway'
  BY <1>1 DEF DeployInv, LockedAway, Whole, HasInstalled, Paused
<1>6. VerifiedStands'
  <2> SUFFICES ASSUME NEW q \in Invocations, run[q].action = "resume",
                      run[q].phase \in {"exact-source-audit", "public-drift", "public-ledger", "resume"},
                      server.lock = q, SeesIts(server', run[q])
               PROVE  Whole'
    BY DEF VerifiedStands
  <2>1. server'.boot = run[q].boot /\ server'.pause = run[q].pause /\ run[q] # NoRun
    BY DEF SeesIts, NoRun
  <2>2. server.boot = run[q].boot /\ server.pause = run[q].pause
    BY <1>1, <1>2, <2>1
  <2>3. Whole
    BY <2>2 DEF DeployInv, VerifiedStands, SeesIts
  <2> QED
    BY <1>1, <2>1, <2>2, <2>3 DEF Whole
<1>7. UnwindHoldsLock'
  BY DEF DeployInv, UnwindHoldsLock
<1> QED
  BY <1>4, <1>5, <1>6, <1>7 DEF DeployInv

LEMMA BeginsKeeps ==
  ASSUME DeployInv, NEW r \in Invocations, NEW action \in Actions, Begins(r, action)
  PROVE  DeployInv'
<1> DEFINE given == IF action = "apply" THEN [boot |-> 0, pause |-> 0] ELSE receipt[r]
           x == [action |-> action, phase |-> "local-validation", boot |-> given.boot, pause |-> given.pause]
<1>1. /\ run[r] = NoRun /\ UNCHANGED <<server, receipt>>
      /\ CASE action = "apply" -> receipt[r] = NoReceipt [] action = "resume" -> ResumesFrom(receipt[r])
           [] OTHER -> UnwindsFrom(receipt[r])
      /\ run' = [run EXCEPT ![r] = [action |-> action, phase |-> PhasesOf(action)[1],
                                    boot |-> IF action = "apply" THEN 0 ELSE receipt[r].boot,
                                    pause |-> IF action = "apply" THEN 0 ELSE receipt[r].pause]]
  BY DEF Begins
<1>2. PhasesOf(action)[1] = "local-validation" /\ 1 \in 1 .. Len(PhasesOf(action))
  BY ListsOf DEF Actions, ApplyPhases, ResumePhases, UnwindPhases
<1>3. run' = [run EXCEPT ![r] = x]
  BY <1>1, <1>2
<1>4. action = "apply" \/ receipt[r] # NoReceipt
  BY <1>1 DEF ResumesFrom, UnwindsFrom, NoReceipt
<1>5. /\ server.boot \in Nat /\ server.pause \in Nat /\ given.boot \in Nat /\ given.pause \in Nat
      /\ given.boot <= server.boot /\ given.pause <= server.pause
  <2>1. server.boot \in Nat /\ server.pause \in Nat
    BY DEF DeployInv, DeployTypeOK, ServerType
  <2>2. CASE action = "apply"
    BY <2>1, <2>2
  <2>3. CASE action # "apply"
    <3>1. receipt[r] \in ReceiptType /\ receipt[r].boot <= server.boot /\ receipt[r].pause <= server.pause
      BY <1>4, <2>3 DEF DeployInv, DeployTypeOK, NotAhead
    <3> QED
      BY <2>1, <2>3, <3>1 DEF ReceiptType
  <2> QED
    BY <2>2, <2>3
<1>6. "local-validation" \in PhaseNames
  BY <1>2 DEF PhaseNames
<1> HIDE DEF given
<1>7. x \in RunType /\ x.action = action /\ x.phase = "local-validation" /\ x.boot = given.boot /\ x.pause = given.pause
  BY <1>5, <1>6 DEF RunType
<1>8. InPhase(x)
  BY <1>2, <1>7 DEF InPhase
<1> HIDE DEF x
<1>9. /\ run' \in [Invocations -> RunType \cup {NoRun}] /\ run'[r] = x
      /\ \A q \in Invocations : q # r => run'[q] = run[q]
  BY <1>3, <1>7 DEF DeployInv, DeployTypeOK
<1>10. DeployTypeOK'
  <2>1. \A q \in Invocations : run'[q] # NoRun => InPhase(run'[q]) /\ run'[q].boot <= server.boot /\ run'[q].pause <= server.pause
    BY <1>5, <1>7, <1>8, <1>9 DEF DeployInv, DeployTypeOK, NotAhead
  <2>2. ASSUME NEW q \in Invocations PROVE ReceiptFits(q)'
    <3>1. CASE q = r
      BY <1>1, <1>7, <1>9, <3>1 DEF ReceiptFits, Actions
    <3>2. CASE q # r
      BY <1>1, <1>9, <3>2 DEF ReceiptFits, DeployInv, DeployTypeOK
    <3> QED
      BY <3>1, <3>2
  <2> QED
    BY <1>1, <1>9, <2>1, <2>2 DEF DeployInv, DeployTypeOK, NotAhead
<1>11. ASSUME NEW q \in Invocations, HasInstalled(q) PROVE HasInstalled(q)'
  BY <1>1, <1>9, <1>11 DEF HasInstalled, NoRun
<1>12. LockedAway'
  <2> SUFFICES ASSUME ~Whole' PROVE (Paused(server) /\ server.lock \in Invocations /\ HasInstalled(server.lock))'
    BY DEF LockedAway
  <2>1. Paused(server) /\ server.lock \in Invocations /\ HasInstalled(server.lock)
    BY <1>1 DEF DeployInv, LockedAway, Whole
  <2>2. HasInstalled(server.lock)'
    BY <1>1, <1>11, <2>1 DEF HasInstalled
  <2> QED
    BY <1>1, <2>1, <2>2
<1>13. VerifiedStands' /\ UnwindHoldsLock'
  BY <1>1, <1>7, <1>9 DEF DeployInv, VerifiedStands, UnwindHoldsLock, Whole, SeesIts
<1> QED
  BY <1>10, <1>12, <1>13 DEF DeployInv

LEMMA RebootType ==
  ASSUME server \in ServerType, server' = Boot(server)
  PROVE  /\ server' \in ServerType /\ server.boot < server'.boot /\ server.pause <= server'.pause /\ server'.lock = server.lock
         /\ server'.disk = server.disk /\ server'.runs = server.disk /\ Paused(server') = Paused(server)
<1>1. PICK p \in {server.pause, server.pause + 1} :
        server' = [boot |-> server.boot + 1, pause |-> p, by |-> server.by, busy |-> FALSE, lock |-> server.lock,
                   stage |-> server.stage, disk |-> server.disk, runs |-> server.disk]
  BY DEF Boot, ServerType
<1>2. /\ server.boot \in Nat /\ server.pause \in Nat /\ server.by \in Invocations \cup {Nobody, "operator"}
      /\ server.lock \in Invocations \cup {Nobody} /\ server.disk \in Releases
      /\ server.stage \in [Invocations -> {"none", "empty", "part", "whole"}]
  BY DEF ServerType
<1> QED
  BY <1>1, <1>2 DEF ServerType, Paused

LEMMA DeployStep == DeployInv /\ [DeployNext]_deployVars => DeployInv'
<1> SUFFICES ASSUME DeployInv, [DeployNext]_deployVars PROVE DeployInv'
  OBVIOUS
<1>1. /\ server \in ServerType /\ server.boot \in Nat /\ server.pause \in Nat
  BY DEF DeployInv, DeployTypeOK, ServerType
<1>2. CASE UNCHANGED deployVars
  <2>1. UNCHANGED <<run, receipt>> /\ server' = server
    BY <1>2 DEF deployVars
  <2> QED
    BY <1>1, <2>1, OthersKeep
<1>3. CASE Admits
  <2>1. UNCHANGED <<run, receipt>> /\ server' = [server EXCEPT !.busy = TRUE]
    BY <1>3 DEF Admits
  <2>2. /\ server' \in ServerType /\ server'.boot = server.boot /\ server'.pause = server.pause /\ server'.lock = server.lock
        /\ server'.disk = server.disk /\ server'.runs = server.runs /\ Paused(server') = Paused(server)
    BY <1>1, <2>1 DEF ServerType, Paused
  <2> QED
    BY <1>1, <2>1, <2>2, OthersKeep
<1>4. CASE Ends
  <2>1. UNCHANGED <<run, receipt>> /\ server' = [server EXCEPT !.busy = FALSE]
    BY <1>4 DEF Ends
  <2>2. /\ server' \in ServerType /\ server'.boot = server.boot /\ server'.pause = server.pause /\ server'.lock = server.lock
        /\ server'.disk = server.disk /\ server'.runs = server.runs /\ Paused(server') = Paused(server)
    BY <1>1, <2>1 DEF ServerType, Paused
  <2> QED
    BY <1>1, <2>1, <2>2, OthersKeep
<1>5. CASE OperatorPauses
  <2>1. UNCHANGED <<run, receipt>> /\ server' = [server EXCEPT !.pause = server.pause + 1, !.by = "operator"] /\ ~Paused(server)
    BY <1>5 DEF OperatorPauses
  <2>2. server' = [boot |-> server.boot, pause |-> server.pause + 1, by |-> "operator", busy |-> server.busy,
                   lock |-> server.lock, stage |-> server.stage, disk |-> server.disk, runs |-> server.runs]
    BY <1>1, <2>1 DEF ServerType
  <2>3. /\ server' \in ServerType /\ server'.boot = server.boot /\ server'.pause = server.pause + 1 /\ server'.lock = server.lock
        /\ server'.disk = server.disk /\ server'.runs = server.runs
    BY <1>1, <2>2 DEF ServerType
  <2> QED
    BY <1>1, <2>1, <2>3, OthersKeep
<1>6. CASE OperatorReopens
  <2>1. UNCHANGED <<run, receipt>> /\ server' = [server EXCEPT !.by = Nobody] /\ server.lock = Nobody
    BY <1>6 DEF OperatorReopens
  <2>2. /\ server' \in ServerType /\ server'.boot = server.boot /\ server'.pause = server.pause /\ server'.lock = server.lock
        /\ server'.disk = server.disk /\ server'.runs = server.runs
    BY <1>1, <2>1 DEF ServerType
  <2> QED
    BY <1>1, <2>1, <2>2, OthersKeep
<1>7. CASE ConsoleReboots
  <2>1. UNCHANGED <<run, receipt>> /\ server' = Boot(server)
    BY <1>7 DEF ConsoleReboots
  <2>2. /\ server' \in ServerType /\ server.boot < server'.boot /\ server.pause <= server'.pause /\ server'.lock = server.lock
        /\ server'.disk = server.disk /\ server'.runs = server.disk /\ Paused(server') = Paused(server)
    BY <1>1, <2>1, RebootType
  <2>3. server'.boot \in Nat /\ server.boot <= server'.boot
    BY <1>1, <2>2 DEF ServerType
  <2> QED
    BY <2>1, <2>2, <2>3, OthersKeep
<1>8. CASE \E r \in Invocations : Phase(r)
  <2>1. PICK r \in Invocations : Phase(r)
    BY <1>8
  <2>2. run[r] # NoRun
    BY <2>1 DEF Phase
  <2>3. CASE Fails(r, run[r]) /\ UNCHANGED server
    BY <2>2, <2>3, RefusedKeeps
  <2>4. CASE /\ Accepts(server, r, run[r]) /\ server' \in Effect(server, r, run[r])
             /\ Fails(r, run[r]) \/ Goes(r, run[r], server')
    BY <2>2, <2>4, TakenKeeps
  <2> QED
    BY <2>1, <2>3, <2>4 DEF Phase
<1>9. CASE \E r \in Invocations : \E action \in {"apply", "resume", "unwind"} : Begins(r, action)
  BY <1>9, BeginsKeeps DEF Actions
<1> QED
  BY <1>2, <1>3, <1>4, <1>5, <1>6, <1>7, <1>8, <1>9 DEF DeployNext

LEMMA DeployBegins == DeployInit => DeployInv
<1> SUFFICES ASSUME DeployInit PROVE DeployInv
  OBVIOUS
<1>1. /\ server = [boot |-> 0, pause |-> 0, by |-> Nobody, busy |-> FALSE, lock |-> Nobody,
                   stage |-> [r \in Invocations |-> "none"], disk |-> "old", runs |-> "old"]
      /\ \A r \in Invocations : run[r] = NoRun /\ receipt[r] = NoReceipt
      /\ run = [r \in Invocations |-> NoRun] /\ receipt = [r \in Invocations |-> NoReceipt]
  BY DEF DeployInit
<1>2. server \in ServerType
  BY <1>1 DEF ServerType, Releases
<1>3. DeployTypeOK
  BY <1>1, <1>2 DEF DeployTypeOK, ReceiptFits, NoRun
<1>4. LockedAway /\ VerifiedStands /\ UnwindHoldsLock
  BY <1>1 DEF LockedAway, VerifiedStands, UnwindHoldsLock, Whole, NoRun
<1> QED
  BY <1>3, <1>4 DEF DeployInv

THEOREM DeployInvariance == DeploySpec => []DeployInv
<1>1. DeployInit => DeployInv
  BY DeployBegins
<1>2. DeployInv /\ [DeployNext]_deployVars => DeployInv'
  BY DeployStep
<1> QED
  BY <1>1, <1>2, PTL DEF DeploySpec

\* A console that admits requests runs one whole release, the one on disk, however the deployments
\* overlap, fail and are resumed or unwound: the source that is not whole is behind a pause and the lock.
THEOREM ReleasesRunWhole == DeploySpec => []OpenRunsWhole
<1>1. DeployInv => OpenRunsWhole
  BY DEF DeployInv, LockedAway, Whole, OpenRunsWhole
<1> QED
  BY <1>1, DeployInvariance, PTL
=============================================================================
