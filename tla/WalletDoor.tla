---------------------------- MODULE WalletDoor -----------------------------
(***************************************************************************)
(* Who may do what on the console: sign-in by wallet signature (siwe.mjs), *)
(* sliding-window rate limits (guard.mjs), the door of the routes          *)
(* (http-plumbing.mjs), the invite list, and ownership of a chain.         *)
(*                                                                         *)
(* Time is a counter.  A signature is the wallet that made it: recovering  *)
(* the signer is ethers'.  One chain stands for the ledger.                *)
(***************************************************************************)
EXTENDS RateLimit, FiniteSets

CONSTANTS Wallets, Invited,        \* Invited \subseteq Wallets: the invite list
          TtlNonce, TtlSession,    \* ttlNonceMs, ttlPhienMs
          MaxPending, MaxSessions, \* maxNonce, maxPhien
          Window, MaxSignIn, MaxWork, \* windowMs; limitNonce's and a wallet's own max
          MaxTime, MaxInvites      \* bounds

ASSUME DoorConstants ==
  /\ Invited \subseteq Wallets
  /\ {TtlNonce, TtlSession, MaxPending, MaxSessions, Window, MaxSignIn, MaxWork, MaxTime, MaxInvites} \subseteq Nat \ {0}

VARIABLES clock,
          invites,      \* khoNonce: set of [nonce, address, until]
          sessions,     \* khoPhien: set of [nonce, address, until]
          issued,       \* nonces given out
          hits,         \* key -> times of the requests let in, newest last
          owner,        \* the chain's recorded owner, "nobody" when there is no chain
          toRevoke,     \* revocations in the serial queue: who asked
          logins,       \* every session ever opened: [nonce, signer]
          revokedFor    \* [by, owner] of the last revocation run

doorVars == <<clock, invites, sessions, issued, hits, owner, toRevoke, logins, revokedFor>>

\* One limit for the sign-in routes, by address of the caller, and one per wallet and operation.
SignIn == <<"signIn", "ip">>
Limited == {SignIn} \cup ({"create", "revoke", "transfer"} \X Wallets)
Budget(key) == IF key = SignIn THEN MaxSignIn ELSE MaxWork
NoRevocation == [by |-> "nobody", owner |-> "nobody"]

DoorInit ==
  /\ clock = 0 /\ invites = {} /\ sessions = {} /\ issued = 0
  /\ hits = [k \in Limited |-> <<>>]
  /\ owner = "nobody" /\ toRevoke = <<>> /\ logins = <<>> /\ revokedFor = NoRevocation

-----------------------------------------------------------------------------
\* The limits of the routes.  A refused request is not counted.
Spare(key) == ~OverLimit(hits[key], clock, Window, Budget(key))

Admit(key) ==
  /\ Spare(key)
  /\ hits' = [hits EXCEPT ![key] = LetIn(@, clock, Window)]

\* The sweep of the timer and of every check.
SweepHits ==
  /\ hits' = [k \in Limited |-> Recent(hits[k], clock, Window)] /\ hits' # hits
  /\ UNCHANGED <<clock, invites, sessions, issued, owner, toRevoke, logins, revokedFor>>

Live(store) == {r \in store : r.until > clock}

SweepStores ==
  /\ invites' = Live(invites) /\ sessions' = Live(sessions)
  /\ <<invites, sessions>>' # <<invites, sessions>>
  /\ UNCHANGED <<clock, issued, hits, owner, toRevoke, logins, revokedFor>>

-----------------------------------------------------------------------------
\* moiKy: a full store refuses, it never drops an invitation that is still good.
AskInvite(w) ==
  /\ issued < MaxInvites
  /\ Admit(SignIn)
  /\ IF Cardinality(Live(invites)) >= MaxPending
       THEN invites' = Live(invites) /\ issued' = issued
       ELSE /\ invites' = Live(invites) \cup {[nonce |-> issued + 1, address |-> w, until |-> clock + TtlNonce]}
            /\ issued' = issued + 1
  /\ UNCHANGED <<clock, sessions, owner, toRevoke, logins, revokedFor>>

\* xacThuc: the nonce is spent first, whatever the signature turns out to be.
\* Mutant: it is spent only when the sign-in fails.
Spent_OnFailure(invite, opens) == IF opens THEN invites ELSE invites \ {invite}
Spent(invite, opens) == invites \ {invite}

Login(invite, signer) ==
  /\ Admit(SignIn)
  /\ LET opens == /\ invite.until > clock /\ signer = invite.address
                  /\ Cardinality(Live(sessions)) < MaxSessions IN
     /\ invites' = Spent(invite, opens)
     /\ IF opens
          THEN /\ sessions' = Live(sessions) \cup {[nonce |-> invite.nonce, address |-> invite.address,
                                                   until |-> clock + TtlSession]}
               /\ logins' = Append(logins, [nonce |-> invite.nonce, signer |-> signer])
          ELSE sessions' \in {sessions, Live(sessions)} /\ logins' = logins
  /\ UNCHANGED <<clock, issued, owner, toRevoke, revokedFor>>

-----------------------------------------------------------------------------
\* diaChiCuaPhien: the wallet of a request.
SignedIn(w) == \E s \in Live(sessions) : s.address = w

\* Creation: only invited wallets, and the chain is the signer's.
MayCreateL1(w) == w \in Invited

CreateChain(w) ==
  /\ SignedIn(w) /\ Admit(<<"create", w>>)
  /\ owner' = IF MayCreateL1(w) /\ owner = "nobody" THEN w ELSE owner
  /\ UNCHANGED <<clock, invites, sessions, issued, toRevoke, logins, revokedFor>>

\* Revocation: the owner is compared when the request comes in, the work waits for its turn.
AskRevoke(w) ==
  /\ SignedIn(w) /\ Admit(<<"revoke", w>>) /\ toRevoke = <<>>
  /\ toRevoke' = IF owner = w THEN <<w>> ELSE toRevoke
  /\ UNCHANGED <<clock, invites, sessions, issued, owner, logins, revokedFor>>

RunRevoke ==
  /\ toRevoke # <<>> /\ toRevoke' = Tail(toRevoke)
  /\ revokedFor' = [by |-> Head(toRevoke), owner |-> owner]
  /\ owner' = "nobody"
  /\ UNCHANGED <<clock, invites, sessions, issued, hits, logins>>

\* assertChainOwner
MayGovern(w) == owner = w

\* doiChu: by the recorded owner, outside the queue, to a wallet the chain calls Admin.
HandOver(w, x) ==
  /\ SignedIn(w) /\ Admit(<<"transfer", w>>) /\ x # w
  /\ owner' = IF MayGovern(w) THEN x ELSE owner
  /\ UNCHANGED <<clock, invites, sessions, issued, toRevoke, logins, revokedFor>>

-----------------------------------------------------------------------------
DoorTick ==
  /\ clock < MaxTime /\ clock' = clock + 1
  /\ UNCHANGED <<invites, sessions, issued, hits, owner, toRevoke, logins, revokedFor>>

\* A restart forgets the stores and the limits; the ledger stays.
DoorRestart ==
  /\ invites' = {} /\ sessions' = {} /\ toRevoke' = <<>>
  /\ hits' = [k \in Limited |-> <<>>]
  /\ UNCHANGED <<clock, issued, owner, logins, revokedFor>>

DoorNext ==
  \/ DoorTick \/ DoorRestart \/ SweepHits \/ SweepStores \/ RunRevoke
  \/ \E w \in Wallets : \/ AskInvite(w) \/ CreateChain(w) \/ AskRevoke(w)
                        \/ \E i \in invites : Login(i, w)
                        \/ \E x \in Wallets : HandOver(w, x)

DoorSpec == DoorInit /\ [][DoorNext]_doorVars

-----------------------------------------------------------------------------
\* An invitation opens at most one session, however its nonce is tried again, delayed or raced.
OneSessionPerInvite == \A i, j \in DOMAIN logins : logins[i].nonce = logins[j].nonce => i = j

\* The revoke route's rule that a wallet may revoke only its OWN chain, at the moment the chain is
\* revoked.
RevokedByOwner == revokedFor.by = revokedFor.owner
=============================================================================
