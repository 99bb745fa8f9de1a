------------------------------- MODULE SignIn -------------------------------
(***************************************************************************)
(* Three ways to sign in without a password: the code one device shows     *)
(* another (api/auth/device_link.py), a passkey (api/auth/passkeys.py) and *)
(* the tokens of an OIDC provider (api/oidc.py).  Each is a protocol of    *)
(* several requests, whose reads and writes interleave.                    *)
(***************************************************************************)
EXTENDS FiniteSets, Naturals

CONSTANTS
  Phones,     \* polls of one device-link code
  Challenges, Logins, \* of passkeys, and the requests that answer them
  SigningKeys, Callbacks \* of the provider, and the sign-ins that come back from it

VARIABLES link, polls, handed
linkVars == <<link, polls, handed>>

LinkInit ==
  /\ link = [claimed |-> FALSE, approved |-> FALSE, denied |-> FALSE, consumed |-> FALSE, expired |-> FALSE]
  /\ polls = [p \in Phones |-> "idle"]
  /\ handed = 0

\* redeem_poll reads the row; what it goes on to do rests on what it saw.
PollReads(p) ==
  /\ polls[p] = "idle"
  /\ ~link.consumed /\ ~link.denied
  /\ \/ link.approved /\ polls' = [polls EXCEPT ![p] = "consume"]
     \/ ~link.approved /\ ~link.expired /\ ~link.claimed /\ polls' = [polls EXCEPT ![p] = "claim"]
  /\ UNCHANGED <<link, handed>>

\* The first contact: an UPDATE of a row nobody has claimed or denied.
PollClaims(p) ==
  /\ polls[p] = "claim"
  /\ link' = IF link.claimed \/ link.denied THEN link ELSE [link EXCEPT !.claimed = TRUE]
  /\ polls' = [polls EXCEPT ![p] = "idle"]
  /\ UNCHANGED handed

\* Mutant of Consumable: the UPDATE does not ask whether the code is still there.
Approved == link.approved

\* The UPDATE that consumes an approved code; who changed the row gets the session.
Consumable == link.approved /\ ~link.consumed

PollConsumes(p) ==
  /\ polls[p] = "consume"
  /\ link' = IF Consumable THEN [link EXCEPT !.consumed = TRUE] ELSE link
  /\ handed' = IF Consumable THEN handed + 1 ELSE handed
  /\ polls' = [polls EXCEPT ![p] = "idle"]

\* decide, by the user who showed the code.
LinkApproved ==
  /\ link.claimed /\ ~link.approved /\ ~link.denied /\ ~link.consumed /\ ~link.expired
  /\ link' = [link EXCEPT !.approved = TRUE]
  /\ UNCHANGED <<polls, handed>>

LinkDenied ==
  /\ ~link.denied /\ ~link.consumed
  /\ link' = [link EXCEPT !.denied = TRUE]
  /\ UNCHANGED <<polls, handed>>

LinkExpires ==
  /\ ~link.expired
  /\ link' = [link EXCEPT !.expired = TRUE]
  /\ UNCHANGED <<polls, handed>>

LinkNext ==
  \/ \E p \in Phones : PollReads(p) \/ PollClaims(p) \/ PollConsumes(p)
  \/ LinkApproved \/ LinkDenied \/ LinkExpires

LinkSpec == LinkInit /\ [][LinkNext]_linkVars

\* A code gives at most one session (device_link.py redeem_poll), and only after it
\* was claimed and its owner approved, however the polls and the decision interleave.
LinkOnce ==
  /\ handed <= 1
  /\ handed = 1 => link.claimed /\ link.approved /\ link.consumed

-----------------------------------------------------------------------------
VARIABLES
  stored,  \* the challenges the server has given out and not yet popped
  passkey, \* whether the one credential is there
  logins,  \* the requests that popped a challenge, with what they read
  uses     \* history: how often an answer to each challenge was taken
passkeyVars == <<stored, passkey, logins, uses>>

Waiting == [pc |-> "idle"]

PasskeyInit ==
  /\ stored = {}
  /\ passkey = FALSE
  /\ logins = [l \in Logins |-> Waiting]
  /\ uses = [c \in Challenges |-> 0]

\* A challenge is stored for a registration or a sign-in, and one may expire.
StoreChallenge(c) ==
  /\ uses[c] = 0 /\ ~\E l \in Logins : logins[l] # Waiting /\ logins[l].challenge = c
  /\ stored' = stored \cup {c}
  /\ UNCHANGED <<passkey, logins, uses>>

\* Mutant of Popped: the challenge is looked up and stays.
LookedUp(c) == stored

\* What popping a challenge leaves.
Popped(c) == stored \ {c}

\* The request pops the challenge before it reads anything; when it has expired
\* it is popped all the same, and the request ends.
PopChallenge(l, c) ==
  /\ logins[l] = Waiting /\ c \in stored
  /\ stored' = Popped(c)
  /\ \E next \in {"register", "read", "idle"} :
       logins' = [logins EXCEPT ![l] = IF next = "idle" THEN Waiting ELSE [pc |-> next, challenge |-> c]]
  /\ UNCHANGED <<passkey, uses>>

LoginEnds(l) == logins' = [logins EXCEPT ![l] = Waiting]
Used(l) == uses' = [uses EXCEPT ![logins[l].challenge] = @ + 1]

\* verify_registration stores the credential, which is unique.
Registers(l) ==
  /\ logins[l].pc = "register"
  /\ IF passkey THEN UNCHANGED <<passkey, uses>>
     ELSE passkey' = TRUE /\ Used(l)
  /\ LoginEnds(l)
  /\ UNCHANGED stored

\* verify_authentication reads the credential, and checks the answer against it.
ReadsPasskey(l) ==
  /\ logins[l].pc = "read"
  /\ IF passkey THEN logins' = [logins EXCEPT ![l].pc = "write"] ELSE LoginEnds(l)
  /\ UNCHANGED <<stored, passkey, uses>>

\* It writes the new signature count; the write fails when the credential was deleted.
WritesCount(l) ==
  /\ logins[l].pc = "write"
  /\ IF passkey THEN Used(l) ELSE UNCHANGED uses
  /\ LoginEnds(l)
  /\ UNCHANGED <<stored, passkey>>

DeletePasskey ==
  /\ passkey
  /\ passkey' = FALSE
  /\ UNCHANGED <<stored, logins, uses>>

PasskeyNext ==
  \/ \E c \in Challenges : StoreChallenge(c)
  \/ \E l \in Logins : Registers(l) \/ ReadsPasskey(l) \/ WritesCount(l) \/ \E c \in Challenges : PopChallenge(l, c)
  \/ DeletePasskey

PasskeySpec == PasskeyInit /\ [][PasskeyNext]_passkeyVars

\* A challenge is answered once, whatever is sent twice: no two requests get to
\* verify against the same one (passkeys.py _pop_challenge).
ChallengeOnce == \A c \in Challenges : uses[c] <= 1

\* What is meant to be used once is: a device's code and a passkey's challenge.
UsedOnce == LinkOnce /\ ChallengeOnce

-----------------------------------------------------------------------------
VARIABLES
  published, \* the keys the provider signs with and shows
  jwks,      \* the cached key set, a set of at most one
  callbacks  \* the sign-ins, with their token's key, and whether it stayed published
jwksVars == <<published, jwks, callbacks>>

NoCallback == [pc |-> "idle"]

JwksInit ==
  /\ \E k \in SigningKeys : published = {k}
  /\ jwks = {}
  /\ callbacks = [b \in Callbacks |-> NoCallback]

\* The provider takes a new key, or stops showing an old one.
PublishKey(k) ==
  /\ k \notin published
  /\ published' = published \cup {k}
  /\ UNCHANGED <<jwks, callbacks>>

WithdrawKey(k) ==
  /\ k \in published /\ published # {k}
  /\ published' = published \ {k}
  /\ callbacks' = [b \in Callbacks |->
       IF callbacks[b] # NoCallback /\ callbacks[b].key = k THEN [callbacks[b] EXCEPT !.steady = FALSE] ELSE callbacks[b]]
  /\ UNCHANGED jwks

JwksExpires ==
  /\ jwks # {}
  /\ jwks' = {}
  /\ UNCHANGED <<published, callbacks>>

\* Mutant of NotFound: cached keys are taken at their word.
NotFoundCached == IF jwks = {} THEN "fetch" ELSE "refused"

\* A key the cached set lacks, or no cached set.
NotFound == "fetch"

\* verify_id_token: the cached keys, or a fetch; a key that is not in them clears
\* the cache for one more fetch.
CallbackVerifies(b, k) ==
  /\ callbacks[b] = NoCallback /\ k \in published
  /\ LET known == \E keys \in jwks : k \in keys
         next == IF known THEN "verified" ELSE NotFound IN
       /\ callbacks' = [callbacks EXCEPT ![b] =
            [pc |-> next, key |-> k, steady |-> TRUE, tries |-> IF jwks = {} THEN 2 ELSE 1, keys |-> {}]]
       /\ jwks' = IF known THEN jwks ELSE {}
  /\ UNCHANGED published

\* The provider's answer, which is stored only when it has come.
FetchAnswered(b) ==
  /\ callbacks[b].pc = "fetch"
  /\ callbacks' = [callbacks EXCEPT ![b].pc = "store", ![b].keys = published]
  /\ UNCHANGED <<published, jwks>>

FetchStored(b) ==
  /\ callbacks[b].pc = "store"
  /\ LET found == callbacks[b].key \in callbacks[b].keys
         again == ~found /\ callbacks[b].tries = 2 IN
       /\ jwks' = IF again THEN {} ELSE {callbacks[b].keys}
       /\ callbacks' = [callbacks EXCEPT
            ![b].pc = IF found THEN "verified" ELSE IF again THEN "fetch" ELSE "refused", ![b].tries = 1]
  /\ UNCHANGED published

\* The fetch fails, and the sign-in with it; or the callback has its answer.
CallbackEnds(b) ==
  /\ callbacks[b].pc \in {"fetch", "verified", "refused"}
  /\ callbacks' = [callbacks EXCEPT ![b] = NoCallback]
  /\ UNCHANGED <<published, jwks>>

JwksNext ==
  \/ \E k \in SigningKeys : PublishKey(k) \/ WithdrawKey(k)
  \/ JwksExpires
  \/ \E b \in Callbacks : FetchAnswered(b) \/ FetchStored(b) \/ CallbackEnds(b) \/ \E k \in SigningKeys : CallbackVerifies(b, k)

JwksSpec == JwksInit /\ [][JwksNext]_jwksVars

\* A token whose key the provider shows all along is never refused for its key:
\* a stale cache, or an old answer that comes late, costs one more fetch (oidc.py
\* verify_id_token).
KeyFound == \A b \in Callbacks : callbacks[b].pc = "refused" => ~callbacks[b].steady

=============================================================================
