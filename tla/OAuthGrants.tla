---------------------------- MODULE OAuthGrants ----------------------------
(***************************************************************************)
(* The OAuth authorization server on PostgreSQL: one registered client, the *)
(* consent screen with its sign-in ticket, authorization codes, standing   *)
(* grants, and the token pairs (an api_keys row and a rotating refresh     *)
(* token) issued under them.                                               *)
(*                                                                         *)
(* Transactions run at READ COMMITTED: a request is cut wherever another   *)
(* transaction's commit can come between two of its statements.  An insert *)
(* takes only a key-share lock on its grant's row, which a revocation of   *)
(* that row does not conflict with.                                        *)
(***************************************************************************)
EXTENDS Naturals, FiniteSets

CONSTANTS Reqs,      \* requests in flight at the same time
          Codes,     \* authorization codes
          MaxGrants, \* bound: oauth_grants rows
          MaxPairs,  \* bound: token pairs
          MaxTime,   \* bound: the clock
          TicketTTL, CodeTTL, AccessTTL, GrantTTL

ASSUME OAuthAssumption ==
  /\ {MaxGrants, MaxPairs, MaxTime} \subseteq Nat
  /\ {TicketTTL, CodeTTL, AccessTTL, GrantTTL} \subseteq Nat \ {0}
  /\ "none" \notin Codes   \* a grant without a code has no code

VARIABLES
  oNow,      \* the clock
  oClient,   \* the oauth_clients row
  oBrowser,  \* the consent screen: its step, the last password, its ticket
  oCode,     \* the authorization_codes rows
  oGrant,    \* the oauth_grants rows
  oPair,     \* the api_keys row and the refresh token issued together
  oReq       \* the requests

oauthVars == <<oNow, oClient, oBrowser, oCode, oGrant, oPair, oReq>>

Grants == 1..MaxGrants
Pairs == 1..MaxPairs
Steps == {"idle", "exAuth", "exRead", "rfAuth", "rfToken", "rfLive", "rvFlip", "rvKeys", "rvToks", "rvCommit"}
Times == 0..(MaxTime + TicketTTL + CodeTTL + AccessTTL + GrantTTL)

OAuthTypeOK ==
  /\ oNow \in 0..MaxTime
  /\ oClient \in {"none", "live", "disabled"}
  /\ oBrowser \in [pc : {"away", "picker", "approving"}, signed : Times, expires : Times, age : Times,
                   error : BOOLEAN]
  /\ oCode \in [Codes -> [st : {"none", "issued", "consumed", "deleted"}, expires : Times, age : Times]]
  /\ oGrant \in [Grants -> [st : {"none", "active", "revoked", "deleted"}, code : Codes \cup {"none"},
                            expires : Times, notices : 0..2]]
  /\ oPair \in [Pairs -> [grant : {0} \cup Grants, from : {0} \cup Pairs, keyExpires : 0..(MaxTime + GrantTTL),
                          keyRevoked : BOOLEAN, consumed : BOOLEAN, revoked : BOOLEAN, late : BOOLEAN]]
  /\ oReq \in [Reqs -> [pc : Steps, code : Codes \cup {"none"}, pair : {0} \cup Pairs,
                        grant : {0} \cup Grants, spent : BOOLEAN, dead : BOOLEAN, flipped : BOOLEAN,
                        explicit : BOOLEAN, keys : SUBSET Pairs, toks : SUBSET Pairs]]

NoRequest == [pc |-> "idle", code |-> "none", pair |-> 0, grant |-> 0, spent |-> FALSE, dead |-> FALSE,
              flipped |-> FALSE, explicit |-> FALSE, keys |-> {}, toks |-> {}]

NoConsent == [pc |-> "away", signed |-> 0, expires |-> 0, age |-> 0, error |-> FALSE]

OAuthInit ==
  /\ oNow = 0
  /\ oClient = "none"
  /\ oBrowser = NoConsent
  /\ oCode = [c \in Codes |-> [st |-> "none", expires |-> 0, age |-> 0]]
  /\ oGrant = [g \in Grants |-> [st |-> "none", code |-> "none", expires |-> 0, notices |-> 0]]
  /\ oPair = [p \in Pairs |-> [grant |-> 0, from |-> 0, keyExpires |-> 0, keyRevoked |-> FALSE,
                               consumed |-> FALSE, revoked |-> FALSE, late |-> FALSE]]
  /\ oReq = [r \in Reqs |-> NoRequest]

ClockTick ==
  /\ oNow < MaxTime
  /\ oNow' = oNow + 1
  /\ UNCHANGED <<oClient, oBrowser, oCode, oGrant, oPair, oReq>>

----------------------------------------------------------------------------
(* The client.  A disabled row stays as the tombstone of its registration  *)
(* key, so a repeated registration conflicts instead of inserting.         *)

RegisterClient ==
  /\ oClient = "none"
  /\ oClient' = "live"
  /\ UNCHANGED <<oNow, oBrowser, oCode, oGrant, oPair, oReq>>

\* One transaction; deleting a grant cascades to its keys and refresh tokens.
\* It waits for the row locks of an exchange or a rotation that is committing.
DisableOauthClient ==
  /\ oClient = "live"
  /\ oClient' = "disabled"
  /\ oCode' = [c \in Codes |-> IF oCode[c].st = "none" THEN oCode[c] ELSE [oCode[c] EXCEPT !.st = "deleted"]]
  /\ oGrant' = [g \in Grants |-> IF oGrant[g].st = "none" THEN oGrant[g] ELSE [oGrant[g] EXCEPT !.st = "deleted"]]
  /\ UNCHANGED <<oNow, oBrowser, oPair, oReq>>

----------------------------------------------------------------------------
(* The consent screen.                                                     *)

\* Step 1 of the decision route: the password mints the ticket.
SignIn ==
  /\ oClient = "live" /\ oBrowser.pc = "away" /\ \E c \in Codes : oCode[c].st = "none"
  /\ oBrowser' = [oBrowser EXCEPT !.pc = "picker", !.signed = oNow, !.expires = oNow + TicketTTL,
                                  !.error = FALSE]
  /\ UNCHANGED <<oNow, oClient, oCode, oGrant, oPair, oReq>>

TicketValid == oNow < oBrowser.expires

TicketAfterErrorRenewed == oNow + TicketTTL
\* The picker is shown again with the ticket that was posted.
TicketAfterError == oBrowser.expires

\* Step 2 without an existing connection ticked.
PickNothing ==
  /\ oClient = "live" /\ oBrowser.pc = "picker" /\ TicketValid /\ ~oBrowser.error
  /\ oBrowser' = [oBrowser EXCEPT !.error = TRUE, !.expires = TicketAfterError]
  /\ UNCHANGED <<oNow, oClient, oCode, oGrant, oPair, oReq>>

\* Deny needs no credential; an expired ticket goes back to the password.
LeaveConsent ==
  /\ oClient = "live" /\ oBrowser.pc = "picker"
  /\ oBrowser' = NoConsent
  /\ UNCHANGED <<oNow, oClient, oCode, oGrant, oPair, oReq>>

\* Step 2: the client, then the ticket, are checked before the code is stored.
Approve ==
  /\ oClient = "live" /\ oBrowser.pc = "picker" /\ TicketValid
  /\ oBrowser' = [oBrowser EXCEPT !.pc = "approving", !.age = oNow - oBrowser.signed]
  /\ UNCHANGED <<oNow, oClient, oCode, oGrant, oPair, oReq>>

\* The redirect with the code leaves the page.
InsertCode(c) ==
  /\ oBrowser.pc = "approving" /\ oCode[c].st = "none"
  /\ oCode' = [oCode EXCEPT ![c] = [st |-> "issued", expires |-> oNow + CodeTTL, age |-> oBrowser.age]]
  /\ oBrowser' = NoConsent
  /\ UNCHANGED <<oNow, oClient, oGrant, oPair, oReq>>

----------------------------------------------------------------------------
(* Issuing a pair of tokens.                                               *)

Smaller(a, b) == IF a < b THEN a ELSE b

AccessTokenExpiry(grantExpires) == Smaller(oNow + AccessTTL, grantExpires)

\* A cascade of g has read the key table, or has committed.
CascadePassed(g) == \/ oGrant[g].st = "revoked"
                    \/ \E r \in Reqs : oReq[r].grant = g /\ oReq[r].pc \in {"rvToks", "rvCommit"}

FreePairs == {p \in Pairs : oPair[p].grant = 0}
NextPair == CHOOSE p \in FreePairs : \A q \in FreePairs : p <= q

NewPair(g, grantExpires, parent) ==
  [grant |-> g, from |-> parent, keyExpires |-> AccessTokenExpiry(grantExpires), keyRevoked |-> FALSE,
   consumed |-> FALSE, revoked |-> FALSE, late |-> CascadePassed(g)]

----------------------------------------------------------------------------
(* POST /oauth/token with an authorization code.                           *)

\* authenticateOauthClient: the client presents a code it was redirected with.
ExchangeAuth(r, c) ==
  /\ oReq[r].pc = "idle" /\ oClient = "live" /\ oCode[c].st # "none"
  /\ oReq' = [oReq EXCEPT ![r] = [NoRequest EXCEPT !.pc = "exAuth", !.code = c]]
  /\ UNCHANGED <<oNow, oClient, oBrowser, oCode, oGrant, oPair>>

\* The code is read and checked before the transaction.
ExchangeRead(r) ==
  LET code == oCode[oReq[r].code] IN
  /\ oReq[r].pc = "exAuth"
  /\ oReq' = [oReq EXCEPT ![r] = IF code.st = "issued" /\ oNow < code.expires
                                 THEN [@ EXCEPT !.pc = "exRead"] ELSE NoRequest]
  /\ UNCHANGED <<oNow, oClient, oBrowser, oCode, oGrant, oPair>>

\* UPDATE ... WHERE consumed_at IS NULL, on a row that may be gone by now.
CodeConsumable(c) == oCode[c].st = "issued"

FreeGrants == {g \in Grants : oGrant[g].st = "none"}

\* One transaction: consume the code, insert the grant and its first pair.
ExchangeCommit(r) ==
  LET c == oReq[r].code IN
  /\ oReq[r].pc = "exRead"
  /\ oReq' = [oReq EXCEPT ![r] = NoRequest]
  /\ IF CodeConsumable(c)
     THEN /\ FreePairs # {}
          /\ oCode' = [oCode EXCEPT ![c].st = "consumed"]
          /\ \E g \in FreeGrants :
               /\ oGrant' = [oGrant EXCEPT ![g] = [st |-> "active", code |-> c, expires |-> oNow + GrantTTL,
                                                   notices |-> 0]]
               /\ oPair' = [oPair EXCEPT ![NextPair] = NewPair(g, oNow + GrantTTL, 0)]
     ELSE UNCHANGED <<oCode, oGrant, oPair>>
  /\ UNCHANGED <<oNow, oClient, oBrowser>>

\* The transaction fails, or the process dies: everything it wrote is undone.
RequestAborts(r) ==
  /\ oReq[r].pc # "idle"
  /\ oReq' = [oReq EXCEPT ![r] = NoRequest]
  /\ UNCHANGED <<oNow, oClient, oBrowser, oCode, oGrant, oPair>>

----------------------------------------------------------------------------
(* POST /oauth/token with a refresh token.                                 *)

RowExists(p) == oPair[p].grant # 0 /\ oGrant[oPair[p].grant].st \in {"active", "revoked"}

RefreshAuth(r, p) ==
  /\ oReq[r].pc = "idle" /\ oClient = "live" /\ oPair[p].grant # 0
  /\ oReq' = [oReq EXCEPT ![r] = [NoRequest EXCEPT !.pc = "rfAuth", !.pair = p]]
  /\ UNCHANGED <<oNow, oClient, oBrowser, oCode, oGrant, oPair>>

\* SELECT the token.
RefreshRead(r) ==
  LET p == oReq[r].pair IN
  /\ oReq[r].pc = "rfAuth"
  /\ oReq' = [oReq EXCEPT ![r] = IF RowExists(p)
                THEN [@ EXCEPT !.pc = "rfToken", !.grant = oPair[p].grant, !.spent = oPair[p].consumed,
                               !.dead = oPair[p].revoked]
                ELSE NoRequest]
  /\ UNCHANGED <<oNow, oClient, oBrowser, oCode, oGrant, oPair>>

\* SELECT the grant, and the checks on both rows as they were read.
RefreshGrant(r) ==
  LET g == oReq[r].grant IN
  /\ oReq[r].pc = "rfToken"
  /\ oReq' = [oReq EXCEPT ![r] = IF oGrant[g].st = "active" /\ ~oReq[r].dead /\ oNow < oGrant[g].expires
                THEN [@ EXCEPT !.pc = "rfLive"] ELSE NoRequest]
  /\ UNCHANGED <<oNow, oClient, oBrowser, oCode, oGrant, oPair>>

RotationWinsAgain(p) == RowExists(p)
\* UPDATE ... WHERE consumed_at IS NULL RETURNING: it does not look at revoked_at.
RotationWins(p) == RowExists(p) /\ ~oPair[p].consumed

\* A cascade that has updated this token's row keeps it locked until it commits.
RowLocked(p) == \E r \in Reqs : oReq[r].pc = "rvCommit" /\ p \in oReq[r].toks

\* The token is spent: revokeForReuse.  Otherwise rotate it, or lose the race.
RefreshRotate(r) ==
  LET p == oReq[r].pair
      g == oReq[r].grant
  IN
  /\ oReq[r].pc = "rfLive"
  /\ \/ /\ oReq[r].spent \/ (~RowLocked(p) /\ ~RotationWins(p))
        /\ oReq' = [oReq EXCEPT ![r].pc = "rvFlip"]
        /\ UNCHANGED oPair
     \/ /\ ~oReq[r].spent /\ ~RowLocked(p) /\ RotationWins(p) /\ FreePairs # {}
        /\ oPair' = [oPair EXCEPT ![p].consumed = TRUE, ![NextPair] = NewPair(g, oGrant[g].expires, p)]
        /\ oReq' = [oReq EXCEPT ![r] = NoRequest]
  /\ UNCHANGED <<oNow, oClient, oBrowser, oCode, oGrant>>

----------------------------------------------------------------------------
(* Revoking a grant: by the owner, by the client's refresh token, or on    *)
(* reuse.  Three updates in one transaction.                               *)

RevokeGrant(r, g) ==
  /\ oReq[r].pc = "idle" /\ oGrant[g].st \in {"active", "revoked"}
  /\ oReq' = [oReq EXCEPT ![r] = [NoRequest EXCEPT !.pc = "rvFlip", !.grant = g, !.explicit = TRUE]]
  /\ UNCHANGED <<oNow, oClient, oBrowser, oCode, oGrant, oPair>>

\* ... WHERE revoked_at IS NULL RETURNING
Flips(g) == oGrant[g].st = "active"

\* The update of the grant's row locks it against another revocation.
RevokeFlip(r) ==
  LET g == oReq[r].grant IN
  /\ oReq[r].pc = "rvFlip"
  /\ ~\E s \in Reqs : oReq[s].grant = g /\ oReq[s].pc \in {"rvKeys", "rvToks", "rvCommit"}
  /\ oReq' = [oReq EXCEPT ![r] = IF oGrant[g].st = "deleted" THEN NoRequest
                                 ELSE [@ EXCEPT !.pc = "rvKeys", !.flipped = Flips(g)]]
  /\ UNCHANGED <<oNow, oClient, oBrowser, oCode, oGrant, oPair>>

KeysOf(g) == {p \in Pairs : oPair[p].grant = g /\ ~oPair[p].keyRevoked}

RevokeKeys(r) ==
  /\ oReq[r].pc = "rvKeys"
  /\ oReq' = [oReq EXCEPT ![r].pc = "rvToks", ![r].keys = KeysOf(oReq[r].grant)]
  /\ UNCHANGED <<oNow, oClient, oBrowser, oCode, oGrant, oPair>>

RevokeTokens(r) ==
  /\ oReq[r].pc = "rvToks"
  /\ oReq' = [oReq EXCEPT ![r].pc = "rvCommit",
                          ![r].toks = {p \in Pairs : oPair[p].grant = oReq[r].grant /\ ~oPair[p].revoked}]
  /\ UNCHANGED <<oNow, oClient, oBrowser, oCode, oGrant, oPair>>

\* The commit; the owner's route sends grant.revoked if this call flipped it.
RevokeCommit(r) ==
  LET g == oReq[r].grant IN
  /\ oReq[r].pc = "rvCommit"
  /\ oGrant' = IF oGrant[g].st = "deleted" THEN oGrant
               ELSE [oGrant EXCEPT ![g].st = "revoked",
                                   ![g].notices = IF oReq[r].explicit /\ oReq[r].flipped /\ @ < 2 THEN @ + 1 ELSE @]
  /\ oPair' = [p \in Pairs |-> [oPair[p] EXCEPT !.keyRevoked = @ \/ p \in oReq[r].keys,
                                                !.revoked = @ \/ p \in oReq[r].toks]]
  /\ oReq' = [oReq EXCEPT ![r] = NoRequest]
  /\ UNCHANGED <<oNow, oClient, oBrowser, oCode>>

\* POST /oauth/revoke with an access token drops that token only.
DropAccessToken(p) ==
  /\ oClient = "live" /\ RowExists(p) /\ ~oPair[p].keyRevoked
  /\ oPair' = [oPair EXCEPT ![p].keyRevoked = TRUE]
  /\ UNCHANGED <<oNow, oClient, oBrowser, oCode, oGrant, oReq>>

----------------------------------------------------------------------------

OAuthNext ==
  \/ ClockTick \/ RegisterClient \/ DisableOauthClient
  \/ SignIn \/ PickNothing \/ LeaveConsent \/ Approve
  \/ \E c \in Codes : InsertCode(c)
  \/ \E p \in Pairs : DropAccessToken(p)
  \/ \E r \in Reqs :
       \/ \E c \in Codes : ExchangeAuth(r, c)
       \/ ExchangeRead(r) \/ ExchangeCommit(r) \/ RequestAborts(r)
       \/ \E p \in Pairs : RefreshAuth(r, p)
       \/ RefreshRead(r) \/ RefreshGrant(r) \/ RefreshRotate(r)
       \/ \E g \in Grants : RevokeGrant(r, g)
       \/ RevokeFlip(r) \/ RevokeKeys(r) \/ RevokeTokens(r) \/ RevokeCommit(r)

OAuthSpec == OAuthInit /\ [][OAuthNext]_oauthVars

----------------------------------------------------------------------------

\* verifyApiKey: the key's own row is all it looks at.
KeyLive(p) == RowExists(p) /\ ~oPair[p].keyRevoked /\ oNow < oPair[p].keyExpires

\* POST /oauth/introspect looks at the grant as well.
IntrospectActive(p) ==
  LET g == oGrant[oPair[p].grant] IN KeyLive(p) /\ g.st = "active" /\ oNow < g.expires

\* A code, however often it is presented and in whatever interleaving with a
\* second exchange, becomes one grant (the compare-and-set of oauth.ts).
CodeUsedOnce == \A c \in Codes : Cardinality({g \in Grants : oGrant[g].code = c}) <= 1

\* A refresh token has at most one successor, also when two requests present
\* it together.
OneSuccessor == \A p \in Pairs : Cardinality({q \in Pairs : oPair[q].from = p}) <= 1

\* A revocation, the owner's or the one reuse triggers, reaches every token
\* that existed when it read the token tables: the only key that can outlive it
\* belongs to a rotation that had checked the grant before and committed after.
\* Otherwise a token the API accepts is one introspection calls active.
CascadeIsComplete == \A p \in Pairs : KeyLive(p) /\ ~IntrospectActive(p) => oPair[p].late

\* Two revocations of one grant at once send grant.revoked once.
RevokedOnce == \A g \in Grants : oGrant[g].notices <= 1

\* A disabled client has no grant left, also none that an exchange running at
\* the time inserts afterwards.
NothingUnderDisabled == oClient = "disabled" => \A g \in Grants : oGrant[g].st \in {"none", "deleted"}

\* A live access token is within the consent window of its grant.
AccessWithinConsent == \A p \in Pairs : KeyLive(p) => oNow < oGrant[oPair[p].grant].expires

\* Every code was approved within the ticket's lifetime of a password, however
\* often the picker was shown again in between.
ConsentIsRecent == \A c \in Codes : oCode[c].st # "none" => oCode[c].age < TicketTTL

\* What the comment on revokeGrant says: the connected app loses access at once.
\* TLC refutes this: see "Known disagreements" in the README.
RevokedIsDead == \A p \in Pairs : oPair[p].grant # 0 /\ oGrant[oPair[p].grant].st = "revoked" => ~KeyLive(p)

\* What may be used once is used once, whatever runs beside it.
UsedOnce == OAuthTypeOK /\ CodeUsedOnce /\ OneSuccessor /\ RevokedOnce

\* No access beyond the consent it came from: in time, after a revocation and
\* under a disabled client.
ConsentIsBound ==
  CascadeIsComplete /\ NothingUnderDisabled /\ AccessWithinConsent /\ ConsentIsRecent
=============================================================================
