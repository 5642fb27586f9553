------------------------------ MODULE Clients -------------------------------
(***************************************************************************)
(* Which user is which client of a voice server: ClientsService, and       *)
(* ClientVerificationService, which asks the bot who is connected from the *)
(* user's address and, if there are several, sends each of them a token.   *)
(* An identity stands for the pair (tsUniqueId, tsClientDbId).             *)
(***************************************************************************)
EXTENDS Naturals, FiniteSets

CONSTANTS
    Requests, Users, Servers, Idents, Addresses,
    RowIds,     \* primary keys of Client, never reused
    TokenIds,   \* uuids of VerificationToken
    None

VARIABLES
    client,   \* client[i]: row i of Client, None before it is inserted
    history,  \* ClientHistory: a set of [row, ident]
    token,    \* token[k]: what token k was created with, None before that
    valid,    \* the rows of VerificationToken
    old,      \* the tokens created more than a day ago
    pc,       \* pc[r]: the await request r is suspended at, or how it ended
    req,      \* req[r]: its parameters
    ident,    \* ident[r]: the identity being linked
    cur       \* cur[r]: the row saveClient read, as it was then

cvars == <<client, history, token, valid, old, pc, req, ident, cur>>
table == <<client, history>>
issue == <<token, valid, old>>

Client == [server : Servers, user : Users, ident : Idents]
Token  == [server : Servers, addr : Addresses, ident : Idents]
Parameters == [op : {"save", "verify", "redeem"}, server : Servers, user : Users,
               addr : Addresses \cup {None}, token : TokenIds \cup {None}]

ASSUME ClientsAssumption ==
    None \notin Client \cup Token \cup RowIds \cup TokenIds \cup Idents
               \cup Users \cup Servers \cup Addresses

Awaits   == {"asking", "preparing", "cleaned", "created", "sending", "finding", "redeeming", "linking", "checking",
             "reading", "writing"}
Outcomes == {"saved", "verified", "notFound", "tokenSent", "noToken", "noClient",
             "alreadyVerified", "linkedOther", "clash", "failed"}

ClientsTypeOK ==
    /\ client  \in [RowIds -> Client \cup {None}]
    /\ history \subseteq [row : RowIds, ident : Idents]
    /\ token   \in [TokenIds -> Token \cup {None}]
    /\ old \subseteq TokenIds /\ valid \subseteq {k \in TokenIds : token[k] # None}
    /\ pc    \in [Requests -> {"idle"} \cup Awaits \cup Outcomes]
    /\ req   \in [Requests -> Parameters \cup {None}]
    /\ ident \in [Requests -> Idents \cup {None}]
    /\ cur   \in [Requests -> [row : RowIds, ident : Idents] \cup {None}]

Init ==
    /\ client  = [i \in RowIds |-> None]
    /\ history = {}
    /\ token   = [k \in TokenIds |-> None]
    /\ valid = {} /\ old = {}
    /\ pc    = [r \in Requests |-> "idle"]
    /\ req   = [r \in Requests |-> None]
    /\ ident = [r \in Requests |-> None]
    /\ cur   = [r \in Requests |-> None]

Rows == {i \in RowIds : client[i] # None}
RowsOf(s, u) == {i \in Rows : client[i].server = s /\ client[i].user = u}
Holders(s, d) == {i \in Rows : client[i].server = s /\ client[i].ident = d}

Goto(r, l) == pc' = [pc EXCEPT ![r] = l]
At(r, l)   == pc[r] = l

Begin(r, l, p) ==
    /\ At(r, "idle")
    /\ req' = [req EXCEPT ![r] = p]
    /\ Goto(r, l)
    /\ UNCHANGED <<table, issue, cur>>

-----------------------------------------------------------------------------
(* The owner of a server sets a user's client: POST clients                *)

BeginSave(r, s, u, d) ==
    /\ Begin(r, "reading", [op |-> "save", server |-> s, user |-> u, addr |-> None,
                            token |-> None])
    /\ ident' = [ident EXCEPT ![r] = d]

-----------------------------------------------------------------------------
(* ClientVerificationService.verifyClient                                  *)

BeginVerify(r, s, u, a) ==
    /\ Begin(r, "asking", [op |-> "verify", server |-> s, user |-> u, addr |-> a,
                           token |-> None])
    /\ UNCHANGED ident

FoundNone(r) ==
    /\ At(r, "asking")
    /\ Goto(r, "notFound")
    /\ UNCHANGED <<table, issue, req, ident, cur>>

FoundOne(r, d) ==
    /\ At(r, "asking")
    /\ ident' = [ident EXCEPT ![r] = d]
    /\ Goto(r, "linking")
    /\ UNCHANGED <<table, issue, req, cur>>

\* Several were found: cleanUpOldTokens and createTokens run side by side.
FoundMany(r) ==
    /\ At(r, "asking")
    /\ Goto(r, "preparing")
    /\ UNCHANGED <<table, issue, req, ident, cur>>

\* One of the two is done; the request goes on once both are.
Prepared(r, l) ==
    \/ At(r, "preparing") /\ Goto(r, l)
    \/ pc[r] \in {"cleaned", "created"} \ {l} /\ Goto(r, "sending")

\* Bug: the clean-up has lost its WHERE.
CleanUpAll == valid' = {} /\ UNCHANGED token

CleanUp == valid' = valid \ old /\ UNCHANGED token

\* One row per client found.
Create(r, ks) ==
    /\ Cardinality(ks) > 1 /\ \A k \in ks : token[k] = None
    /\ \E of \in [ks -> Idents] :
          /\ \A j, k \in ks : of[j] = of[k] => j = k
          /\ token' = [k \in TokenIds |->
                         IF k \in ks
                         THEN [server |-> req[r].server, addr |-> req[r].addr, ident |-> of[k]]
                         ELSE token[k]]
    /\ valid' = valid \cup ks

CleanUpOldTokens(r) ==
    /\ Prepared(r, "cleaned") /\ CleanUp
    /\ UNCHANGED <<table, old, req, ident, cur>>

CreateTokens(r, ks) ==
    /\ Prepared(r, "created") /\ Create(r, ks)
    /\ UNCHANGED <<table, old, req, ident, cur>>

\* One statement fails and ends the request; the other is not undone.
PrepareFails(r) ==
    /\ At(r, "preparing")
    /\ CleanUp \/ \E ks \in SUBSET TokenIds : Create(r, ks)
    /\ Goto(r, "failed")
    /\ UNCHANGED <<table, old, req, ident, cur>>

SendTokens(r) ==
    /\ At(r, "sending")
    /\ Goto(r, "tokenSent")
    /\ UNCHANGED <<table, issue, req, ident, cur>>

-----------------------------------------------------------------------------
(* ClientVerificationService.verifyUsingToken                              *)

BeginRedeem(r, s, u, a, k) ==
    /\ Begin(r, "finding", [op |-> "redeem", server |-> s, user |-> u, addr |-> a,
                            token |-> k])
    /\ UNCHANGED ident

Matches(r, k) == k \in valid /\ token[k].server = req[r].server
                             /\ token[k].addr = req[r].addr

FindToken(r) ==
    LET k == req[r].token IN
    /\ At(r, "finding") /\ Matches(r, k)
    /\ ident' = [ident EXCEPT ![r] = token[k].ident]
    /\ Goto(r, "redeeming")
    /\ UNCHANGED <<table, issue, req, cur>>

MissToken(r) ==
    /\ At(r, "finding") /\ ~Matches(r, req[r].token)
    /\ Goto(r, "noToken")
    /\ UNCHANGED <<table, issue, req, ident, cur>>

\* Every token of the address goes, of whatever server, before the link is made.
Redeem(r) ==
    /\ At(r, "redeeming")
    /\ valid' = {k \in valid : token[k].addr # req[r].addr}
    /\ Goto(r, "linking")
    /\ UNCHANGED <<table, token, old, req, ident, cur>>

-----------------------------------------------------------------------------
(* ClientVerificationService.saveClient                                    *)

\* getServerClientByUserId throws if the user has no client on the server.
LinkingNoClient(r) ==
    /\ At(r, "linking") /\ RowsOf(req[r].server, req[r].user) = {}
    /\ Goto(r, "noClient")
    /\ UNCHANGED <<table, issue, req, ident, cur>>

Linking(r) ==
    /\ At(r, "linking")
    /\ \E i \in RowsOf(req[r].server, req[r].user) :
         Goto(r, IF client[i].ident = ident[r] THEN "alreadyVerified" ELSE "checking")
    /\ UNCHANGED <<table, issue, req, ident, cur>>

\* getServerClientByTsUid: is the identity another user's?
Checking(r) ==
    /\ At(r, "checking")
    /\ Goto(r, IF \E i \in Holders(req[r].server, ident[r]) : client[i].user # req[r].user
               THEN "linkedOther" ELSE "reading")
    /\ UNCHANGED <<table, issue, req, ident, cur>>

-----------------------------------------------------------------------------
(* ClientsService.saveClient                                               *)

SavedAs(r) == IF req[r].op = "save" THEN "saved" ELSE "verified"

\* findOne; a user with two rows is given either.
ReadNone(r) ==
    /\ At(r, "reading") /\ RowsOf(req[r].server, req[r].user) = {}
    /\ Goto(r, "writing")
    /\ UNCHANGED <<table, issue, req, ident, cur>>

Read(r) ==
    /\ At(r, "reading")
    /\ \E i \in RowsOf(req[r].server, req[r].user) :
         IF client[i].ident = ident[r]
         THEN Goto(r, SavedAs(r)) /\ UNCHANGED cur
         ELSE /\ cur' = [cur EXCEPT ![r] = [row |-> i, ident |-> client[i].ident]]
              /\ Goto(r, "writing")
    /\ UNCHANGED <<table, issue, req, ident>>

\* Bug: the unique key also contains the user.
UnclaimedByUser(r, i) ==
    \A j \in Holders(req[r].server, ident[r]) : j = i \/ client[j].user # req[r].user

\* The unique keys (serverId, tsUniqueId) and (serverId, tsClientDbId).
Unclaimed(r, i) == Holders(req[r].server, ident[r]) \subseteq {i}

\* Bug: serverId and userId passed in the wrong order.
InsertMisplaced(r) ==
    /\ At(r, "writing") /\ cur[r] = None
    /\ \E i \in RowIds \ Rows :
         /\ Unclaimed(r, i)
         /\ client' = [client EXCEPT ![i] = [server |-> req[r].user,
                         user |-> req[r].server, ident |-> ident[r]]]
    /\ Goto(r, SavedAs(r))
    /\ UNCHANGED <<history, issue, req, ident, cur>>

Insert(r) ==
    /\ At(r, "writing") /\ cur[r] = None
    /\ \E i \in RowIds \ Rows :
         /\ Unclaimed(r, i)
         /\ client' = [client EXCEPT ![i] = [server |-> req[r].server,
                         user |-> req[r].user, ident |-> ident[r]]]
    /\ Goto(r, SavedAs(r))
    /\ UNCHANGED <<history, issue, req, ident, cur>>

\* The transaction: the row as it was read goes to the history, then the update.
Update(r) ==
    /\ At(r, "writing") /\ cur[r] # None
    /\ Unclaimed(r, cur[r].row)
    /\ history' = history \cup {cur[r]}
    /\ client' = [client EXCEPT ![cur[r].row].ident = ident[r]]
    /\ Goto(r, SavedAs(r))
    /\ UNCHANGED <<issue, req, ident, cur>>

\* Bug: the violation is taken for 'already saved'.
ClashIgnored(r) ==
    /\ At(r, "writing")
    /\ ~Unclaimed(r, IF cur[r] = None THEN None ELSE cur[r].row)
    /\ Goto(r, SavedAs(r))
    /\ UNCHANGED <<table, issue, req, ident, cur>>

\* A unique key is violated: everything is rolled back.
Clash(r) ==
    /\ At(r, "writing")
    /\ ~Unclaimed(r, IF cur[r] = None THEN None ELSE cur[r].row)
    /\ Goto(r, "clash")
    /\ UNCHANGED <<table, issue, req, ident, cur>>

\* A bot call fails or times out, or a statement fails.
Fail(r) ==
    /\ pc[r] \in Awaits
    /\ Goto(r, "failed")
    /\ UNCHANGED <<table, issue, req, ident, cur>>

AllEnded == (\A r \in Requests : pc[r] \in Outcomes) /\ UNCHANGED cvars

Issued == {k \in TokenIds : token[k] # None}

DayPasses ==
    /\ old # Issued
    /\ old' = Issued
    /\ UNCHANGED <<table, token, valid, pc, req, ident, cur>>

Next ==
    \/ \E r \in Requests, s \in Servers, u \in Users :
         \/ \E d \in Idents : BeginSave(r, s, u, d)
         \/ \E a \in Addresses :
              BeginVerify(r, s, u, a) \/ \E k \in TokenIds : BeginRedeem(r, s, u, a, k)
    \/ \E r \in Requests :
         \/ FoundNone(r) \/ (\E d \in Idents : FoundOne(r, d)) \/ SendTokens(r)
         \/ FoundMany(r) \/ CleanUpOldTokens(r) \/ PrepareFails(r)
         \/ \E ks \in SUBSET TokenIds : CreateTokens(r, ks)
         \/ FindToken(r) \/ MissToken(r) \/ Redeem(r)
         \/ LinkingNoClient(r) \/ Linking(r) \/ Checking(r)
         \/ ReadNone(r) \/ Read(r) \/ Insert(r) \/ Update(r) \/ Clash(r) \/ Fail(r)
    \/ DayPasses
    \/ AllEnded

Spec == Init /\ [][Next]_cvars

-----------------------------------------------------------------------------
(* Properties *)

\* saveClient and the unique keys, under every interleaving of owners' saves and
\* verifications: identities stay with one user, and nobody loses one unless by
\* a change of the own row.
Registry == INSTANCE IdentityRegistry
              WITH links <- {client[i] : i \in Rows}

ImplementsRegistry == Registry!Spec

\* saveClient and the verifications: a link that was answered is there, however
\* stale the reads before it, unless another link of the same user has been; and
\* a redemption has linked what its token was issued for, at its own address.
AnsweredLinksStand ==
    \A r \in Requests : pc[r] \in {"saved", "verified"} =>
        /\ \/ \E i \in Rows : client[i] = [server |-> req[r].server, user |-> req[r].user,
                                            ident |-> ident[r]]
           \/ \E q \in Requests : /\ pc[q] \in {"saved", "verified"}
                                   /\ req[q].server = req[r].server /\ req[q].user = req[r].user
                                   /\ ident[q] # ident[r]
        /\ req[r].op = "redeem" =>
              token[req[r].token] = [server |-> req[r].server, addr |-> req[r].addr,
                                     ident |-> ident[r]]

\* cleanUpOldTokens beside createTokens, of several verifications: a token that
\* was issued can be redeemed until a day has passed, or a redemption from its
\* address has found its token and come to the deletion.
TokensStand ==
    \A k \in Issued \ valid :
        \/ k \in old
        \/ \E q \in Requests :
              /\ ident[q] # None /\ pc[q] # "redeeming"
              /\ req[q].op = "redeem" /\ req[q].addr = token[k].addr

\* verifyClient: 'If only one found, immediately verify/save.'
OneFoundIsVerified ==
    \A r \in Requests : pc[r] = "noClient" => req[r].op # "verify"
=============================================================================
