---------------------------- MODULE ClientsProofs ----------------------------
(***************************************************************************)
(* The Client table implements the registry of identities, for any number  *)
(* of requests, users, servers, identities and rows.  The two reads before *)
(* the write are of no help to the proof: what carries it is the unique    *)
(* keys (Unclaimed, at the write) and that rows never change owner, so     *)
(* that a row read long ago is still a row of the requesting user.  What   *)
(* is said of answered links and of tokens has an invariant of its own.    *)
(***************************************************************************)
EXTENDS Clients, TLAPS

\* The unique keys of the table.
OneHolder ==
    \A i, j \in Rows :
        client[i].server = client[j].server /\ client[i].ident = client[j].ident => i = j

\* The row a request read, whatever has happened to its identity since.
ReadRow(r) == cur[r] # None =>
    /\ pc[r] # "idle"
    /\ cur[r].row \in Rows
    /\ client[cur[r].row].server = req[r].server
    /\ client[cur[r].row].user = req[r].user

\* The awaits of verifyClient before it saves.
Verifying == {"asking", "preparing", "cleaned", "created", "sending"}

\* What a request knows at each await.
Knows(r) ==
    /\ pc[r] # "idle" => req[r] \in Parameters
    /\ pc[r] \in Verifying => req[r].addr \in Addresses
    /\ pc[r] \in {"redeeming", "linking", "checking", "reading", "writing"}
         => ident[r] \in Idents

CInv == ClientsTypeOK /\ OneHolder /\ \A r \in Requests : ReadRow(r) /\ Knows(r)

\* No client, no token and no request yet.
LEMMA CInit == Init => CInv
<1> SUFFICES ASSUME Init PROVE CInv OBVIOUS
<1>1. ClientsTypeOK BY DEF Init, ClientsTypeOK
<1>2. OneHolder BY DEF Init, OneHolder, Rows
<1>3. \A r \in Requests : ReadRow(r) /\ Knows(r) BY DEF Init, ReadRow, Knows, Verifying
<1> QED BY <1>1, <1>2, <1>3 DEF CInv

\* None is no row of a table.
LEMMA NoRow == None \notin Client /\ None \notin Token
BY ClientsAssumption

\* A request begins.
LEMMA BeginInv ==
    ASSUME CInv, NEW r \in Requests, NEW l \in {"asking", "finding", "reading"},
           NEW p \in Parameters, Begin(r, l, p),
           ident' \in [Requests -> Idents \cup {None}],
           \A q \in Requests \ {r} : ident'[q] = ident[q],
           l = "reading" => ident'[r] \in Idents,
           l = "asking" => p.addr \in Addresses
    PROVE  CInv'
<1> USE DEF CInv, Begin, Goto, At, table, issue
<1>1. ClientsTypeOK' BY DEF ClientsTypeOK, Awaits
<1>2. OneHolder' BY DEF OneHolder, Rows
<1>3. \A q \in Requests : (ReadRow(q) /\ Knows(q))'
  BY DEF ClientsTypeOK, ReadRow, Knows, Rows, Verifying
<1> QED BY <1>1, <1>2, <1>3

\* A step of a request that leaves the table alone.
LEMMA QuietInv ==
    ASSUME CInv, NEW r \in Requests, NEW l \in (Awaits \ {"asking"}) \cup Outcomes, Goto(r, l),
           pc[r] # "idle", ClientsTypeOK', UNCHANGED <<table, req>>,
           \A q \in Requests \ {r} : ident'[q] = ident[q] /\ cur'[q] = cur[q],
           l \in Verifying => pc[r] \in Verifying,
           l \in {"redeeming", "linking", "checking", "reading", "writing"}
             => ident'[r] \in Idents,
           cur'[r] = cur[r]
             \/ \E i \in RowsOf(req[r].server, req[r].user) : cur'[r].row = i
    PROVE  CInv'
<1> USE DEF CInv, table
<1>1. OneHolder' BY DEF OneHolder, Rows
<1>2. pc' = [pc EXCEPT ![r] = l] /\ l # "idle" BY DEF Goto, Awaits, Outcomes
<1>3. \A q \in Requests \ {r} : (ReadRow(q) /\ Knows(q))'
  BY <1>2 DEF ClientsTypeOK, ReadRow, Knows, Rows
<1>4. ReadRow(r)' BY <1>2 DEF ClientsTypeOK, ReadRow, Rows, RowsOf
<1>5. Knows(r)'
  <2>1. req'[r] = req[r] /\ pc'[r] = l BY <1>2 DEF ClientsTypeOK
  <2>2. Knows(r) OBVIOUS
  <2> QED BY <2>1, <2>2 DEF Knows, Outcomes
<1> QED BY <1>1, <1>3, <1>4, <1>5

\* Cleaning up and creating keep the types of the tokens.
LEMMA CreatedTypes ==
    ASSUME CInv, NEW r \in Requests, pc[r] \in Verifying, UNCHANGED old,
           CleanUp \/ \E ks \in SUBSET TokenIds : Create(r, ks)
    PROVE  /\ token' \in [TokenIds -> Token \cup {None}]
           /\ old' \subseteq TokenIds /\ valid' \subseteq {k \in TokenIds : token'[k] # None}
<1> USE DEF CInv, ClientsTypeOK
<1>1. CASE CleanUp BY <1>1 DEF CleanUp
<1>2. ASSUME NEW ks \in SUBSET TokenIds, Create(r, ks)
      PROVE  /\ token' \in [TokenIds -> Token \cup {None}]
             /\ valid' \subseteq {k \in TokenIds : token'[k] # None}
  <2>1. req[r] \in Parameters /\ req[r].addr \in Addresses
        BY DEF Knows, Verifying
  <2>2. PICK of \in [ks -> Idents] :
          token' = [k \in TokenIds |->
                     IF k \in ks
                     THEN [server |-> req[r].server, addr |-> req[r].addr, ident |-> of[k]]
                     ELSE token[k]]
        BY <1>2 DEF Create
  <2>3. \A k \in ks : token'[k] \in Token BY <2>1, <2>2 DEF Token, Parameters
  <2>4. \A k \in TokenIds \ ks : token'[k] = token[k] BY <2>2
  <2>5. token' \in [TokenIds -> Token \cup {None}] BY <2>2, <2>3, <2>4
  <2>6. \A k \in ks : token'[k] # None BY <2>3, NoRow
  <2> QED BY <1>2, <2>4, <2>5, <2>6 DEF Create
<1> QED BY <1>1, <1>2

\* A new row: the unique keys hold because the identity was free at the write.
LEMMA InsertInv == ASSUME CInv, NEW r \in Requests, Insert(r) PROVE CInv'
<1> USE DEF CInv, Insert, At, Goto
<1>1. PICK i \in RowIds \ Rows :
        /\ Unclaimed(r, i)
        /\ client' = [client EXCEPT ![i] = [server |-> req[r].server,
                        user |-> req[r].user, ident |-> ident[r]]]
  OBVIOUS
<1>2. req[r] \in Parameters /\ ident[r] \in Idents BY DEF Knows
<1>3. client'[i] \in Client /\ client'[i].server = req[r].server
        /\ client'[i].ident = ident[r]
  BY <1>1, <1>2 DEF ClientsTypeOK, Client, Parameters
<1>4. Rows' = Rows \cup {i} /\ \A j \in Rows : client'[j] = client[j] /\ j # i
  BY <1>1, <1>3, NoRow DEF Rows, ClientsTypeOK
<1>5. ClientsTypeOK' BY <1>1, <1>3 DEF ClientsTypeOK, SavedAs, Outcomes, issue
<1>6. OneHolder' BY <1>1, <1>3, <1>4 DEF OneHolder, Unclaimed, Holders
<1>7. \A q \in Requests : (ReadRow(q) /\ Knows(q))'
  BY <1>4 DEF ClientsTypeOK, ReadRow, Knows, SavedAs, Verifying
<1> QED BY <1>5, <1>6, <1>7

\* The row changes identity, not owner.
LEMMA UpdateRow ==
    ASSUME CInv, NEW r \in Requests, Update(r)
    PROVE  /\ cur[r].row \in Rows
           /\ client'[cur[r].row] = [server |-> req[r].server, user |-> req[r].user,
                                     ident |-> ident[r]]
           /\ client'[cur[r].row] \in Client
           /\ client'[cur[r].row].server = req[r].server
           /\ client'[cur[r].row].user = req[r].user
           /\ client'[cur[r].row].ident = ident[r]
           /\ client[cur[r].row].server = req[r].server
           /\ client[cur[r].row].user = req[r].user
           /\ Rows' = Rows /\ \A j \in Rows \ {cur[r].row} : client'[j] = client[j]
<1> USE DEF CInv, Update, At
<1> DEFINE i == cur[r].row
<1>1. i \in Rows /\ i \in RowIds /\ client[i] \in Client
        /\ client[i].server = req[r].server /\ client[i].user = req[r].user
  BY DEF ReadRow, Rows, ClientsTypeOK
<1>2. ident[r] \in Idents BY DEF Knows
<1>3. client' = [client EXCEPT ![i].ident = ident[r]] OBVIOUS
<1>4. client'[i] = [server |-> req[r].server, user |-> req[r].user, ident |-> ident[r]]
  BY <1>1, <1>3 DEF ClientsTypeOK, Client
<1>5. client'[i] \in Client BY <1>1, <1>2, <1>4 DEF Client
<1>6. Rows' = Rows
  BY <1>1, <1>3, <1>5, NoRow DEF Rows, ClientsTypeOK
<1>7. \A j \in Rows \ {i} : client'[j] = client[j] BY <1>3 DEF Rows, ClientsTypeOK
<1> QED BY <1>1, <1>4, <1>5, <1>6, <1>7

\* The update keeps the unique keys and what the others remember.
LEMMA UpdateInv == ASSUME CInv, NEW r \in Requests, Update(r) PROVE CInv'
<1> USE DEF CInv
<1> DEFINE i == cur[r].row
<1>1. client' \in [RowIds -> Client \cup {None}]
  BY UpdateRow DEF Update, ClientsTypeOK, Rows
<1>2. ClientsTypeOK'
  BY <1>1 DEF ClientsTypeOK, Update, SavedAs, Goto, issue, Outcomes
<1>3. Holders(req[r].server, ident[r]) \subseteq {i} BY DEF Update, Unclaimed
<1>4. OneHolder'
  <2>1. \A j \in Rows \ {i} :
          /\ client'[j] = client[j]
          /\ ~(client[j].server = req[r].server /\ client[j].ident = ident[r])
    BY <1>3, UpdateRow DEF Holders
  <2>2. client'[i].server = req[r].server /\ client'[i].ident = ident[r] /\ Rows' = Rows
    BY UpdateRow
  <2> HIDE DEF i
  <2> QED BY <2>1, <2>2 DEF OneHolder
<1>5. \A q \in Requests : (ReadRow(q) /\ Knows(q))'
  <2> SUFFICES ASSUME NEW q \in Requests PROVE (ReadRow(q) /\ Knows(q))' OBVIOUS
  <2>1. \A j \in Rows : client'[j].server = client[j].server
                         /\ client'[j].user = client[j].user
    BY UpdateRow
  <2>2. Rows' = Rows BY UpdateRow
  <2>3. /\ cur'[q] = cur[q] /\ req'[q] = req[q]
        /\ pc[q] # "idle" => pc'[q] # "idle"
    BY DEF Update, At, ClientsTypeOK, Goto, SavedAs
  <2>4. ReadRow(q) OBVIOUS
  <2>5. ReadRow(q)' BY <2>1, <2>2, <2>3, <2>4 DEF ReadRow
  <2>6. Knows(q)' BY DEF Update, At, Knows, ClientsTypeOK, Goto, SavedAs, Verifying
  <2> QED BY <2>5, <2>6
<1> QED BY <1>2, <1>4, <1>5

\* The beginnings of the handlers.
LEMMA BeginningInv ==
    ASSUME CInv, NEW r \in Requests, NEW s \in Servers, NEW u \in Users,
           \/ \E d \in Idents : BeginSave(r, s, u, d)
           \/ \E a \in Addresses :
                BeginVerify(r, s, u, a) \/ \E k \in TokenIds : BeginRedeem(r, s, u, a, k)
    PROVE  CInv'
<1>1. CASE \E d \in Idents : BeginSave(r, s, u, d)
  <2>1. PICK d \in Idents : BeginSave(r, s, u, d) BY <1>1
  <2> DEFINE p == [op |-> "save", server |-> s, user |-> u, addr |-> None, token |-> None]
  <2>2. p \in Parameters BY DEF Parameters
  <2>3. Begin(r, "reading", p) /\ ident' = [ident EXCEPT ![r] = d] BY <2>1 DEF BeginSave
  <2> HIDE DEF p
  <2> QED BY <2>2, <2>3, BeginInv DEF CInv, ClientsTypeOK
<1>2. CASE \E a \in Addresses : BeginVerify(r, s, u, a)
  <2>1. PICK a \in Addresses : BeginVerify(r, s, u, a) BY <1>2
  <2> DEFINE p == [op |-> "verify", server |-> s, user |-> u, addr |-> a, token |-> None]
  <2>2. p \in Parameters /\ p.addr \in Addresses BY DEF Parameters
  <2>3. Begin(r, "asking", p) /\ ident' = ident BY <2>1 DEF BeginVerify
  <2> HIDE DEF p
  <2> QED BY <2>2, <2>3, BeginInv DEF CInv, ClientsTypeOK
<1>3. CASE \E a \in Addresses, k \in TokenIds : BeginRedeem(r, s, u, a, k)
  <2>1. PICK a \in Addresses, k \in TokenIds : BeginRedeem(r, s, u, a, k) BY <1>3
  <2> DEFINE p == [op |-> "redeem", server |-> s, user |-> u, addr |-> a, token |-> k]
  <2>2. p \in Parameters BY DEF Parameters
  <2>3. Begin(r, "finding", p) /\ ident' = ident BY <2>1 DEF BeginRedeem
  <2> HIDE DEF p
  <2> QED BY <2>2, <2>3, BeginInv DEF CInv, ClientsTypeOK
<1> QED BY <1>1, <1>2, <1>3

\* verifyClient up to saveClient.
LEMMA VerifyInv ==
    ASSUME CInv, NEW r \in Requests,
           \/ FoundNone(r) \/ (\E d \in Idents : FoundOne(r, d)) \/ SendTokens(r)
           \/ FoundMany(r) \/ CleanUpOldTokens(r) \/ PrepareFails(r)
           \/ \E ks \in SUBSET TokenIds : CreateTokens(r, ks)
    PROVE  CInv'
<1> USE DEF At, Verifying
<1>1. CASE FoundNone(r)
  <2>1. ClientsTypeOK' BY <1>1 DEF FoundNone, CInv, ClientsTypeOK, Goto, table, issue, Outcomes
  <2> QED BY <1>1, <2>1, QuietInv DEF FoundNone, Outcomes, table
<1>2. CASE \E d \in Idents : FoundOne(r, d)
  <2>1. PICK d \in Idents : FoundOne(r, d) BY <1>2
  <2>2. ClientsTypeOK' BY <2>1 DEF FoundOne, CInv, ClientsTypeOK, Goto, table, issue, Awaits
  <2> QED BY <2>1, <2>2, QuietInv DEF FoundOne, Awaits, table, CInv, ClientsTypeOK
<1>3. CASE SendTokens(r)
  <2>1. ClientsTypeOK' BY <1>3 DEF SendTokens, CInv, ClientsTypeOK, Goto, table, issue, Outcomes
  <2> QED BY <1>3, <2>1, QuietInv DEF SendTokens, Outcomes, table
<1>4. CASE FoundMany(r)
  <2>1. ClientsTypeOK' BY <1>4 DEF FoundMany, CInv, ClientsTypeOK, Goto, table, issue, Awaits
  <2> QED BY <1>4, <2>1, QuietInv DEF FoundMany, Awaits, table
<1>5. ASSUME NEW l \in {"cleaned", "created"}, Prepared(r, l),
             UNCHANGED <<table, old, req, ident, cur>>,
             CleanUp \/ \E ks \in SUBSET TokenIds : Create(r, ks)
      PROVE  CInv'
  <2>1. PICK m \in {"cleaned", "created", "sending"} : Goto(r, m) /\ pc[r] \in Verifying
        BY <1>5 DEF Prepared, Verifying
  <2>2. ClientsTypeOK'
        BY <1>5, <2>1, CreatedTypes DEF CInv, ClientsTypeOK, Goto, table, Awaits
  <2>3. pc[r] # "idle" BY <2>1 DEF Verifying
  <2> QED BY <1>5, <2>1, <2>2, <2>3, QuietInv DEF Awaits, table
<1>6. CASE CleanUpOldTokens(r) \/ \E ks \in SUBSET TokenIds : CreateTokens(r, ks)
      BY <1>5, <1>6 DEF CleanUpOldTokens, CreateTokens
<1>7. CASE PrepareFails(r)
  <2>1. ClientsTypeOK'
    BY <1>7, CreatedTypes DEF PrepareFails, CInv, ClientsTypeOK, Goto, table, Outcomes, Verifying
  <2> QED BY <1>7, <2>1, QuietInv DEF PrepareFails, Outcomes, table
<1> QED BY <1>1, <1>2, <1>3, <1>4, <1>6, <1>7

\* verifyUsingToken up to saveClient.
LEMMA RedeemInv ==
    ASSUME CInv, NEW r \in Requests, FindToken(r) \/ MissToken(r) \/ Redeem(r)
    PROVE  CInv'
<1> USE DEF At
<1>1. CASE FindToken(r)
  <2>1. token[req[r].token].ident \in Idents
    BY <1>1 DEF FindToken, Matches, CInv, ClientsTypeOK, Token
  <2>2. ClientsTypeOK'
    BY <1>1, <2>1 DEF FindToken, CInv, ClientsTypeOK, Goto, table, issue, Awaits
  <2> QED BY <1>1, <2>1, <2>2, QuietInv DEF FindToken, Awaits, table, CInv, ClientsTypeOK, Verifying
<1>2. CASE MissToken(r)
  <2>1. ClientsTypeOK' BY <1>2 DEF MissToken, CInv, ClientsTypeOK, Goto, table, issue, Outcomes
  <2> QED BY <1>2, <2>1, QuietInv DEF MissToken, Outcomes, table, Verifying
<1>3. CASE Redeem(r)
  <2>1. ClientsTypeOK' BY <1>3 DEF Redeem, CInv, ClientsTypeOK, Goto, table, Awaits
  <2>2. ident[r] \in Idents BY <1>3 DEF Redeem, CInv, Knows
  <2> QED BY <1>3, <2>1, <2>2, QuietInv DEF Redeem, Awaits, table, Verifying
<1> QED BY <1>1, <1>2, <1>3

\* The reads of both saveClient methods, and the ends that change nothing.
LEMMA ReadsInv ==
    ASSUME CInv, NEW r \in Requests,
           LinkingNoClient(r) \/ Linking(r) \/ Checking(r) \/ ReadNone(r) \/ Read(r)
             \/ Clash(r) \/ Fail(r)
    PROVE  CInv'
<1> USE DEF At
<1> DEFINE Ends == \E l \in {"writing", "checking", "reading"} \cup Outcomes :
                     /\ Goto(r, l) /\ UNCHANGED <<table, issue, req, ident>>
                     /\ pc[r] \in Awaits
                     /\ l \in {"writing", "checking", "reading"} => ident[r] \in Idents
<1>1. ASSUME Ends, UNCHANGED cur PROVE CInv'
  <2>1. PICK l \in {"writing", "checking", "reading"} \cup Outcomes :
          /\ Goto(r, l) /\ UNCHANGED <<table, issue, req, ident>>
          /\ pc[r] \in Awaits
          /\ l \in {"writing", "checking", "reading"} => ident[r] \in Idents
    BY <1>1
  <2>2. ClientsTypeOK'
    BY <1>1, <2>1 DEF CInv, ClientsTypeOK, Goto, table, issue, Awaits
  <2> QED BY <1>1, <2>1, <2>2, QuietInv DEF Awaits, Outcomes, table, Verifying
<1>2. CASE LinkingNoClient(r) \/ Clash(r) \/ Fail(r)
  <2>1. Ends BY <1>2 DEF LinkingNoClient, Clash, Fail, Outcomes, Awaits
  <2> QED BY <1>1, <1>2, <2>1 DEF LinkingNoClient, Clash, Fail
<1>3. CASE Linking(r) \/ Checking(r) \/ ReadNone(r)
  <2>1. ident[r] \in Idents /\ pc[r] \in Awaits
    BY <1>3 DEF CInv, Knows, Linking, Checking, ReadNone, Awaits
  <2>2. Ends BY <1>3, <2>1 DEF Linking, Checking, ReadNone, Outcomes
  <2> QED BY <1>1, <1>3, <2>2 DEF Linking, Checking, ReadNone
<1>4. CASE Read(r)
  <2>1. ident[r] \in Idents /\ pc[r] \in Awaits /\ pc[r] # "idle"
    BY <1>4 DEF CInv, Knows, Read, Awaits
  <2>2. PICK i \in RowsOf(req[r].server, req[r].user) :
          IF client[i].ident = ident[r]
          THEN Goto(r, SavedAs(r)) /\ UNCHANGED cur
          ELSE /\ cur' = [cur EXCEPT ![r] = [row |-> i, ident |-> client[i].ident]]
               /\ Goto(r, "writing")
    BY <1>4 DEF Read
  <2>3. i \in RowIds /\ client[i].ident \in Idents
    BY DEF RowsOf, Rows, CInv, ClientsTypeOK, Client
  <2>4. CASE client[i].ident = ident[r]
    BY <1>1, <1>4, <2>1, <2>2, <2>4 DEF Read, SavedAs, Outcomes
  <2>5. CASE client[i].ident # ident[r]
    <3>1. cur' = [cur EXCEPT ![r] = [row |-> i, ident |-> client[i].ident]]
            /\ Goto(r, "writing") /\ UNCHANGED <<table, issue, req, ident>>
      BY <1>4, <2>2, <2>5 DEF Read
    <3>2. ClientsTypeOK'
      BY <2>3, <3>1 DEF CInv, ClientsTypeOK, Goto, table, issue, Awaits
    <3>3. cur'[r].row = i BY <3>1 DEF CInv, ClientsTypeOK
    <3>4. \A q \in Requests \ {r} : ident'[q] = ident[q] /\ cur'[q] = cur[q]
      BY <3>1 DEF CInv, ClientsTypeOK
    <3> QED BY <2>1, <3>1, <3>2, <3>3, <3>4, QuietInv DEF Awaits, table, Verifying
  <2> QED BY <2>4, <2>5
<1> QED BY <1>2, <1>3, <1>4

\* Every step keeps the invariant.
LEMMA CNext == ASSUME CInv, [Next]_cvars PROVE CInv'
<1>1. CASE UNCHANGED cvars \/ AllEnded \/ DayPasses
  BY <1>1 DEF cvars, AllEnded, DayPasses, table, CInv, ClientsTypeOK, OneHolder, Rows,
    ReadRow, Knows, Verifying, Issued
<1>2. ASSUME NEW r \in Requests, NEW s \in Servers, NEW u \in Users,
             \/ \E d \in Idents : BeginSave(r, s, u, d)
             \/ \E a \in Addresses :
                  BeginVerify(r, s, u, a) \/ \E k \in TokenIds : BeginRedeem(r, s, u, a, k)
      PROVE  CInv'
  BY <1>2, BeginningInv
<1> QED BY <1>1, <1>2, VerifyInv, RedeemInv, ReadsInv, InsertInv, UpdateInv DEF Next

\* The unique keys hold throughout, and what a request has read of a row is still
\* true of its owner.
THEOREM ClientsInvariance == Spec => []CInv
<1> QED BY CInit, CNext, PTL DEF Spec

\* Every variable of the client handlers keeps its type.
THEOREM ClientsTypeCorrect == Spec => []ClientsTypeOK
<1>1. CInv => ClientsTypeOK BY DEF CInv
<1> QED BY <1>1, ClientsInvariance, PTL

-----------------------------------------------------------------------------
(* Answered links, and tokens                                              *)

\* What is known of a request by its kind: a verification has no token; a
\* redemption has the identity of its token from the moment it has found it.
OpsKnown(r) ==
    /\ pc[r] = "idle" => ident[r] = None
    /\ pc[r] \in Verifying => req[r].op = "verify"
    /\ pc[r] \in {"finding", "redeeming"} => req[r].op = "redeem"
    /\ pc[r] \in Verifying \cup {"finding", "noToken"} => ident[r] = None
    /\ pc[r] \in {"saved", "verified"} => ident[r] \in Idents
    /\ pc[r] # "idle" /\ req[r].op = "redeem" /\ ident[r] # None =>
          /\ req[r].token \in Issued
          /\ token[req[r].token] = [server |-> req[r].server, addr |-> req[r].addr,
                                    ident |-> ident[r]]

Answered == {"saved", "verified"}

\* The link of a request is in the table, or another link of the user is.
InTable(r) == \E i \in Rows : client[i] = [server |-> req[r].server, user |-> req[r].user,
                                           ident |-> ident[r]]
Replaced(r) == \E q \in Requests : /\ pc[q] \in Answered
                                   /\ req[q].server = req[r].server /\ req[q].user = req[r].user
                                   /\ ident[q] # ident[r]
Linked(r) == pc[r] \in Answered => InTable(r) \/ Replaced(r)

\* Redemption q has come to the deletion of the tokens of k's address.
Spends(q, k) == /\ ident[q] # None /\ pc[q] # "redeeming"
                /\ req[q].op = "redeem" /\ req[q].addr = token[k].addr

HInv == /\ old \subseteq Issued
        /\ \A r \in Requests : OpsKnown(r) /\ Linked(r)
        /\ \A k \in Issued \ valid : k \in old \/ \E q \in Requests : Spends(q, k)

LEMMA HInit == Init => HInv
BY DEF Init, HInv, OpsKnown, Linked, Answered, Issued, Verifying

\* A token never changes once it is created.
TokenStays == \A k \in Issued : k \in Issued' /\ token'[k] = token[k]

\* Rows stay; the only one that changes is of the user of r, which it links anew.
RowsStay(r) ==
    \A i \in Rows :
        /\ i \in Rows'
        /\ \/ client'[i] = client[i]
           \/ /\ pc[r] = "writing" /\ pc'[r] \in Answered
              /\ client[i].server = req[r].server /\ client[i].user = req[r].user
              /\ client'[i] = [server |-> req[r].server, user |-> req[r].user, ident |-> ident'[r]]

\* What a step of request r leaves alone.
OnlyOf(r) == /\ \A q \in Requests \ {r} : /\ pc'[q] = pc[q] /\ req'[q] = req[q]
                                          /\ ident'[q] = ident[q]
             /\ pc[r] # "idle" => req'[r] = req[r]
             /\ ident[r] # None => ident'[r] = ident[r]
             /\ pc[r] \notin Answered
             /\ pc'[r] = "redeeming" => pc[r] = "finding"
             /\ UNCHANGED old

\* Tokens lose their validity by age or by this redemption.
TokensLeave(r) == \A k \in Issued' \ valid' :
                     \/ k \in old \/ (k \in Issued /\ k \notin valid)
                     \/ Spends(r, k)'

\* A step of r that keeps what was answered and issued.
LEMMA HStep ==
    ASSUME HInv, NEW r \in Requests, OnlyOf(r), TokenStays, RowsStay(r), TokensLeave(r),
           OpsKnown(r)', Linked(r)'
    PROVE  HInv'
<1>1. old' \subseteq Issued'
      BY DEF HInv, OnlyOf, TokenStays
<1>2. ASSUME NEW q \in Requests, q # r
      PROVE  pc'[q] = pc[q] /\ req'[q] = req[q] /\ ident'[q] = ident[q] /\ OpsKnown(q) /\ Linked(q)
      BY <1>2 DEF OnlyOf, HInv
<1>3. ASSUME NEW q \in Requests, q # r PROVE OpsKnown(q)'
  <2>1. req[q].token \in Issued => /\ req[q].token \in Issued'
                                   /\ token'[req[q].token] = token[req[q].token]
        BY DEF TokenStays
  <2> QED BY <1>2, <1>3, <2>1 DEF OpsKnown
<1>4. ASSUME NEW q \in Requests, q # r, pc[q] \in Answered PROVE (InTable(q) \/ Replaced(q))'
  <2>1. CASE InTable(q)
    <3>1. PICK i \in Rows : client[i] = [server |-> req[q].server, user |-> req[q].user,
                                         ident |-> ident[q]]
          BY <2>1 DEF InTable
    <3>2. CASE client'[i] = client[i]
      <4>1. i \in Rows' /\ req'[q] = req[q] /\ ident'[q] = ident[q]
            BY <1>2, <1>4 DEF RowsStay
      <4> QED BY <3>1, <3>2, <4>1 DEF InTable
    <3>3. CASE client'[i] # client[i]
      <4>1. /\ pc[r] = "writing" /\ pc'[r] \in Answered /\ req[q].server = req[r].server /\ req[q].user = req[r].user
            /\ ident'[r] # ident[q]
            BY <3>1, <3>3 DEF RowsStay
      <4>2. req'[r] = req[r]
            BY <4>1 DEF OnlyOf
      <4> QED BY <1>2, <1>4, <4>1, <4>2 DEF Replaced
    <3> QED BY <3>2, <3>3
  <2>2. CASE Replaced(q)
        BY <1>2, <1>4, <2>2 DEF Replaced, OnlyOf
  <2> QED BY <1>2, <1>4, <2>1, <2>2 DEF Linked
<1>5. \A q \in Requests : Linked(q)'
      BY <1>2, <1>4 DEF Linked
<1>6. ASSUME NEW k \in Issued' \ valid' PROVE k \in old' \/ (\E q \in Requests : Spends(q, k))'
  <2>1. CASE k \in old
        BY <2>1 DEF OnlyOf
  <2>2. CASE k \in Issued /\ k \notin valid /\ k \notin old
    <3>1. PICK q \in Requests : Spends(q, k)
          BY <2>2 DEF HInv
    <3>2. token'[k] = token[k]
          BY <2>2 DEF TokenStays
    <3>3. CASE q = r
      <4>1. pc[r] \notin {"idle", "finding"}
            BY <3>1, <3>3 DEF Spends, HInv, OpsKnown
      <4> QED BY <3>1, <3>2, <3>3, <4>1 DEF Spends, OnlyOf
    <3>4. CASE q # r
          BY <1>2, <3>1, <3>2, <3>4 DEF Spends
    <3> QED BY <3>3, <3>4
  <2> QED BY <1>6, <2>1, <2>2 DEF TokensLeave
<1> QED BY <1>1, <1>3, <1>5, <1>6 DEF HInv

\* The beginnings.
LEMMA HBegins ==
    ASSUME CInv, HInv, NEW r \in Requests, NEW s \in Servers, NEW u \in Users,
           \/ \E d \in Idents : BeginSave(r, s, u, d)
           \/ \E a \in Addresses :
                BeginVerify(r, s, u, a) \/ \E k \in TokenIds : BeginRedeem(r, s, u, a, k)
    PROVE  HInv'
<1>1. PICK l \in {"reading", "asking", "finding"}, p \in Parameters :
          /\ Begin(r, l, p)
          /\ l = "reading" => p.op = "save"
          /\ l = "asking" => p.op = "verify"
          /\ l = "finding" => p.op = "redeem"
          /\ l # "reading" => UNCHANGED ident
          /\ l = "reading" => \E d \in Idents : ident' = [ident EXCEPT ![r] = d]
  <2>1. CASE \E d \in Idents : BeginSave(r, s, u, d)
    <3> DEFINE p == [op |-> "save", server |-> s, user |-> u, addr |-> None, token |-> None]
    <3>1. p \in Parameters /\ p.op = "save" BY DEF Parameters
    <3> HIDE DEF p
    <3>2. Begin(r, "reading", p) /\ \E d \in Idents : ident' = [ident EXCEPT ![r] = d]
          BY <2>1 DEF BeginSave, p
    <3> QED BY <3>1, <3>2
  <2>2. CASE \E a \in Addresses : BeginVerify(r, s, u, a)
    <3>1. PICK a \in Addresses : BeginVerify(r, s, u, a) BY <2>2
    <3> DEFINE p == [op |-> "verify", server |-> s, user |-> u, addr |-> a, token |-> None]
    <3>2. p \in Parameters /\ p.op = "verify" BY DEF Parameters
    <3> HIDE DEF p
    <3>3. Begin(r, "asking", p) /\ UNCHANGED ident
          BY <3>1 DEF BeginVerify, p
    <3> QED BY <3>2, <3>3
  <2>3. CASE \E a \in Addresses, k \in TokenIds : BeginRedeem(r, s, u, a, k)
    <3>1. PICK a \in Addresses, k \in TokenIds : BeginRedeem(r, s, u, a, k) BY <2>3
    <3> DEFINE p == [op |-> "redeem", server |-> s, user |-> u, addr |-> a, token |-> k]
    <3>2. p \in Parameters /\ p.op = "redeem" BY DEF Parameters
    <3> HIDE DEF p
    <3>3. Begin(r, "finding", p) /\ UNCHANGED ident
          BY <3>1 DEF BeginRedeem, p
    <3> QED BY <3>2, <3>3
  <2> QED BY <2>1, <2>2, <2>3
<1>2. /\ pc[r] = "idle" /\ ident[r] = None
      /\ pc' = [pc EXCEPT ![r] = l] /\ req' = [req EXCEPT ![r] = p]
      /\ UNCHANGED <<client, token, valid, old>>
      BY <1>1 DEF Begin, At, Goto, table, issue, HInv, OpsKnown
<1>3. pc'[r] = l /\ req'[r] = p /\ (l # "reading" => ident'[r] = None)
      BY <1>1, <1>2 DEF CInv, ClientsTypeOK
<1>4. \A q \in Requests \ {r} : pc'[q] = pc[q] /\ req'[q] = req[q] /\ ident'[q] = ident[q]
      BY <1>1, <1>2 DEF CInv, ClientsTypeOK
<1>5. OnlyOf(r)
      BY <1>2, <1>3, <1>4 DEF OnlyOf, Answered
<1>6. TokenStays /\ RowsStay(r) /\ TokensLeave(r)
      BY <1>2 DEF TokenStays, Issued, RowsStay, Rows, TokensLeave
<1>7. OpsKnown(r)' /\ Linked(r)'
      BY <1>1, <1>3 DEF OpsKnown, Verifying, Linked, Answered
<1> QED BY <1>5, <1>6, <1>7, HStep

\* A step of r that leaves clients and tokens alone.
LEMMA HQuiet ==
    ASSUME CInv, HInv, NEW r \in Requests, NEW l, pc[r] \notin {"idle"} \cup Answered, Goto(r, l),
           UNCHANGED <<client, issue, req>>,
           ident' = ident, l \notin {"idle", "noToken", "finding", "redeeming"},
           l \in Verifying => pc[r] \in Verifying,
           l \in Answered => ident[r] \in Idents /\ InTable(r)
    PROVE  HInv'
<1>1. /\ \A q \in Requests \ {r} : pc'[q] = pc[q]
      /\ pc'[r] = l
      BY DEF Goto, CInv, ClientsTypeOK
<1>2. OnlyOf(r)
      BY <1>1 DEF OnlyOf, Answered, issue
<1>3. TokenStays /\ RowsStay(r) /\ TokensLeave(r)
      BY DEF TokenStays, Issued, RowsStay, Rows, TokensLeave, issue
<1>4. OpsKnown(r)'
  <2>1. OpsKnown(r)
        BY DEF HInv
  <2>2. req' = req /\ token' = token /\ ident' = ident
        BY DEF issue
  <2> QED BY <1>1, <2>1, <2>2 DEF OpsKnown, Issued, Answered
<1>5. Linked(r)'
      BY <1>1 DEF Linked, InTable, Rows
<1> QED BY <1>2, <1>3, <1>4, <1>5, HStep

\* The reads and the ends that change nothing.
LEMMA HReads ==
    ASSUME CInv, HInv, NEW r \in Requests,
           FoundNone(r) \/ SendTokens(r) \/ FoundMany(r) \/ LinkingNoClient(r) \/ Linking(r)
             \/ Checking(r) \/ ReadNone(r) \/ Read(r) \/ Clash(r) \/ Fail(r)
    PROVE  HInv'
<1>1. CASE Read(r)
  <2>1. PICK i \in RowsOf(req[r].server, req[r].user) :
          IF client[i].ident = ident[r] THEN Goto(r, SavedAs(r)) ELSE Goto(r, "writing")
        BY <1>1 DEF Read
  <2>2. pc[r] = "reading" /\ ident[r] \in Idents
        BY <1>1 DEF Read, At, CInv, Knows
  <2>3. CASE client[i].ident = ident[r]
    <3>1. i \in Rows /\ client[i] \in Client
          BY DEF RowsOf, Rows, CInv, ClientsTypeOK
    <3>2. client[i] = [server |-> req[r].server, user |-> req[r].user, ident |-> ident[r]]
          BY <2>3, <3>1 DEF RowsOf, Client
    <3>3. InTable(r)
          BY <3>1, <3>2 DEF InTable
    <3> QED BY <1>1, <2>1, <2>2, <2>3, <3>3, HQuiet DEF Read, SavedAs, Answered, Verifying, table
  <2>4. CASE client[i].ident # ident[r]
        BY <1>1, <2>1, <2>2, <2>4, HQuiet DEF Read, Answered, Verifying, table
  <2> QED BY <2>3, <2>4
<1>2. CASE FoundNone(r) \/ SendTokens(r) \/ FoundMany(r)
      BY <1>2, HQuiet DEF FoundNone, SendTokens, FoundMany, At, Answered, Verifying, table
<1>3. CASE LinkingNoClient(r) \/ ReadNone(r) \/ Clash(r)
      BY <1>3, HQuiet DEF LinkingNoClient, ReadNone, Clash, At, Answered, Verifying, table
<1>4. CASE Linking(r)
  <2>1. Goto(r, "alreadyVerified") \/ Goto(r, "checking")
        BY <1>4 DEF Linking
  <2> QED BY <1>4, <2>1, HQuiet DEF Linking, At, Answered, Verifying, table
<1>5. CASE Checking(r)
  <2>1. Goto(r, "linkedOther") \/ Goto(r, "reading")
        BY <1>5 DEF Checking
  <2> QED BY <1>5, <2>1, HQuiet DEF Checking, At, Answered, Verifying, table
<1>6. CASE Fail(r)
      BY <1>6, HQuiet DEF Fail, Awaits, At, Answered, Verifying, table
<1> QED BY <1>1, <1>2, <1>3, <1>4, <1>5, <1>6

\* cleanUpOldTokens and createTokens, and verifyUsingToken up to saveClient.
LEMMA HTokens ==
    ASSUME CInv, HInv, NEW r \in Requests,
           \/ CleanUpOldTokens(r) \/ PrepareFails(r)
           \/ \E ks \in SUBSET TokenIds : CreateTokens(r, ks)
           \/ (\E d \in Idents : FoundOne(r, d)) \/ FindToken(r) \/ MissToken(r) \/ Redeem(r)
    PROVE  HInv'
<1>0. \A q \in Requests : OpsKnown(q)
      BY DEF HInv
<1>1. ASSUME CleanUp \/ \E ks \in SUBSET TokenIds : Create(r, ks)
      PROVE  /\ TokenStays
             /\ \A k \in Issued' \ valid' : k \in old \/ (k \in Issued /\ k \notin valid)
  <2>1. CASE CleanUp
        BY <2>1 DEF CleanUp, TokenStays, Issued
  <2>2. ASSUME NEW ks \in SUBSET TokenIds, Create(r, ks)
        PROVE  /\ TokenStays
               /\ \A k \in Issued' \ valid' : k \in Issued /\ k \notin valid
    <3>1. \A k \in TokenIds \ ks : token'[k] = token[k]
          BY <2>2 DEF Create
    <3>2. \A k \in ks : token[k] = None
          BY <2>2 DEF Create
    <3>3. TokenStays
      <4>1. \A k \in Issued : token'[k] = token[k]
            BY <3>1, <3>2 DEF Issued
      <4> QED BY <4>1 DEF TokenStays, Issued
    <3> QED BY <2>2, <3>1, <3>3 DEF Create, Issued
  <2> QED BY <1>1, <2>1, <2>2
<1>2. ASSUME NEW l \in {"cleaned", "created", "sending", "failed"}, Goto(r, l),
             pc[r] \in Verifying, UNCHANGED <<client, old, req, ident>>,
             CleanUp \/ \E ks \in SUBSET TokenIds : Create(r, ks)
      PROVE  HInv'
  <2>1. /\ \A q \in Requests \ {r} : pc'[q] = pc[q]
        /\ pc'[r] = l
        BY <1>2 DEF Goto, CInv, ClientsTypeOK
  <2>2. OnlyOf(r)
        BY <1>2, <2>1 DEF OnlyOf, Verifying, Answered
  <2>3. TokenStays /\ RowsStay(r) /\ TokensLeave(r)
        BY <1>1, <1>2 DEF RowsStay, Rows, TokensLeave
  <2>4. OpsKnown(r)' /\ Linked(r)'
        BY <1>0, <1>2, <2>1, <2>3 DEF OpsKnown, Linked, Answered, Verifying, TokenStays
  <2> QED BY <2>2, <2>3, <2>4, HStep
<1>3. CASE CleanUpOldTokens(r) \/ (\E ks \in SUBSET TokenIds : CreateTokens(r, ks))
  <2>1. PICK l \in {"cleaned", "created"} : Prepared(r, l)
        BY <1>3 DEF CleanUpOldTokens, CreateTokens
  <2>2. PICK m \in {"cleaned", "created", "sending"} : Goto(r, m) /\ pc[r] \in Verifying
        BY <2>1 DEF Prepared, At, Verifying
  <2> QED BY <1>2, <1>3, <2>2 DEF CleanUpOldTokens, CreateTokens, table
<1>4. CASE PrepareFails(r)
      BY <1>2, <1>4 DEF PrepareFails, At, Verifying, table
<1>5. CASE \E d \in Idents : FoundOne(r, d)
  <2>1. PICK d \in Idents : FoundOne(r, d) BY <1>5
  <2>2. /\ pc[r] = "asking" /\ req[r].op = "verify" /\ pc'[r] = "linking"
        /\ \A q \in Requests \ {r} : pc'[q] = pc[q] /\ ident'[q] = ident[q]
        /\ UNCHANGED <<client, token, valid, old, req>>
        BY <1>0, <2>1 DEF FoundOne, At, Goto, CInv, ClientsTypeOK, OpsKnown, Verifying, table, issue
  <2>3. ident[r] = None
        BY <1>0, <2>2 DEF OpsKnown, Verifying
  <2>4. OnlyOf(r)
        BY <2>2, <2>3 DEF OnlyOf, Answered
  <2>5. TokenStays /\ RowsStay(r) /\ TokensLeave(r)
        BY <2>2 DEF TokenStays, Issued, RowsStay, Rows, TokensLeave
  <2>6. OpsKnown(r)' /\ Linked(r)'
        BY <2>2 DEF OpsKnown, Linked, Answered, Verifying
  <2> QED BY <2>4, <2>5, <2>6, HStep
<1>6. CASE FindToken(r)
  <2> DEFINE k == req[r].token
  <2>1. /\ pc[r] = "finding" /\ req[r].op = "redeem" /\ pc'[r] = "redeeming" /\ ident[r] = None
        /\ \A q \in Requests \ {r} : pc'[q] = pc[q] /\ ident'[q] = ident[q]
        /\ UNCHANGED <<client, token, valid, old, req>>
        BY <1>0, <1>6 DEF FindToken, At, Goto, CInv, ClientsTypeOK, OpsKnown, table, issue
  <2>2. k \in Issued /\ token[k] \in Token /\ token[k].server = req[r].server
        /\ token[k].addr = req[r].addr /\ ident'[r] = token[k].ident
        BY <1>6 DEF FindToken, Matches, Issued, CInv, ClientsTypeOK
  <2>3. token[k] = [server |-> req[r].server, addr |-> req[r].addr, ident |-> ident'[r]]
        BY <2>2 DEF Token
  <2>4. OnlyOf(r)
        BY <2>1 DEF OnlyOf, Answered
  <2>5. TokenStays /\ RowsStay(r) /\ TokensLeave(r)
        BY <2>1 DEF TokenStays, Issued, RowsStay, Rows, TokensLeave
  <2>6. OpsKnown(r)' /\ Linked(r)'
    <3>1. k \in Issued' /\ token'[k] = token[k] /\ req'[r] = req[r]
          BY <2>1, <2>2 DEF Issued
    <3> QED BY <2>1, <2>3, <3>1 DEF OpsKnown, Linked, Answered, Verifying
  <2> QED BY <2>4, <2>5, <2>6, HStep
<1>7. CASE MissToken(r)
  <2>1. /\ pc[r] = "finding" /\ req[r].op = "redeem" /\ pc'[r] = "noToken" /\ ident[r] = None
        /\ \A q \in Requests \ {r} : pc'[q] = pc[q]
        /\ UNCHANGED <<client, token, valid, old, req, ident>>
        BY <1>0, <1>7 DEF MissToken, At, Goto, CInv, ClientsTypeOK, OpsKnown, table, issue
  <2>2. OnlyOf(r)
        BY <2>1 DEF OnlyOf, Answered
  <2>3. TokenStays /\ RowsStay(r) /\ TokensLeave(r)
        BY <2>1 DEF TokenStays, Issued, RowsStay, Rows, TokensLeave
  <2>4. OpsKnown(r)' /\ Linked(r)'
        BY <2>1 DEF OpsKnown, Linked, Answered, Verifying
  <2> QED BY <2>2, <2>3, <2>4, HStep
<1>8. CASE Redeem(r)
  <2>1. /\ pc[r] = "redeeming" /\ req[r].op = "redeem" /\ pc'[r] = "linking" /\ ident[r] \in Idents
        /\ \A q \in Requests \ {r} : pc'[q] = pc[q]
        /\ UNCHANGED <<client, token, old, req, ident>>
        /\ valid' = {k \in valid : token[k].addr # req[r].addr}
        BY <1>0, <1>8 DEF Redeem, At, Goto, CInv, ClientsTypeOK, Knows, OpsKnown, table
  <2>2. OnlyOf(r)
        BY <2>1 DEF OnlyOf, Answered
  <2>3. TokenStays /\ RowsStay(r)
        BY <2>1 DEF TokenStays, Issued, RowsStay, Rows
  <2>4. ident[r] # None
        BY <2>1, ClientsAssumption
  <2>5. TokensLeave(r)
        BY <2>1, <2>4 DEF TokensLeave, Spends, Issued
  <2>6. OpsKnown(r)' /\ Linked(r)'
    <3>1. OpsKnown(r)
          BY <1>0
    <3> QED BY <2>1, <3>1 DEF OpsKnown, Linked, Answered, Verifying, Issued
  <2> QED BY <2>2, <2>3, <2>5, <2>6, HStep
<1> QED BY <1>3, <1>4, <1>5, <1>6, <1>7, <1>8

\* The two writes.
LEMMA HWrites ==
    ASSUME CInv, HInv, NEW r \in Requests, Insert(r) \/ Update(r)
    PROVE  HInv'
<1>1. /\ pc[r] = "writing" /\ pc'[r] \in Answered /\ ident[r] \in Idents
      /\ \A q \in Requests \ {r} : pc'[q] = pc[q]
      /\ UNCHANGED <<token, valid, old, req, ident>>
      BY DEF Insert, Update, At, Goto, SavedAs, Answered, CInv, ClientsTypeOK, Knows, issue
<1>2. /\ RowsStay(r) /\ InTable(r)'
  <2> DEFINE new == [server |-> req[r].server, user |-> req[r].user, ident |-> ident[r]]
  <2>1. CASE Insert(r)
    <3>1. PICK i \in RowIds \ Rows : client' = [client EXCEPT ![i] = new]
          BY <2>1 DEF Insert
    <3>2. new \in Client
          BY <1>1 DEF CInv, Knows, Parameters, Client
    <3>3. client'[i] = new /\ i \in Rows' /\ \A j \in Rows : client'[j] = client[j] /\ j \in Rows'
          BY <3>1, <3>2, NoRow DEF CInv, ClientsTypeOK, Rows
    <3> QED BY <1>1, <3>3 DEF RowsStay, InTable
  <2>2. CASE Update(r)
    <3>1. /\ cur[r].row \in Rows' /\ client'[cur[r].row] = new
          BY <2>2, UpdateRow
    <3>2. \A j \in Rows : j \in Rows' /\ (j = cur[r].row \/ client'[j] = client[j])
          BY <2>2, UpdateRow
    <3>3. /\ client[cur[r].row].server = req[r].server /\ client[cur[r].row].user = req[r].user
          BY <2>2, UpdateRow
    <3> QED BY <1>1, <3>1, <3>2, <3>3 DEF RowsStay, InTable
  <2> QED BY <2>1, <2>2
<1>3. OnlyOf(r)
      BY <1>1 DEF OnlyOf, Answered
<1>4. TokenStays /\ TokensLeave(r)
      BY <1>1 DEF TokenStays, TokensLeave, Issued
<1>5. OpsKnown(r)' /\ Linked(r)'
  <2>1. OpsKnown(r)
        BY DEF HInv
  <2> QED BY <1>1, <1>2, <2>1 DEF OpsKnown, Linked, Answered, Verifying, Issued
<1> QED BY <1>2, <1>3, <1>4, <1>5, HStep

LEMMA HNext == ASSUME CInv, HInv, [Next]_cvars PROVE HInv'
<1>1. CASE UNCHANGED cvars \/ AllEnded \/ DayPasses
  <2>1. UNCHANGED <<client, token, valid, pc, req, ident>> /\ old' \in {old, Issued}
        BY <1>1 DEF cvars, AllEnded, DayPasses, table
  <2> QED BY <2>1 DEF HInv, OpsKnown, Linked, InTable, Replaced, Rows, Issued, Spends
<1>2. ASSUME NEW r \in Requests, NEW s \in Servers, NEW u \in Users,
             \/ \E d \in Idents : BeginSave(r, s, u, d)
             \/ \E a \in Addresses :
                  BeginVerify(r, s, u, a) \/ \E k \in TokenIds : BeginRedeem(r, s, u, a, k)
      PROVE  HInv'
      BY <1>2, HBegins
<1> QED BY <1>1, <1>2, HReads, HTokens, HWrites DEF Next

LEMMA HistoryInvariance == Spec => []HInv
<1> QED BY ClientsInvariance, HInit, HNext, PTL DEF Spec

\* A link that was answered is there, unless another of the same user has been; and
\* a redemption has linked what its token was issued for at its own address.
THEOREM LinksStand == Spec => []AnsweredLinksStand
<1>1. HInv => AnsweredLinksStand
  <2> SUFFICES ASSUME HInv, NEW r \in Requests, pc[r] \in {"saved", "verified"}
               PROVE  /\ InTable(r) \/ Replaced(r)
                      /\ req[r].op = "redeem" =>
                            token[req[r].token] = [server |-> req[r].server, addr |-> req[r].addr,
                                                   ident |-> ident[r]]
      BY DEF AnsweredLinksStand, InTable, Replaced, Answered
  <2>1. ident[r] # None
        BY ClientsAssumption DEF HInv, OpsKnown
  <2> QED BY <2>1 DEF HInv, OpsKnown, Linked, Answered
<1> QED BY <1>1, HistoryInvariance, PTL

\* A token that was issued can be redeemed until a day has passed or a redemption
\* from its address has come to the deletion, whatever verifications overlap.
THEOREM IssuedTokensStand == Spec => []TokensStand
<1>1. HInv => TokensStand
  <2>1. ASSUME NEW k, NEW q, Spends(q, k)
        PROVE  ident[q] # None /\ pc[q] # "redeeming" /\ req[q].op = "redeem" /\ req[q].addr = token[k].addr
        BY <2>1 DEF Spends
  <2> QED BY <2>1 DEF HInv, TokensStand
<1> QED BY <1>1, HistoryInvariance, PTL

-----------------------------------------------------------------------------
\* The registry's view of the table.
Links == {client[i] : i \in Rows}

\* An insert links an identity that was free.
LEMMA InsertLinks == ASSUME CInv, NEW r \in Requests, Insert(r) PROVE Registry!Next
<1> USE DEF CInv, Insert, At
<1>1. PICK i \in RowIds \ Rows :
        /\ Unclaimed(r, i)
        /\ client' = [client EXCEPT ![i] = [server |-> req[r].server,
                        user |-> req[r].user, ident |-> ident[r]]]
  OBVIOUS
<1> DEFINE new == [server |-> req[r].server, user |-> req[r].user, ident |-> ident[r]]
<1>2. /\ req[r].server \in Servers /\ req[r].user \in Users /\ ident[r] \in Idents
  BY DEF Knows, Parameters
<1>3. new \in Client /\ client'[i] = new BY <1>1, <1>2 DEF ClientsTypeOK, Client
<1>4. Rows' = Rows \cup {i} /\ \A j \in Rows : client'[j] = client[j]
  BY <1>1, <1>3, NoRow DEF Rows, ClientsTypeOK
<1>5. Links' = Links \cup {new} BY <1>3, <1>4 DEF Links
<1>6. Registry!FreeIdent(req[r].server, ident[r])
  BY <1>1 DEF Registry!FreeIdent, Unclaimed, Holders
<1> QED BY <1>2, <1>5, <1>6 DEF Registry!Next, Registry!Link, Links

\* An update moves the link of a user to an identity that was free.
LEMMA UpdateLinks ==
    ASSUME CInv, NEW r \in Requests, Update(r)
    PROVE  Registry!Next \/ UNCHANGED Links
<1> USE DEF CInv, At
<1> DEFINE i == cur[r].row
           new == [server |-> req[r].server, user |-> req[r].user, ident |-> ident[r]]
<1>1. /\ req[r].server \in Servers /\ req[r].user \in Users /\ ident[r] \in Idents
  BY DEF Update, Knows, Parameters
<1>2. /\ i \in Rows /\ client'[i] = new /\ Rows' = Rows
      /\ \A j \in Rows \ {i} : client'[j] = client[j]
  BY UpdateRow
<1>3. Holders(req[r].server, ident[r]) \subseteq {i} BY DEF Update, Unclaimed
<1>4. client[i] = [server |-> req[r].server, user |-> req[r].user,
                   ident |-> client[i].ident]
  BY <1>2, UpdateRow DEF ClientsTypeOK, Client, Rows
<1>5. CASE client[i].ident = ident[r]
  <2>1. client'[i] = client[i] BY <1>2, <1>4, <1>5
  <2> QED BY <1>2, <2>1 DEF Links
<1>6. CASE client[i].ident # ident[r]
  <2>1. Registry!FreeIdent(req[r].server, ident[r])
    BY <1>2, <1>3, <1>6 DEF Registry!FreeIdent, Holders
  <2>2. \A j \in Rows \ {i} : client[j] # client[i] BY <1>2 DEF OneHolder
  <2>3. Links' = (Links \ {client[i]}) \cup {new} BY <1>2, <2>2 DEF Links
  <2>4. client[i] \in Links /\ client[i].server = req[r].server
          /\ client[i].user = req[r].user
    BY <1>2, UpdateRow DEF Links
  <2> QED BY <1>1, <2>1, <2>3, <2>4 DEF Registry!Next, Registry!Link, Links
<1> QED BY <1>5, <1>6

\* Every step is a step of the registry or leaves its links alone.
LEMMA RegistryStep ==
    ASSUME CInv, [Next]_cvars PROVE Registry!Next \/ UNCHANGED Links
<1> USE DEF table
<1>1. CASE \E r \in Requests : Insert(r) BY <1>1, InsertLinks
<1>2. CASE \E r \in Requests : Update(r) BY <1>2, UpdateLinks
<1>3. CASE UNCHANGED client BY <1>3 DEF Links, Rows
<1>4. ASSUME NEW r \in Requests,
             \/ FoundNone(r) \/ (\E d \in Idents : FoundOne(r, d)) \/ SendTokens(r)
             \/ FoundMany(r) \/ CleanUpOldTokens(r) \/ PrepareFails(r)
             \/ \E ks \in SUBSET TokenIds : CreateTokens(r, ks)
             \/ FindToken(r) \/ MissToken(r) \/ Redeem(r)
             \/ LinkingNoClient(r) \/ Linking(r) \/ Checking(r)
             \/ ReadNone(r) \/ Read(r) \/ Clash(r) \/ Fail(r)
      PROVE  UNCHANGED client
  BY <1>4 DEF FoundNone, FoundOne, SendTokens, FoundMany, CleanUpOldTokens, CreateTokens,
    PrepareFails, FindToken, MissToken,
    Redeem, LinkingNoClient, Linking, Checking, ReadNone, Read, Clash, Fail
<1>5. ASSUME NEW r \in Requests, NEW s \in Servers, NEW u \in Users,
             \/ \E d \in Idents : BeginSave(r, s, u, d)
             \/ \E a \in Addresses :
                  BeginVerify(r, s, u, a) \/ \E k \in TokenIds : BeginRedeem(r, s, u, a, k)
      PROVE  UNCHANGED client
  BY <1>5 DEF BeginSave, BeginVerify, BeginRedeem, Begin
<1>6. CASE UNCHANGED cvars \/ AllEnded \/ DayPasses
  BY <1>3, <1>6 DEF cvars, AllEnded, DayPasses
<1> QED BY <1>1, <1>2, <1>3, <1>4, <1>5, <1>6 DEF Next

\* Owners' saves, verifications and redemptions, interleaved in any way and failing
\* anywhere, implement the registry: an identity has one user per server.
THEOREM RegistryImplemented == Spec => ImplementsRegistry
<1>1. Init => Registry!Init BY DEF Init, Registry!Init, Rows
<1>2. CInv /\ [Next]_cvars => [Registry!Next]_Links
  BY RegistryStep
<1>3. Links = {client[i] : i \in Rows} BY DEF Links
<1> QED BY <1>1, <1>2, ClientsInvariance, PTL
        DEF Spec, ImplementsRegistry, Registry!Spec, Links

-----------------------------------------------------------------------------
(* What the registry promises then holds of the handlers.                  *)

LEMMA RegistryKeepsOneUser == Registry!Spec => []Registry!OneUser
<1>1. Registry!Init => Registry!OneUser
      BY DEF Registry!Init, Registry!OneUser
<1>2. ASSUME Registry!OneUser, [Registry!Next]_Links PROVE Registry!OneUser'
  <2>1. CASE UNCHANGED Links
        BY <1>2, <2>1 DEF Registry!OneUser, Links
  <2>2. ASSUME NEW s \in Servers, NEW u \in Users, NEW d \in Idents, Registry!Link(s, u, d)
        PROVE  Registry!OneUser'
    <3> DEFINE L   == {client[i] : i \in Rows}
               new == [server |-> s, user |-> u, ident |-> d]
    <3>1. \A l \in L : l.server = s => l.ident # d
          BY <2>2 DEF Registry!Link, Registry!FreeIdent
    <3>2. \E K \in SUBSET L : L' = K \cup {new}
          BY <2>2 DEF Registry!Link
    <3>3. \A k, l \in L : k.server = l.server /\ k.ident = l.ident => k = l
          BY <1>2 DEF Registry!OneUser
    <3> HIDE DEF L
    <3>4. \A k, l \in L' : k.server = l.server /\ k.ident = l.ident => k = l
          BY <3>1, <3>2, <3>3
    <3> QED BY <3>4 DEF Registry!OneUser, L
  <2> QED BY <1>2, <2>1, <2>2 DEF Registry!Next
<1>3. Links = {client[i] : i \in Rows} BY DEF Links
<1> QED BY <1>1, <1>2, <1>3, PTL DEF Registry!Spec, Links

\* No interleaving of saves, verifications and redemptions gives one voice
\* identity of a server to two users.
THEOREM IdentitiesHaveOneUser == Spec => []Registry!OneUser
<1> QED BY RegistryImplemented, RegistryKeepsOneUser, PTL DEF ImplementsRegistry
=============================================================================
