--------------------------- MODULE ChannelsProofs ---------------------------
(***************************************************************************)
(* Proofs about Channels for any number of requests, clients and channel   *)
(* ids.  The safety properties are not inductive: what a handler does next *)
(* depends on the channel id it holds since an earlier await.  IInv adds   *)
(* that every channel has one creation behind it (Makers), that the id a   *)
(* request holds is a channel made by itself or one that has been in the   *)
(* table (Targets), and which method each await belongs to (Phases).       *)
(***************************************************************************)
EXTENDS Channels, TLAPS

\* A creation got as far as a row or a compensation: it will not save again.
Settled(t) == /\ maker[t] \in Requests
              /\ op[maker[t]] = "undo" \/ pc[maker[t]] = "done"

\* Which method a request is in, from the await it is at; only a waiting
\* request has an answer, and only it or a dead one has a message under way.
Phases ==
    \A r \in Requests :
        /\ pc[r] = "idle" => op[r] = "none"
        /\ pc[r] \in {"checking", "validating", "saving"} => op[r] = "create"
        /\ pc[r] \in {"locating", "located"} => op[r] \in {"undo", "remove", "removeSub"}
        /\ pc[r] = "forgetting" => op[r] = "remove"
        /\ pc[r] = "surveying" => op[r] = "addSub"
        /\ op[r] = "create" => who[r] \in Clients
        /\ wire[r] # "none" => pc[r] \in {"waiting", "failed", "crashed"}
        /\ wire[r] \in {"ok", "error"} => pc[r] = "waiting"

\* Every channel has one creation behind it, whose message is used up.
Makers ==
    \A t \in TsIds :
        /\ maker[t] = None <=> chan[t] = "unborn"
        /\ maker[t] # None =>
             /\ op[maker[t]] \in {"create", "undo"}
             /\ who[maker[t]] \in Clients
             /\ pc[maker[t]] \notin {"idle", "checking", "validating", "refused"}
             /\ op[maker[t]] = "create" => wire[maker[t]] # "out"
             /\ \A u \in TsIds : maker[u] = maker[t] => u = t

\* What the request holds in its local tsChannelId.
Targets ==
    \A r \in Requests :
        /\ op[r] = "undo" => tgt[r] \in TsIds /\ maker[tgt[r]] = r
        /\ pc[r] = "saving" => /\ tgt[r] \in TsIds
                               /\ maker[tgt[r]] = r
        /\ op[r] \in {"remove", "removeSub", "addSub"} =>
             tgt[r] \in TsIds /\ Settled(tgt[r])
        /\ op[r] \in {"remove", "undo"} /\ (wire[r] = "ok" \/ pc[r] \in {"done", "forgetting"}) =>
             chan[tgt[r]] = "gone"

Table ==
    /\ OneChannelPerClient
    /\ RowsAreOwnChannels
    /\ \A x \in rows : Settled(x.ts)

IInv == /\ TypeOK /\ Phases /\ Makers /\ Targets /\ Table
        /\ NoSilentOrphan /\ RemovalIsComplete
        /\ ~LostAcks => UndoSparesRecorded

\* Before the first request there are no channels, no rows and no messages.
LEMMA InitInv == Init => IInv
<1> SUFFICES ASSUME Init PROVE IInv OBVIOUS
<1> USE ConstantsAssumption DEF Init
<1>1. TypeOK BY DEF TypeOK, Ops, Steps, Ended, Row
<1>2. Phases /\ Makers /\ Targets BY DEF Phases, Makers, Targets
<1>3. Table BY DEF Table, OneChannelPerClient, RowsAreOwnChannels
<1>4. NoSilentOrphan /\ RemovalIsComplete /\ UndoSparesRecorded
  BY DEF NoSilentOrphan, RemovalIsComplete, UndoSparesRecorded, Live
<1> QED BY <1>1, <1>2, <1>3, <1>4 DEF IInv

-----------------------------------------------------------------------------
(* Most steps only move one request on.  What they must not do is one formula;
   that they keep the invariant is one lemma.                                *)

Quiet(r) ==
    /\ UNCHANGED <<rows, chan, maker, op, who, tgt>>
    /\ \A q \in Requests \ {r} : pc'[q] = pc[q] /\ wire'[q] = wire[q]
    /\ pc'[r] # pc[r] =>
         /\ Active(r)
         /\ pc'[r] # "saving"
         /\ pc'[r] \in {"idle", "checking", "validating", "refused"} =>
              op[r] = "addSub" \/ pc[r] \in {"checking", "validating"}
         /\ op[r] \in {"create", "remove"} => pc'[r] # "done"
         /\ op[r] \in {"remove", "undo"} /\ pc'[r] \in {"done", "forgetting"} =>
              chan[tgt[r]] = "gone"
    /\ wire'[r] # wire[r] =>
         /\ op[r] = "create" /\ wire'[r] = "out" => pc[r] = "validating"
         /\ op[r] \in {"remove", "undo"} => wire'[r] # "ok"

\* A quiet step of a request keeps the invariant.
LEMMA QuietInv ==
    ASSUME IInv, NEW r \in Requests, Quiet(r), TypeOK', Phases'
    PROVE  IInv'
<1> USE DEF IInv
<1>1. \A t \in TsIds : Settled(t) => Settled(t)'
  BY DEF Quiet, Settled, Active, Steps
<1>2. Makers' BY DEF Makers, Quiet, Phases, TypeOK
<1>3. Targets' BY <1>1 DEF Targets, Quiet
<1>4. Table'
  BY <1>1 DEF Table, Quiet, OneChannelPerClient, RowsAreOwnChannels, TypeOK, Row
<1>5. NoSilentOrphan'
  <2> SUFFICES ASSUME NEW t \in TsIds, Live(t), ~Recorded(t)
               PROVE (Active(maker[t]) \/ pc[maker[t]] \in {"failed", "crashed"})'
    BY DEF NoSilentOrphan, Live, Recorded, Quiet
  <2>1. maker[t] \in Requests BY DEF Makers, Live, TypeOK
  <2>2. Active(maker[t]) \/ pc[maker[t]] \in {"failed", "crashed"}
    BY DEF NoSilentOrphan
  <2>3. CASE maker[t] # r BY <2>1, <2>2, <2>3 DEF Quiet, Active
  <2>4. CASE maker[t] = r
    <3>1. op[r] \in {"create", "undo"} /\ chan[t] # "gone"
      BY <2>1, <2>4 DEF Makers, Live
    <3>2. op[r] = "undo" => tgt[r] = t
      BY <2>1, <2>4, ConstantsAssumption DEF Targets, Makers
    <3>3. pc'[r] = pc[r] \/ pc'[r] \notin {"idle", "refused", "done"}
      BY <2>1, <2>4, <3>1, <3>2, ConstantsAssumption DEF Quiet, Makers
    <3> QED BY <2>2, <2>4, <3>3 DEF Active, TypeOK, Ended, Quiet
  <2> QED BY <2>3, <2>4
<1>6. RemovalIsComplete' BY DEF RemovalIsComplete, Quiet, Recorded
<1>7. (~LostAcks => UndoSparesRecorded)' BY DEF UndoSparesRecorded, Quiet, Recorded
<1> QED BY <1>2, <1>3, <1>4, <1>5, <1>6, <1>7

\* createChannel has checked that the client has no channel.
LEMMA CheckHasChannelInv == ASSUME IInv, NEW r \in Requests, CheckHasChannel(r) PROVE IInv'
<1> USE ConstantsAssumption DEF Goto, CheckHasChannel, HasChannel, voice, locals
<1>1. TypeOK' BY DEF IInv, TypeOK, Steps, Ended, Targets
<1>2. Phases' BY DEF IInv, Phases, TypeOK, Steps, Ended, Ops
<1>3. Quiet(r) BY DEF Quiet, IInv, TypeOK, Phases, Targets, Makers, Settled, Active, Steps
<1> QED BY <1>1, <1>2, <1>3, QuietInv

\* The message to the bot leaves once the checks are passed.
LEMMA SendCreateInv == ASSUME IInv, NEW r \in Requests, SendCreate(r) PROVE IInv'
<1> USE ConstantsAssumption DEF Goto, SendCreate, Send, voice, locals
<1>1. TypeOK' BY DEF IInv, TypeOK, Steps, Ended, Targets
<1>2. Phases' BY DEF IInv, Phases, TypeOK, Steps, Ended, Ops
<1>3. Quiet(r) BY DEF Quiet, IInv, TypeOK, Phases, Targets, Makers, Settled, Active, Steps
<1> QED BY <1>1, <1>2, <1>3, QuietInv

\* A check of createChannel fails.
LEMMA RefuseCreateInv == ASSUME IInv, NEW r \in Requests, RefuseCreate(r) PROVE IInv'
<1> USE ConstantsAssumption DEF Goto, RefuseCreate, voice, locals
<1>1. TypeOK' BY DEF IInv, TypeOK, Steps, Ended, Targets
<1>2. Phases' BY DEF IInv, Phases, TypeOK, Steps, Ended, Ops
<1>3. Quiet(r) BY DEF Quiet, IInv, TypeOK, Phases, Targets, Makers, Settled, Active, Steps
<1> QED BY <1>1, <1>2, <1>3, QuietInv

\* A deletion looks its zone up.
LEMMA LocateInv == ASSUME IInv, NEW r \in Requests, Locate(r) PROVE IInv'
<1> USE ConstantsAssumption DEF Goto, Locate, AfterDelete, voice, locals
<1>1. TypeOK' BY DEF IInv, TypeOK, Steps, Ended, Targets
<1>2. Phases' BY DEF IInv, Phases, TypeOK, Steps, Ended, Ops
<1>3. Quiet(r) BY DEF Quiet, IInv, TypeOK, Phases, Targets, Makers, Settled, Active, Steps
<1> QED BY <1>1, <1>2, <1>3, QuietInv

\* The zone lookup of a deletion fails.
LEMMA LocateFailsInv == ASSUME IInv, NEW r \in Requests, LocateFails(r) PROVE IInv'
<1> USE ConstantsAssumption DEF Goto, LocateFails, voice, locals
<1>1. TypeOK' BY DEF IInv, TypeOK, Steps, Ended, Targets
<1>2. Phases' BY DEF IInv, Phases, TypeOK, Steps, Ended, Ops
<1>3. Quiet(r) BY DEF Quiet, IInv, TypeOK, Phases, Targets, Makers, Settled, Active, Steps
<1> QED BY <1>1, <1>2, <1>3, QuietInv

\* The bot is asked to delete the channel or the sub-channel.
LEMMA SendDeleteInv == ASSUME IInv, NEW r \in Requests, SendDelete(r) PROVE IInv'
<1> USE ConstantsAssumption DEF Goto, SendDelete, Send, voice, locals
<1>1. TypeOK' BY DEF IInv, TypeOK, Steps, Ended, Targets
<1>2. Phases' BY DEF IInv, Phases, TypeOK, Steps, Ended, Ops
<1>3. Quiet(r) BY DEF Quiet, IInv, TypeOK, Phases, Targets, Makers, Settled, Active, Steps
<1> QED BY <1>1, <1>2, <1>3, QuietInv

\* The bot says that it is deleted.
LEMMA GotDeletedInv == ASSUME IInv, NEW r \in Requests, GotDeleted(r) PROVE IInv'
<1> USE ConstantsAssumption DEF Goto, GotDeleted, AfterDelete, voice, locals
<1>1. TypeOK' BY DEF IInv, TypeOK, Steps, Ended, Targets
<1>2. Phases' BY DEF IInv, Phases, TypeOK, Steps, Ended, Ops
<1>3. Quiet(r) BY DEF Quiet, IInv, TypeOK, Phases, Targets, Makers, Settled, Active, Steps
<1> QED BY <1>1, <1>2, <1>3, QuietInv

\* createSubChannel has counted the sub-channels.
LEMMA CountSubsInv == ASSUME IInv, NEW r \in Requests, CountSubs(r) PROVE IInv'
<1> USE ConstantsAssumption DEF Goto, CountSubs, voice, locals
<1>1. TypeOK' BY DEF IInv, TypeOK, Steps, Ended, Targets, Phases
<1>2. Phases' BY DEF IInv, Phases, TypeOK, Steps, Ended, Ops
<1>3. Quiet(r) BY DEF Quiet, IInv, TypeOK, Phases, Targets, Makers, Settled, Active, Steps
<1> QED BY <1>1, <1>2, <1>3, QuietInv

\* createSubChannel knows the zone.
LEMMA FindZoneInv == ASSUME IInv, NEW r \in Requests, FindZone(r) PROVE IInv'
<1> USE ConstantsAssumption DEF Goto, FindZone, voice, locals
<1>1. TypeOK' BY DEF IInv, TypeOK, Steps, Ended, Targets
<1>2. Phases' BY DEF IInv, Phases, TypeOK, Steps, Ended, Ops
<1>3. Quiet(r) BY DEF Quiet, IInv, TypeOK, Phases, Targets, Makers, Settled, Active, Steps
<1> QED BY <1>1, <1>2, <1>3, QuietInv

\* A check of createSubChannel fails.
LEMMA RefuseAddSubInv == ASSUME IInv, NEW r \in Requests, RefuseAddSub(r) PROVE IInv'
<1> USE ConstantsAssumption DEF Goto, RefuseAddSub, voice, locals
<1>1. TypeOK' BY DEF IInv, TypeOK, Steps, Ended, Targets
<1>2. Phases' BY DEF IInv, Phases, TypeOK, Steps, Ended, Ops
<1>3. Quiet(r) BY DEF Quiet, IInv, TypeOK, Phases, Targets, Makers, Settled, Active, Steps
<1> QED BY <1>1, <1>2, <1>3, QuietInv

\* The bot is asked for the sub-channels that were asked for.
LEMMA SendAddSubInv == ASSUME IInv, NEW r \in Requests, SendAddSub(r) PROVE IInv'
<1> USE ConstantsAssumption DEF Goto, SendAddSub, Send, voice, locals
<1>1. TypeOK' BY DEF IInv, TypeOK, Steps, Ended, Targets
<1>2. Phases' BY DEF IInv, Phases, TypeOK, Steps, Ended, Ops
<1>3. Quiet(r) BY DEF Quiet, IInv, TypeOK, Phases, Targets, Makers, Settled, Active, Steps
<1> QED BY <1>1, <1>2, <1>3, QuietInv

\* The bot says that they are there.
LEMMA GotSubsInv == ASSUME IInv, NEW r \in Requests, GotSubs(r) PROVE IInv'
<1> USE ConstantsAssumption DEF Goto, GotSubs, voice, locals
<1>1. TypeOK' BY DEF IInv, TypeOK, Steps, Ended, Targets
<1>2. Phases' BY DEF IInv, Phases, TypeOK, Steps, Ended, Ops
<1>3. Quiet(r) BY DEF Quiet, IInv, TypeOK, Phases, Targets, Makers, Settled, Active, Steps
<1> QED BY <1>1, <1>2, <1>3, QuietInv

\* A request that stops waiting: the time-out, or an error of the bot.
LEMMA GiveUpInv == ASSUME IInv, NEW r \in Requests, GiveUp(r) PROVE IInv'
<1> USE ConstantsAssumption DEF Goto, GiveUp, voice, locals
<1>1. TypeOK' BY DEF IInv, TypeOK, Steps, Ended, Targets
<1>2. Phases' BY DEF IInv, Phases, TypeOK, Steps, Ended, Ops
<1>3. Quiet(r) BY DEF Quiet, IInv, TypeOK, Phases, Targets, Makers, Settled, Active, Steps
<1> QED BY <1>1, <1>2, <1>3, QuietInv

\* A message is lost.
LEMMA LoseInv == ASSUME IInv, NEW r \in Requests, Lose(r) PROVE IInv'
<1> USE ConstantsAssumption DEF Goto, Lose, voice, locals
<1>1. TypeOK' BY DEF IInv, TypeOK, Steps, Ended, Targets
<1>2. Phases' BY DEF IInv, Phases, TypeOK, Steps, Ended, Ops
<1>3. Quiet(r) BY DEF Quiet, IInv, TypeOK, Phases, Targets, Makers, Settled, Active, Steps
<1> QED BY <1>1, <1>2, <1>3, QuietInv

\* The bot answers with an error.
LEMMA BotFailsInv == ASSUME IInv, NEW r \in Requests, BotFails(r) PROVE IInv'
<1> USE ConstantsAssumption DEF Goto, BotFails, Answer, voice, locals
<1>1. TypeOK' BY DEF IInv, TypeOK, Steps, Ended, Targets
<1>2. Phases' BY DEF IInv, Phases, TypeOK, Steps, Ended, Ops
<1>3. Quiet(r) BY DEF Quiet, IInv, TypeOK, Phases, Targets, Makers, Settled, Active, Steps
<1> QED BY <1>1, <1>2, <1>3, QuietInv

\* The bot adds sub-channels.
LEMMA BotAddsSubsInv == ASSUME IInv, NEW r \in Requests, BotAddsSubs(r) PROVE IInv'
<1> USE ConstantsAssumption DEF Goto, BotAddsSubs, Answer, voice, locals
<1>1. TypeOK' BY DEF IInv, TypeOK, Steps, Ended, Targets
<1>2. Phases' BY DEF IInv, Phases, TypeOK, Steps, Ended, Ops
<1>3. Quiet(r) BY DEF Quiet, IInv, TypeOK, Phases, Targets, Makers, Settled, Active, Steps
<1> QED BY <1>1, <1>2, <1>3, QuietInv

\* The bot removes a sub-channel.
LEMMA BotRemovesSubInv == ASSUME IInv, NEW r \in Requests, BotRemovesSub(r) PROVE IInv'
<1> USE ConstantsAssumption DEF Goto, BotRemovesSub, Answer, voice, locals
<1>1. TypeOK' BY DEF IInv, TypeOK, Steps, Ended, Targets
<1>2. Phases' BY DEF IInv, Phases, TypeOK, Steps, Ended, Ops
<1>3. Quiet(r) BY DEF Quiet, IInv, TypeOK, Phases, Targets, Makers, Settled, Active, Steps
<1> QED BY <1>1, <1>2, <1>3, QuietInv

\* The insert of saveChannel: the unique key keeps one row per client, and the
\* row names the channel this very request made.
LEMMA SaveInv == ASSUME IInv, NEW r \in Requests, Save(r) PROVE IInv'
<1> USE ConstantsAssumption DEF Save, Goto, Insert, HasChannel, voice, locals
<1> USE DEF IInv
<1>1. TypeOK' BY DEF TypeOK, Ops, Steps, Ended, Row, Targets, Phases
<1>2. Phases' BY DEF Phases, TypeOK, Steps, Ended, Ops
<1>3. Makers' BY DEF Makers, Phases, TypeOK, Steps, Ended, Ops
<1>4. Targets' BY DEF Targets, Settled, Phases, TypeOK, Steps, Ended, Ops
<1>5. Table' BY DEF Table, Targets, Phases, OneChannelPerClient, RowsAreOwnChannels, Settled, TypeOK, Row
<1>6. NoSilentOrphan'
  <2> SUFFICES ASSUME NEW t \in TsIds, Live(t), ~Recorded(t)'
               PROVE Active(maker[t])' \/ pc'[maker[t]] \in {"failed", "crashed"}
    BY DEF NoSilentOrphan, Live
  <2>1. tgt[r] \in TsIds /\ maker[tgt[r]] = r BY DEF Targets
  <2>2. t # tgt[r]
    <3>1. [client |-> who[r], ts |-> tgt[r]] \in rows' OBVIOUS
    <3> QED BY <3>1 DEF Recorded
  <2>3. ~Recorded(t) BY DEF Recorded
  <2>4. maker[t] \in Requests BY DEF Makers, Live, TypeOK
  <2>5. maker[t] # r BY <2>1, <2>2, <2>4 DEF Makers
  <2> QED BY <2>3, <2>4, <2>5 DEF NoSilentOrphan, Active, TypeOK
<1>7. RemovalIsComplete' BY DEF RemovalIsComplete, Targets, Settled, Recorded, Phases, TypeOK, Makers
<1>8. (~LostAcks => UndoSparesRecorded)' BY DEF UndoSparesRecorded, Recorded, Targets, Phases, TypeOK
<1> QED BY <1>1, <1>2, <1>3, <1>4, <1>5, <1>6, <1>7, <1>8 

\* A creation starts without a channel.
LEMMA BeginCreateInv ==
    ASSUME IInv, NEW r \in Requests, NEW c \in Clients, NEW n \in 0..MaxAsked, BeginCreate(r, c, n)
    PROVE  IInv'
<1> USE ConstantsAssumption DEF BeginCreate, Goto, voice, locals
<1> USE DEF IInv
<1>1. TypeOK' BY DEF TypeOK, Ops, Steps, Ended, Row, Targets, Phases
<1>2. Phases' BY DEF Phases, TypeOK, Steps, Ended, Ops
<1>3. Makers' BY DEF Makers, Phases, TypeOK, Steps, Ended, Ops
<1>4. Targets' BY DEF Targets, Settled, Phases, Makers, Table, TypeOK, Steps, Ended, Ops
<1>5. Table' BY DEF Table, Targets, Phases, Makers, OneChannelPerClient, RowsAreOwnChannels, Settled, TypeOK, Row
<1>6. NoSilentOrphan' BY DEF NoSilentOrphan, Live, Recorded, Active, Makers, Targets, Phases, TypeOK, Steps
<1>7. RemovalIsComplete' BY DEF RemovalIsComplete, Targets, Settled, Recorded, Phases, TypeOK, Makers
<1>8. (~LostAcks => UndoSparesRecorded)' BY DEF UndoSparesRecorded, Recorded, Targets, Phases, TypeOK, Table, Settled
<1> QED BY <1>1, <1>2, <1>3, <1>4, <1>5, <1>6, <1>7, <1>8

\* A deletion starts from a row, so from a channel whose creation is over.
LEMMA BeginRemoveInv ==
    ASSUME IInv, NEW r \in Requests, NEW row \in rows, NEW o \in {"remove", "removeSub"}, BeginRemove(r, row, o)
    PROVE  IInv'
<1> USE ConstantsAssumption DEF BeginRemove, Goto, voice, locals
<1> USE DEF IInv
<1>1. TypeOK' BY DEF TypeOK, Ops, Steps, Ended, Row, Targets, Phases
<1>2. Phases' BY DEF Phases, TypeOK, Steps, Ended, Ops
<1>3. Makers' BY DEF Makers, Phases, TypeOK, Steps, Ended, Ops
<1>4. Targets'
  <2>1. \A t \in TsIds : Settled(t) => Settled(t)'
    BY DEF Settled, Phases, TypeOK
  <2>2. row.ts \in TsIds /\ Settled(row.ts) BY DEF Table, TypeOK, Row
  <2> QED BY <2>1, <2>2 DEF Targets, TypeOK, Makers, Phases, Ops
<1>5. Table' BY DEF Table, Targets, Phases, Makers, OneChannelPerClient, RowsAreOwnChannels, Settled, TypeOK, Row
<1>6. NoSilentOrphan' BY DEF NoSilentOrphan, Live, Recorded, Active, Makers, Targets, Phases, TypeOK, Steps
<1>7. RemovalIsComplete' BY DEF RemovalIsComplete, Targets, Settled, Recorded, Phases, TypeOK, Makers
<1>8. (~LostAcks => UndoSparesRecorded)' BY DEF UndoSparesRecorded, Recorded, Targets, Phases, TypeOK, Table, Settled
<1> QED BY <1>1, <1>2, <1>3, <1>4, <1>5, <1>6, <1>7, <1>8

\* So does the creation of a sub-channel.
LEMMA BeginAddSubInv ==
    ASSUME IInv, NEW r \in Requests, NEW row \in rows, NEW n \in 1..MaxAsked, BeginAddSub(r, row, n)
    PROVE  IInv'
<1> USE ConstantsAssumption DEF BeginAddSub, Goto, voice, locals
<1> USE DEF IInv
<1>1. TypeOK' BY DEF TypeOK, Ops, Steps, Ended, Row, Targets, Phases
<1>2. Phases' BY DEF Phases, TypeOK, Steps, Ended, Ops
<1>3. Makers' BY DEF Makers, Phases, TypeOK, Steps, Ended, Ops
<1>4. Targets'
  <2>1. \A t \in TsIds : Settled(t) => Settled(t)'
    BY DEF Settled, Phases, TypeOK
  <2>2. row.ts \in TsIds /\ Settled(row.ts) BY DEF Table, TypeOK, Row
  <2> QED BY <2>1, <2>2 DEF Targets, TypeOK, Makers, Phases, Ops
<1>5. Table' BY DEF Table, Targets, Phases, Makers, OneChannelPerClient, RowsAreOwnChannels, Settled, TypeOK, Row
<1>6. NoSilentOrphan' BY DEF NoSilentOrphan, Live, Recorded, Active, Makers, Targets, Phases, TypeOK, Steps
<1>7. RemovalIsComplete' BY DEF RemovalIsComplete, Targets, Settled, Recorded, Phases, TypeOK, Makers
<1>8. (~LostAcks => UndoSparesRecorded)' BY DEF UndoSparesRecorded, Recorded, Targets, Phases, TypeOK, Table, Settled
<1> QED BY <1>1, <1>2, <1>3, <1>4, <1>5, <1>6, <1>7, <1>8

\* The answer of the bot names the channel it made for this request.
LEMMA GotChannelInv ==
    ASSUME IInv, NEW r \in Requests, GotChannel(r)
    PROVE  IInv'
<1> USE ConstantsAssumption DEF GotChannel, Goto, voice, locals
<1> USE DEF IInv
<1>1. TypeOK' BY DEF TypeOK, Ops, Steps, Ended, Row, Targets, Phases
<1>2. Phases' BY DEF Phases, TypeOK, Steps, Ended, Ops
<1>3. Makers' BY DEF Makers, Phases, TypeOK, Steps, Ended, Ops
<1>4. Targets' BY DEF Targets, Settled, Phases, Makers, Table, TypeOK, Steps, Ended, Ops
<1>5. Table' BY DEF Table, Targets, Phases, Makers, OneChannelPerClient, RowsAreOwnChannels, Settled, TypeOK, Row
<1>6. NoSilentOrphan' BY DEF NoSilentOrphan, Live, Recorded, Active, Makers, Targets, Phases, TypeOK, Steps
<1>7. RemovalIsComplete' BY DEF RemovalIsComplete, Targets, Settled, Recorded, Phases, TypeOK, Makers
<1>8. (~LostAcks => UndoSparesRecorded)' BY DEF UndoSparesRecorded, Recorded, Targets, Phases, TypeOK, Table, Settled
<1> QED BY <1>1, <1>2, <1>3, <1>4, <1>5, <1>6, <1>7, <1>8

\* A failed insert turns the creation into the compensation of its channel.
LEMMA SaveFailsInv ==
    ASSUME IInv, NEW r \in Requests, SaveFails(r)
    PROVE  IInv'
<1> USE ConstantsAssumption DEF SaveFails, StartUndo, Goto, voice, locals
<1> USE DEF IInv
<1>1. TypeOK' BY DEF TypeOK, Ops, Steps, Ended, Row, Targets, Phases
<1>2. Phases' BY DEF Phases, TypeOK, Steps, Ended, Ops
<1>3. Makers' BY DEF Makers, Phases, TypeOK, Steps, Ended, Ops
<1>4. Targets' BY DEF Targets, Settled, Phases, Makers, Table, TypeOK, Steps, Ended, Ops
<1>5. Table' BY DEF Table, Targets, Phases, Makers, OneChannelPerClient, RowsAreOwnChannels, Settled, TypeOK, Row
<1>6. NoSilentOrphan' BY DEF NoSilentOrphan, Live, Recorded, Active, Makers, Targets, Phases, TypeOK, Steps
<1>7. RemovalIsComplete' BY DEF RemovalIsComplete, Targets, Settled, Recorded, Phases, TypeOK, Makers
<1>8. (~LostAcks => UndoSparesRecorded)' BY DEF UndoSparesRecorded, Recorded, Targets, Phases, TypeOK, Table, Settled
<1> QED BY <1>1, <1>2, <1>3, <1>4, <1>5, <1>6, <1>7, <1>8

\* A lost acknowledgement writes the row and starts the compensation as well.
LEMMA SaveUnacknowledgedInv ==
    ASSUME IInv, NEW r \in Requests, SaveUnacknowledged(r)
    PROVE  IInv'
<1> USE ConstantsAssumption DEF SaveUnacknowledged, StartUndo, Insert, HasChannel, Goto, voice, locals
<1> USE DEF IInv
<1>1. TypeOK' BY DEF TypeOK, Ops, Steps, Ended, Row, Targets, Phases
<1>2. Phases' BY DEF Phases, TypeOK, Steps, Ended, Ops
<1>3. Makers' BY DEF Makers, Phases, TypeOK, Steps, Ended, Ops
<1>4. Targets' BY DEF Targets, Settled, Phases, Makers, Table, TypeOK, Steps, Ended, Ops
<1>5. Table' BY DEF Table, Targets, Phases, Makers, OneChannelPerClient, RowsAreOwnChannels, Settled, TypeOK, Row
<1>6. NoSilentOrphan' BY DEF NoSilentOrphan, Live, Recorded, Active, Makers, Targets, Phases, TypeOK, Steps
<1>7. RemovalIsComplete' BY DEF RemovalIsComplete, Targets, Settled, Recorded, Phases, TypeOK, Makers
<1>8. (~LostAcks => UndoSparesRecorded)' BY DEF UndoSparesRecorded, Recorded, Targets, Phases, TypeOK, Table, Settled
<1> QED BY <1>1, <1>2, <1>3, <1>4, <1>5, <1>6, <1>7, <1>8

\* The row goes after its channel.
LEMMA ForgetInv ==
    ASSUME IInv, NEW r \in Requests, Forget(r)
    PROVE  IInv'
<1> USE ConstantsAssumption DEF Forget, Delete, Goto, voice, locals
<1> USE DEF IInv
<1>1. TypeOK' BY DEF TypeOK, Ops, Steps, Ended, Row, Targets, Phases
<1>2. Phases' BY DEF Phases, TypeOK, Steps, Ended, Ops
<1>3. Makers' BY DEF Makers, Phases, TypeOK, Steps, Ended, Ops
<1>4. Targets' BY DEF Targets, Settled, Phases, Makers, Table, TypeOK, Steps, Ended, Ops
<1>5. Table' BY DEF Table, Targets, Phases, Makers, OneChannelPerClient, RowsAreOwnChannels, Settled, TypeOK, Row
<1>6. NoSilentOrphan' BY DEF NoSilentOrphan, Live, Recorded, Active, Makers, Targets, Phases, TypeOK, Steps
<1>7. RemovalIsComplete' BY DEF RemovalIsComplete, Targets, Settled, Recorded, Phases, TypeOK, Makers
<1>8. (~LostAcks => UndoSparesRecorded)' BY DEF UndoSparesRecorded, Recorded, Targets, Phases, TypeOK, Table, Settled
<1> QED BY <1>1, <1>2, <1>3, <1>4, <1>5, <1>6, <1>7, <1>8

\* A deletion whose transaction is rolled back keeps the row.
LEMMA ForgetFailsInv ==
    ASSUME IInv, NEW r \in Requests, ForgetFails(r)
    PROVE  IInv'
<1> USE ConstantsAssumption DEF ForgetFails, Delete, Goto, voice, locals
<1> USE DEF IInv
<1>1. TypeOK' BY DEF TypeOK, Ops, Steps, Ended, Row, Targets, Phases
<1>2. Phases' BY DEF Phases, TypeOK, Steps, Ended, Ops
<1>3. Makers' BY DEF Makers, Phases, TypeOK, Steps, Ended, Ops
<1>4. Targets' BY DEF Targets, Settled, Phases, Makers, Table, TypeOK, Steps, Ended, Ops
<1>5. Table' BY DEF Table, Targets, Phases, Makers, OneChannelPerClient, RowsAreOwnChannels, Settled, TypeOK, Row
<1>6. NoSilentOrphan' BY DEF NoSilentOrphan, Live, Recorded, Active, Makers, Targets, Phases, TypeOK, Steps
<1>7. RemovalIsComplete' BY DEF RemovalIsComplete, Targets, Settled, Recorded, Phases, TypeOK, Makers
<1>8. (~LostAcks => UndoSparesRecorded)' BY DEF UndoSparesRecorded, Recorded, Targets, Phases, TypeOK, Table, Settled
<1> QED BY <1>1, <1>2, <1>3, <1>4, <1>5, <1>6, <1>7, <1>8

\* A new channel gets a fresh id, and its maker used up its message.
LEMMA BotCreatesInv ==
    ASSUME IInv, NEW r \in Requests, NEW t \in TsIds, BotCreates(r, t)
    PROVE  IInv'
<1> USE ConstantsAssumption DEF BotCreates, Answer, voice, locals
<1> USE DEF IInv
<1>1. TypeOK' BY DEF TypeOK, Ops, Steps, Ended, Row, Targets, Phases
<1>2. Phases' BY DEF Phases, TypeOK, Steps, Ended, Ops
<1>3. Makers' BY DEF Makers, Phases, TypeOK, Steps, Ended, Ops
<1>4. Targets' BY DEF Targets, Settled, Phases, Makers, Table, TypeOK, Steps, Ended, Ops
<1>5. Table' BY DEF Table, Targets, Phases, Makers, OneChannelPerClient, RowsAreOwnChannels, Settled, TypeOK, Row
<1>6. NoSilentOrphan' BY DEF NoSilentOrphan, Live, Recorded, Active, Makers, Targets, Phases, TypeOK, Steps
<1>7. RemovalIsComplete' BY DEF RemovalIsComplete, Targets, Settled, Recorded, Phases, TypeOK, Makers
<1>8. (~LostAcks => UndoSparesRecorded)' BY DEF UndoSparesRecorded, Recorded, Targets, Phases, TypeOK, Table, Settled
<1> QED BY <1>1, <1>2, <1>3, <1>4, <1>5, <1>6, <1>7, <1>8

\* The bot deletes the channel of the message; a compensation's is unrecorded.
LEMMA BotDeletesInv ==
    ASSUME IInv, NEW r \in Requests, BotDeletes(r)
    PROVE  IInv'
<1> USE ConstantsAssumption DEF BotDeletes, Kill, Answer, voice, locals
<1> USE DEF IInv
<1>1. TypeOK' BY DEF TypeOK, Ops, Steps, Ended, Row, Targets, Phases
<1>2. Phases' BY DEF Phases, TypeOK, Steps, Ended, Ops
<1>3. Makers'
  <2>1. tgt[r] \in TsIds /\ maker[tgt[r]] # None BY DEF Targets, Settled
  <2> QED BY <2>1 DEF Makers, TypeOK
<1>4. Targets' BY DEF Targets, Settled, Phases, Makers, Table, TypeOK, Steps, Ended, Ops
<1>5. Table' BY DEF Table, Targets, Phases, Makers, OneChannelPerClient, RowsAreOwnChannels, Settled, TypeOK, Row
<1>6. NoSilentOrphan' BY DEF NoSilentOrphan, Live, Recorded, Active, Makers, Targets, Phases, TypeOK, Steps
<1>7. RemovalIsComplete' BY DEF RemovalIsComplete, Targets, Settled, Recorded, Phases, TypeOK, Makers
<1>8. (~LostAcks => UndoSparesRecorded)' BY DEF UndoSparesRecorded, Recorded, Targets, Phases, TypeOK, Table, Settled
<1> QED BY <1>1, <1>2, <1>3, <1>4, <1>5, <1>6, <1>7, <1>8

\* People on the voice server may delete or move any channel.
LEMMA OutsideInv ==
    ASSUME IInv, Outside
    PROVE  IInv'
<1> USE ConstantsAssumption DEF Outside, OutsiderDeletes, OutsiderMoves, Kill, Live, voice, locals
<1> USE DEF IInv
<1>1. TypeOK' BY DEF TypeOK, Ops, Steps, Ended, Row, Targets, Phases
<1>2. Phases' BY DEF Phases, TypeOK, Steps, Ended, Ops
<1>3. Makers' BY DEF Makers, Phases, TypeOK, Steps, Ended, Ops
<1>4. Targets' BY DEF Targets, Settled, Phases, Makers, Table, TypeOK, Steps, Ended, Ops
<1>5. Table' BY DEF Table, Targets, Phases, Makers, OneChannelPerClient, RowsAreOwnChannels, Settled, TypeOK, Row
<1>6. NoSilentOrphan' BY DEF NoSilentOrphan, Live, Recorded, Active, Makers, Targets, Phases, TypeOK, Steps
<1>7. RemovalIsComplete' BY DEF RemovalIsComplete, Targets, Settled, Recorded, Phases, TypeOK, Makers
<1>8. (~LostAcks => UndoSparesRecorded)' BY DEF UndoSparesRecorded, Recorded, Targets, Phases, TypeOK, Table, Settled
<1> QED BY <1>1, <1>2, <1>3, <1>4, <1>5, <1>6, <1>7, <1>8

\* A crash ends every request, and what it had sent stays under way.
LEMMA CrashInv ==
    ASSUME IInv, Crash
    PROVE  IInv'
<1> USE ConstantsAssumption DEF Crash, Active, voice, locals
<1> USE DEF IInv
<1>1. TypeOK' BY DEF TypeOK, Ops, Steps, Ended, Row, Targets, Phases
<1>2. Phases' BY DEF Phases, TypeOK, Steps, Ended, Ops
<1>3. Makers' BY DEF Makers, Phases, TypeOK, Steps, Ended, Ops
<1>4. Targets' BY DEF Targets, Settled, Phases, Makers, Table, TypeOK, Steps, Ended, Ops
<1>5. Table' BY DEF Table, Targets, Phases, Makers, OneChannelPerClient, RowsAreOwnChannels, Settled, TypeOK, Row, Steps, Active, Ended
<1>6. NoSilentOrphan' BY DEF NoSilentOrphan, Live, Recorded, Active, Makers, Targets, Phases, TypeOK, Steps
<1>7. RemovalIsComplete' BY DEF RemovalIsComplete, Targets, Settled, Recorded, Phases, TypeOK, Makers
<1>8. (~LostAcks => UndoSparesRecorded)' BY DEF UndoSparesRecorded, Recorded, Targets, Phases, TypeOK, Table, Settled
<1> QED BY <1>1, <1>2, <1>3, <1>4, <1>5, <1>6, <1>7, <1>8

\* A step that changes nothing.
LEMMA StutterInv ==
    ASSUME IInv, UNCHANGED vars
    PROVE  IInv'
<1> USE ConstantsAssumption DEF vars, voice, locals, Active, Live
<1> USE DEF IInv
<1>1. TypeOK' BY DEF TypeOK, Ops, Steps, Ended, Row, Targets, Phases
<1>2. Phases' BY DEF Phases, TypeOK, Steps, Ended, Ops
<1>3. Makers' BY DEF Makers, Phases, TypeOK, Steps, Ended, Ops
<1>4. Targets' BY DEF Targets, Settled, Phases, Makers, Table, TypeOK, Steps, Ended, Ops
<1>5. Table' BY DEF Table, Targets, Phases, Makers, OneChannelPerClient, RowsAreOwnChannels, Settled, TypeOK, Row
<1>6. NoSilentOrphan' BY DEF NoSilentOrphan, Live, Recorded, Active, Makers, Targets, Phases, TypeOK, Steps
<1>7. RemovalIsComplete' BY DEF RemovalIsComplete, Targets, Settled, Recorded, Phases, TypeOK, Makers
<1>8. (~LostAcks => UndoSparesRecorded)' BY DEF UndoSparesRecorded, Recorded, Targets, Phases, TypeOK, Table, Settled
<1> QED BY <1>1, <1>2, <1>3, <1>4, <1>5, <1>6, <1>7, <1>8

-----------------------------------------------------------------------------
\* Every step of the system keeps the invariant.
LEMMA NextInv == ASSUME IInv, [Next]_vars PROVE IInv'
<1>1. ASSUME NEW r \in Requests, Begin(r) PROVE IInv'
  BY <1>1, BeginCreateInv, BeginRemoveInv, BeginAddSubInv DEF Begin
<1>2. ASSUME NEW r \in Requests, Handle(r) PROVE IInv'
  <2>1. CASE CheckHasChannel(r) BY <2>1, CheckHasChannelInv
  <2>2. CASE SendCreate(r) BY <2>2, SendCreateInv
  <2>3. CASE RefuseCreate(r) BY <2>3, RefuseCreateInv
  <2>4. CASE GotChannel(r) BY <2>4, GotChannelInv
  <2>5. CASE Save(r) BY <2>5, SaveInv
  <2>6. CASE SaveFails(r) BY <2>6, SaveFailsInv
  <2>7. CASE SaveUnacknowledged(r) BY <2>7, SaveUnacknowledgedInv
  <2>8. CASE Locate(r) BY <2>8, LocateInv
  <2>9. CASE LocateFails(r) BY <2>9, LocateFailsInv
  <2>10. CASE SendDelete(r) BY <2>10, SendDeleteInv
  <2>11. CASE GotDeleted(r) BY <2>11, GotDeletedInv
  <2>12. CASE Forget(r) BY <2>12, ForgetInv
  <2>13. CASE ForgetFails(r) BY <2>13, ForgetFailsInv
  <2>14. CASE CountSubs(r) BY <2>14, CountSubsInv
  <2>15. CASE FindZone(r) BY <2>15, FindZoneInv
  <2>16. CASE RefuseAddSub(r) BY <2>16, RefuseAddSubInv
  <2>17. CASE SendAddSub(r) BY <2>17, SendAddSubInv
  <2>18. CASE GotSubs(r) BY <2>18, GotSubsInv
  <2>19. CASE GiveUp(r) BY <2>19, GiveUpInv
  <2> QED BY <1>2, <2>1, <2>2, <2>3, <2>4, <2>5, <2>6, <2>7, <2>8, <2>9, <2>10, <2>11, <2>12, <2>13, <2>14, <2>15, <2>16, <2>17, <2>18, <2>19 DEF Handle
<1>3. ASSUME NEW r \in Requests, Bot(r) PROVE IInv'
  BY <1>3, LoseInv, BotFailsInv, BotDeletesInv, BotAddsSubsInv, BotRemovesSubInv, BotCreatesInv DEF Bot
<1>4. CASE Outside BY <1>4, OutsideInv
<1>5. CASE Crash BY <1>5, CrashInv
<1>6. CASE AllEnded \/ UNCHANGED vars BY <1>6, StutterInv DEF AllEnded
<1> QED BY <1>1, <1>2, <1>3, <1>4, <1>5, <1>6 DEF Next

\* The invariant holds throughout.
THEOREM Invariance == Spec => []IInv
<1>1. Init => IInv BY InitInv
<1>2. IInv /\ [Next]_vars => IInv' BY NextInv
<1> QED BY <1>1, <1>2, PTL DEF Spec

\* Every variable keeps its type, for any number of requests, clients and ids.
THEOREM TypeCorrect == Spec => []TypeOK
<1>1. IInv => TypeOK BY DEF IInv
<1> QED BY <1>1, Invariance, PTL

\* The unique index does what the check before the bot call cannot: one row per
\* client, however many creations of the client run at once.
THEOREM TableCorrect == Spec => []OneChannelPerClient
<1>1. IInv => OneChannelPerClient BY DEF IInv, Table
<1> QED BY <1>1, Invariance, PTL

\* Answers are never mixed up: a row names a channel that a creation for that very
\* client made, and no channel has two rows.
THEOREM RowsNameOwnChannels == Spec => []RowsAreOwnChannels
<1>1. IInv => RowsAreOwnChannels BY DEF IInv, Table
<1> QED BY <1>1, Invariance, PTL

\* createChannel never leaves a live channel without a row behind a request
\* that ended well.
THEOREM OrphansAreReported == Spec => []NoSilentOrphan
<1>1. IInv => NoSilentOrphan BY DEF IInv
<1> QED BY <1>1, Invariance, PTL

\* A finished deleteChannel left neither the channel nor the row.
THEOREM RemovalCorrect == Spec => []RemovalIsComplete
<1>1. IInv => RemovalIsComplete BY DEF IInv
<1> QED BY <1>1, Invariance, PTL

\* If an error of the database means that the row was not written, then the
\* compensation in createChannel only ever deletes unrecorded channels.
THEOREM CompensationIsSafe == ASSUME ~LostAcks PROVE Spec => []UndoSparesRecorded
<1>1. IInv => UndoSparesRecorded BY DEF IInv
<1> QED BY <1>1, Invariance, PTL

\* No step takes a row away while its channel is alive.
THEOREM RowsOutliveChannels == Spec => RowOutlivesChannel
<1>1. ASSUME IInv, [Next]_vars
      PROVE  \A row \in rows : row \notin rows' => chan[row.ts] = "gone"
  <2> SUFFICES ASSUME NEW row \in rows, row \notin rows'
               PROVE  chan[row.ts] = "gone"
    OBVIOUS
  <2>1. \E r \in Requests : Forget(r) \/ ForgetFails(r)
    BY <1>1 DEF Next, Begin, BeginCreate, BeginRemove, BeginAddSub, Handle,
      CheckHasChannel, SendCreate, RefuseCreate, GotChannel, Save, SaveFails,
      SaveUnacknowledged, Locate, LocateFails, SendDelete, GotDeleted, CountSubs,
      FindZone, RefuseAddSub, SendAddSub, GotSubs, GiveUp, Insert, Bot, Lose,
      BotFails, BotDeletes, BotAddsSubs, BotRemovesSub, BotCreates, Outside,
      OutsiderDeletes, OutsiderMoves, Crash, AllEnded, vars
  <2>2. PICK r \in Requests : Forget(r) \/ ForgetFails(r) BY <2>1
  <2>3. row.ts = tgt[r] BY <2>2 DEF Forget, ForgetFails, Delete
  <2>4. pc[r] = "forgetting" BY <2>2 DEF Forget, ForgetFails
  <2> QED BY <1>1, <2>3, <2>4 DEF IInv, Targets, Phases
<1> QED BY <1>1, Invariance, PTL DEF Spec, RowOutlivesChannel

-----------------------------------------------------------------------------
(* allowedSubChannels.  A count may be stale when the message that relied on it
   is taken, but only if somebody else was let through in between: Adders only
   grows, so as long as it has at most one member nobody was.                *)

Lone(t) == \A q, r \in Adders(t) : q = r

\* Only createSubChannel counts, and a creation never asks for too many.
AskedFits ==
    \A r \in Requests :
        /\ seen[r] # None => op[r] = "addSub"
        /\ wire[r] = "out" /\ op[r] = "create" => asked[r] <= Allowed

\* Before anybody is let through for t, a count is still an upper bound; with one
\* request let through, what it has under way still fits.
RoomLeft(t) ==
    /\ Adders(t) = {} =>
         \A r \in Requests :
             op[r] = "addSub" /\ tgt[r] = t /\ pc[r] = "surveying" /\ seen[r] # None
               => subs[t] <= seen[r]
    /\ Lone(t) => /\ subs[t] <= Allowed
                  /\ \A r \in Adders(t) : wire[r] = "out" => subs[t] + asked[r] <= Allowed

SubsInv == AskedFits /\ \A t \in TsIds : RoomLeft(t)

\* What a step that lets nobody through and makes and adds no channel does.
Unadding ==
    /\ \A t \in TsIds : subs'[t] <= subs[t]
    /\ \A r \in Requests :
         /\ op[r] = "addSub" =>
              /\ op'[r] = "addSub" /\ tgt'[r] = tgt[r] /\ asked'[r] = asked[r]
              /\ seen'[r] = seen[r]
              /\ pc[r] = "surveying" \/ pc'[r] \notin {"surveying", "refused"} \/ pc'[r] = pc[r]
              /\ pc[r] = "surveying" =>
                   pc'[r] \in {"surveying", "refused", "crashed"} /\ wire'[r] # "out"
         /\ op[r] # "addSub" /\ op'[r] = "addSub" => pc'[r] = "surveying"
         /\ seen'[r] # None => seen[r] # None
         /\ wire'[r] = "out" => wire[r] = "out" \/ op[r] \in {"remove", "undo", "removeSub"}
         /\ wire'[r] = "out" /\ op'[r] = "create" => op[r] = "create" /\ asked'[r] = asked[r]

\* Nobody leaves the requests that were let through.
LEMMA AddersGrow ==
    ASSUME TypeOK, NEW t \in TsIds,
           \A r \in Requests : op[r] = "addSub" =>
               op'[r] = "addSub" /\ tgt'[r] = tgt[r]
               /\ (pc[r] \notin {"surveying", "refused"} =>
                     pc'[r] \notin {"surveying", "refused"})
    PROVE  Adders(t) \subseteq Adders(t)' /\ (Lone(t)' => Lone(t))
BY DEF Adders, Lone

\* Such a step leaves as much room as there was.
LEMMA UnaddingInv == ASSUME IInv, SubsInv, Unadding, TypeOK' PROVE SubsInv'
<1> USE ConstantsAssumption DEF IInv
<1>1. AskedFits' BY DEF SubsInv, AskedFits, Unadding
<1>2. ASSUME NEW t \in TsIds PROVE RoomLeft(t)'
  <2>1. Adders(t) \subseteq Adders(t)' /\ (Lone(t)' => Lone(t))
    BY AddersGrow DEF Unadding
  <2>2. subs'[t] <= subs[t] /\ subs[t] \in Nat /\ subs'[t] \in Nat
    BY DEF Unadding, TypeOK
  <2>3. ASSUME Adders(t)' = {}, NEW r \in Requests,
               (op[r] = "addSub" /\ tgt[r] = t /\ pc[r] = "surveying" /\ seen[r] # None)'
        PROVE  subs'[t] <= seen'[r]
    <3>1. Adders(t) = {} BY <2>1, <2>3
    <3>2. seen[r] # None /\ op[r] = "addSub" BY <2>3 DEF Unadding, SubsInv, AskedFits
    <3>3. tgt[r] = t /\ seen'[r] = seen[r] /\ seen[r] \in Nat
      BY <2>3, <3>2 DEF Unadding, TypeOK
    <3>4. pc[r] = "surveying" BY <2>3, <3>1, <3>2, <3>3 DEF Adders, Unadding
    <3>5. subs[t] <= seen[r] BY <3>1, <3>2, <3>3, <3>4 DEF SubsInv, RoomLeft
    <3> QED BY <2>2, <3>3, <3>5
  <2>4. ASSUME Lone(t)' PROVE subs'[t] <= Allowed
    BY <2>1, <2>2, <2>4 DEF SubsInv, RoomLeft
  <2>5. ASSUME Lone(t)', NEW r \in Requests, r \in Adders(t)', wire'[r] = "out"
        PROVE  subs'[t] + asked'[r] <= Allowed
    <3>1. op[r] = "addSub" /\ pc[r] # "surveying" /\ wire[r] = "out"
      BY <2>5 DEF Unadding, Adders
    <3>2. r \in Adders(t) /\ asked'[r] = asked[r]
      BY <2>5, <3>1 DEF Unadding, Adders, Phases
    <3>3. subs[t] + asked[r] <= Allowed
      BY <2>1, <2>5, <3>1, <3>2 DEF SubsInv, RoomLeft
    <3>4. asked[r] \in Nat BY DEF TypeOK
    <3> QED BY <2>2, <3>2, <3>3, <3>4
  <2>6. Adders(t)' \subseteq Requests BY DEF Adders
  <2> QED BY <2>3, <2>4, <2>5, <2>6 DEF RoomLeft
<1> QED BY <1>1, <1>2 DEF SubsInv

\* A step of createChannel or deleteChannel, of the outside world or a lost
\* message makes no sub channel.
LEMMA OthersUnadding ==
    ASSUME IInv, [Next]_vars,
           ~ \E r \in Requests : SendCreate(r) \/ CountSubs(r) \/ SendAddSub(r)
                                 \/ BotAddsSubs(r) \/ \E t \in TsIds : BotCreates(r, t)
    PROVE  Unadding
<1> USE ConstantsAssumption DEF IInv, voice, locals, Goto
<1>1. ASSUME NEW r \in Requests, Begin(r) PROVE Unadding
  <2>1. pc[r] = "idle" /\ op[r] = "none" /\ wire[r] = "none" /\ seen' = seen /\ subs' = subs
    BY <1>1 DEF Begin, BeginCreate, BeginRemove, BeginAddSub, Phases
  <2>2. /\ wire' = wire
        /\ op'[r] = "addSub" => pc'[r] = "surveying"
        /\ \A q \in Requests \ {r} : op'[q] = op[q] /\ tgt'[q] = tgt[q]
             /\ asked'[q] = asked[q] /\ pc'[q] = pc[q]
    BY <1>1 DEF Begin, BeginCreate, BeginRemove, BeginAddSub, TypeOK
  <2> QED BY <2>1, <2>2 DEF Unadding, TypeOK, Phases
<1>2. ASSUME NEW r \in Requests,
             \/ CheckHasChannel(r) \/ RefuseCreate(r) \/ GotChannel(r) \/ Save(r)
             \/ SaveFails(r) \/ SaveUnacknowledged(r) \/ Locate(r) \/ LocateFails(r)
             \/ SendDelete(r) \/ GotDeleted(r) \/ Forget(r) \/ ForgetFails(r)
      PROVE  Unadding
  <2>1. op[r] # "addSub" /\ op'[r] # "addSub" /\ UNCHANGED <<subs, asked, seen>>
    BY <1>2 DEF CheckHasChannel, RefuseCreate, GotChannel, Save, SaveFails, StartUndo,
      SaveUnacknowledged, Locate, LocateFails, SendDelete, Send, GotDeleted, Forget,
      ForgetFails, Phases, TypeOK
  <2>2. \A q \in Requests \ {r} :
          op'[q] = op[q] /\ tgt'[q] = tgt[q] /\ pc'[q] = pc[q] /\ wire'[q] = wire[q]
    BY <1>2 DEF CheckHasChannel, RefuseCreate, GotChannel, Save, SaveFails, StartUndo,
      SaveUnacknowledged, Locate, LocateFails, SendDelete, Send, GotDeleted, Forget,
      ForgetFails, TypeOK
  <2>3. /\ wire'[r] = "out" => wire[r] = "out" \/ op[r] \in {"remove", "undo", "removeSub"}
        /\ op'[r] = "create" => op[r] = "create"
    BY <1>2 DEF CheckHasChannel, RefuseCreate, GotChannel, Save, SaveFails, StartUndo,
      SaveUnacknowledged, Locate, LocateFails, SendDelete, Send, GotDeleted, Forget,
      ForgetFails, TypeOK, Phases
  <2> QED BY <2>1, <2>2, <2>3 DEF Unadding, TypeOK, Phases
<1>3. ASSUME NEW r \in Requests,
             \/ FindZone(r) \/ RefuseAddSub(r) \/ GotSubs(r) \/ GiveUp(r)
             \/ Lose(r) \/ BotFails(r)
      PROVE  Unadding
  BY <1>3 DEF FindZone, RefuseAddSub, GotSubs, GiveUp, Lose, BotFails, Answer, Unadding,
    TypeOK, Phases
<1>4. ASSUME NEW r \in Requests, BotDeletes(r) \/ BotRemovesSub(r) PROVE Unadding
  <2>1. tgt[r] \in TsIds BY <1>4 DEF BotDeletes, BotRemovesSub, Targets
  <2>2. \A t \in TsIds : subs'[t] <= subs[t]
    BY <1>4, <2>1 DEF BotDeletes, BotRemovesSub, Kill, TypeOK
  <2> QED BY <1>4, <2>2 DEF BotDeletes, BotRemovesSub, Kill, Answer, Unadding, TypeOK, Phases
<1>5. ASSUME NEW t \in TsIds, OutsiderDeletes(t) \/ OutsiderMoves(t) PROVE Unadding
  BY <1>5 DEF OutsiderDeletes, OutsiderMoves, Kill, Unadding, TypeOK, Phases
<1>6. CASE Crash BY <1>6 DEF Crash, Unadding, TypeOK, Phases, Active, Steps
<1>7. CASE AllEnded \/ UNCHANGED vars BY <1>7 DEF AllEnded, vars, Unadding, TypeOK, Phases
<1> QED BY <1>1, <1>2, <1>3, <1>4, <1>5, <1>6, <1>7 DEF Next, Handle, Bot, Outside

\* createUserChannel refuses more sub channels than the zone allows.
LEMMA SendCreateSubs ==
    ASSUME IInv, SubsInv, NEW r \in Requests, SendCreate(r) PROVE SubsInv'
<1> USE ConstantsAssumption DEF IInv, SendCreate, Send, Goto, voice, locals
<1>1. op[r] = "create" BY DEF Phases
<1>2. AskedFits' BY <1>1 DEF SubsInv, AskedFits, TypeOK
<1>3. ASSUME NEW t \in TsIds PROVE RoomLeft(t)'
  <2>1. Adders(t)' = Adders(t) BY <1>1 DEF Adders, TypeOK
  <2>2. \A q \in Adders(t) : wire'[q] = wire[q] BY <1>1 DEF Adders, TypeOK
  <2> QED BY <1>1, <2>1, <2>2 DEF SubsInv, RoomLeft, Lone, TypeOK
<1> QED BY <1>2, <1>3 DEF SubsInv

\* The count is the number of sub channels at that moment.
LEMMA CountSubsSubs ==
    ASSUME IInv, SubsInv, NEW r \in Requests, CountSubs(r) PROVE SubsInv'
<1> USE ConstantsAssumption DEF IInv, CountSubs, voice
<1>1. op[r] = "addSub" /\ tgt[r] \in TsIds BY DEF Phases, Targets
<1>2. AskedFits' BY <1>1 DEF SubsInv, AskedFits, TypeOK
<1>3. ASSUME NEW t \in TsIds PROVE RoomLeft(t)'
  <2>1. Adders(t)' = Adders(t) BY DEF Adders
  <2>2. \A q \in Requests : seen'[q] = IF q = r THEN subs[tgt[r]] ELSE seen[q]
    BY DEF TypeOK
  <2> QED BY <1>1, <2>1, <2>2 DEF SubsInv, RoomLeft, Lone, TypeOK
<1> QED BY <1>2, <1>3 DEF SubsInv

\* createUserSubChannel lets a request through on its own count: if it is the only
\* one so far, the count is good.
LEMMA SendAddSubSubs ==
    ASSUME IInv, SubsInv, NEW r \in Requests, SendAddSub(r) PROVE SubsInv'
<1> USE ConstantsAssumption DEF IInv, SendAddSub, Send, Goto, voice, locals
<1>1. op[r] = "addSub" /\ seen[r] \in Nat BY DEF Phases, TypeOK
<1>2. AskedFits' BY <1>1 DEF SubsInv, AskedFits, TypeOK
<1>3. ASSUME NEW t \in TsIds PROVE RoomLeft(t)'
  <2>1. Adders(t)' = Adders(t) \cup (IF tgt[r] = t THEN {r} ELSE {})
    BY <1>1 DEF Adders, TypeOK
  <2>2. Lone(t)' => Lone(t) BY <2>1 DEF Lone
  <2>3. \A q \in Requests \ {r} : pc'[q] = pc[q] /\ wire'[q] = wire[q] BY DEF TypeOK
  <2>4. CASE tgt[r] # t BY <2>1, <2>2, <2>3, <2>4 DEF SubsInv, RoomLeft, Adders, TypeOK
  <2>5. ASSUME tgt[r] = t, Lone(t)'
        PROVE  subs[t] <= Allowed /\ subs[t] + asked[r] <= Allowed /\ Adders(t)' = {r}
    <3>1. Adders(t)' = {r} BY <2>1, <2>5 DEF Lone
    <3>2. Adders(t) = {} BY <2>1, <3>1 DEF Adders
    <3>3. subs[t] <= seen[r] BY <1>1, <2>5, <3>2 DEF SubsInv, RoomLeft
    <3>4. asked[r] \in Nat /\ subs[t] \in Nat BY DEF TypeOK
    <3> QED BY <1>1, <3>1, <3>3, <3>4
  <2>6. CASE tgt[r] = t BY <2>1, <2>5, <2>6 DEF RoomLeft
  <2> QED BY <2>4, <2>6
<1> QED BY <1>2, <1>3 DEF SubsInv

\* The bot adds what was asked for, and the message is used up.
LEMMA BotAddsSubsSubs ==
    ASSUME IInv, SubsInv, NEW r \in Requests, BotAddsSubs(r) PROVE SubsInv'
<1> USE ConstantsAssumption DEF IInv, BotAddsSubs, Answer, locals
<1>1. pc[r] \in {"waiting", "failed", "crashed"} /\ tgt[r] \in TsIds
  BY DEF Phases, Targets
<1>2. /\ wire'[r] # "out"
      /\ \A q \in Requests \ {r} : wire'[q] = wire[q]
      /\ \A t \in TsIds : subs'[t] = IF t = tgt[r] THEN subs[t] + asked[r] ELSE subs[t]
  BY <1>1 DEF TypeOK
<1>3. AskedFits' BY <1>2 DEF SubsInv, AskedFits
<1>4. ASSUME NEW t \in TsIds PROVE RoomLeft(t)'
  <2>1. Adders(t)' = Adders(t) /\ (tgt[r] = t => r \in Adders(t)) BY <1>1 DEF Adders
  <2>2. CASE tgt[r] # t BY <1>2, <2>1, <2>2 DEF SubsInv, RoomLeft, Lone
  <2>3. CASE tgt[r] = t
    <3>1. Lone(t) => subs[t] + asked[r] <= Allowed /\ Adders(t) = {r}
      BY <2>1, <2>3 DEF SubsInv, RoomLeft, Lone
    <3> QED BY <1>2, <2>1, <2>3, <3>1 DEF RoomLeft, Lone
  <2> QED BY <2>2, <2>3
<1> QED BY <1>3, <1>4 DEF SubsInv

\* A channel is born with the sub channels asked for, and unknown to everybody.
LEMMA BotCreatesSubs ==
    ASSUME IInv, SubsInv, NEW r \in Requests, NEW t \in TsIds, BotCreates(r, t)
    PROVE  SubsInv'
<1> USE ConstantsAssumption DEF IInv, BotCreates, Answer, locals
<1>1. AskedFits' BY DEF SubsInv, AskedFits, TypeOK
<1>2. asked[r] <= Allowed BY DEF SubsInv, AskedFits
<1>3. \A q \in Requests : op[q] = "addSub" => tgt[q] # t /\ q # r
  BY DEF Targets, Settled, Makers
<1>4. ASSUME NEW u \in TsIds PROVE RoomLeft(u)'
  <2>1. Adders(u)' = Adders(u) BY DEF Adders
  <2>2. \A q \in Adders(u) : wire'[q] = wire[q] BY <1>3 DEF Adders, TypeOK
  <2>3. subs'[u] = IF u = t THEN asked[r] ELSE subs[u] BY DEF TypeOK
  <2>4. CASE u # t
    BY <1>3, <2>1, <2>2, <2>3, <2>4 DEF SubsInv, RoomLeft, Lone
  <2>5. CASE u = t
    <3>1. Adders(u) = {} BY <1>3, <2>5 DEF Adders
    <3> QED BY <1>2, <1>3, <2>1, <2>3, <2>5, <3>1 DEF RoomLeft
  <2> QED BY <2>4, <2>5
<1> QED BY <1>1, <1>4 DEF SubsInv

\* Together: nothing counted, nothing under way, no channel at first; then each step.
LEMMA SubsInvariant == Spec => []SubsInv
<1>1. Init => SubsInv
  <2> SUFFICES ASSUME Init PROVE SubsInv OBVIOUS
  <2> QED BY ConstantsAssumption DEF Init, SubsInv, AskedFits, RoomLeft, Adders
<1>2. IInv /\ SubsInv /\ IInv' /\ [Next]_vars => SubsInv'
  <2>1. IInv' => TypeOK' BY DEF IInv
  <2> QED BY <2>1, OthersUnadding, UnaddingInv, SendCreateSubs, CountSubsSubs,
       SendAddSubSubs, BotAddsSubsSubs, BotCreatesSubs
<1> QED BY <1>1, <1>2, Invariance, PTL DEF Spec

\* It takes two requests to exceed allowedSubChannels: as long as at most one
\* createSubChannel was let through for a channel, the limit holds, however late
\* the bot is, whatever dies and whatever the limit.
THEOREM OneAdderCannotExceed == Spec => []OneAdderKeepsLimit
<1>1. SubsInv => OneAdderKeepsLimit BY DEF SubsInv, RoomLeft, Lone, OneAdderKeepsLimit
<1> QED BY <1>1, SubsInvariant, PTL

-----------------------------------------------------------------------------
(* The ledger.  Its madeFor is computed from maker and who, so a step changes
   it only where it makes a channel.                                         *)

MadeFor == [t \in TsIds |-> IF maker[t] = None THEN None ELSE who[maker[t]]]
Gone    == {t \in TsIds : chan[t] = "gone"}

\* The abstract view of a channel's client depends on its maker alone.
LEMMA SameMadeFor ==
    ASSUME UNCHANGED <<maker, who>> PROVE MadeFor' = MadeFor
BY DEF MadeFor

\* A channel that exists was made for a client.
LEMMA MadeForKnown ==
    ASSUME IInv, NEW t \in TsIds, maker[t] # None
    PROVE  MadeFor[t] = who[maker[t]] /\ MadeFor[t] # None
BY ConstantsAssumption DEF IInv, Makers, MadeFor

\* Every step of the handlers is a step of the ledger or leaves its view alone.
LEMMA LedgerStep ==
    ASSUME IInv, [Next]_vars
    PROVE  [Ledger!Next]_(Ledger!lvars)
<1> USE DEF Ledger!Next, Ledger!lvars
<1>a. MadeFor = [t \in TsIds |-> IF maker[t] = None THEN None ELSE who[maker[t]]]
      /\ Gone = {t \in TsIds : chan[t] = "gone"}
  BY DEF MadeFor, Gone
<1>1. CASE UNCHANGED <<rows, chan, maker, who>> BY <1>1
<1>2. ASSUME NEW r \in Requests, NEW c \in Clients, NEW n \in 0..MaxAsked,
             BeginCreate(r, c, n)
      PROVE  UNCHANGED Ledger!lvars
  <2>1. \A t \in TsIds : maker[t] # r
    BY <1>2, ConstantsAssumption DEF IInv, Makers, BeginCreate
  <2>2. \A t \in TsIds : maker[t] # None => who'[maker[t]] = who[maker[t]]
    BY <1>2, <2>1 DEF BeginCreate, IInv, TypeOK
  <2> QED BY <1>2, <2>2 DEF BeginCreate, voice
<1>3. ASSUME NEW r \in Requests, Save(r) \/ SaveUnacknowledged(r)
      PROVE  Ledger!Next
  <2>1. tgt[r] \in TsIds /\ maker[tgt[r]] = r /\ op[r] = "create"
    BY <1>3 DEF Save, SaveUnacknowledged, IInv, Targets, Phases
  <2>2. MadeFor[tgt[r]] = who[r] /\ MadeFor[tgt[r]] # None
    BY <2>1, MadeForKnown, ConstantsAssumption
  <2>3. \A row \in rows : row.client # who[r] /\ row.ts # tgt[r]
    BY <1>3, <2>1 DEF Save, SaveUnacknowledged, HasChannel, IInv, Table,
      RowsAreOwnChannels
  <2>4. Ledger!Record(tgt[r])
    BY <1>3, <1>a, <2>1, <2>2, <2>3
    DEF Ledger!Record, Save, SaveUnacknowledged, Insert, voice, locals
  <2> QED BY <2>1, <2>4
<1>4. ASSUME NEW r \in Requests, Forget(r) \/ ForgetFails(r)
      PROVE  [Ledger!Next]_(Ledger!lvars)
  <2>1. tgt[r] \in Gone
    BY <1>4 DEF Forget, ForgetFails, IInv, Targets, Phases, Gone
  <2>2. CASE rows' = rows
    BY <1>4, <2>2 DEF Forget, ForgetFails, voice, locals
  <2>3. CASE rows' # rows
    <3>1. Delete(r) BY <1>4, <2>3 DEF Forget, ForgetFails
    <3>2. PICK row \in rows : row.ts = tgt[r] BY <2>3, <3>1 DEF Delete
    <3>3. \A x \in rows : x.ts = tgt[r] => x = row
      BY <3>2 DEF IInv, Table, RowsAreOwnChannels
    <3>4. rows' = rows \ {row} BY <3>1, <3>2, <3>3 DEF Delete
    <3>5. Ledger!Strike(row)
      BY <1>4, <2>1, <3>2, <3>4 DEF Ledger!Strike, Forget, ForgetFails, voice,
        locals, Gone
    <3> QED BY <3>5
  <2> QED BY <2>2, <2>3
<1>5. ASSUME NEW r \in Requests, NEW t \in TsIds, BotCreates(r, t)
      PROVE  Ledger!Next
  <2>1. maker[t] = None BY <1>5 DEF BotCreates, IInv, Makers
  <2>2. who[r] \in Clients BY <1>5 DEF BotCreates, IInv, Phases
  <2>3. MadeFor' = [MadeFor EXCEPT ![t] = who[r]]
    BY <1>5, <2>1, ConstantsAssumption DEF BotCreates, MadeFor, locals, IInv, TypeOK
  <2>4. Gone' = Gone BY <1>5 DEF BotCreates, Gone, IInv, TypeOK
  <2>5. MadeFor[t] = None BY <2>1 DEF MadeFor
  <2>6. Ledger!Make(t, who[r])
    BY <1>5, <2>3, <2>4, <2>5 DEF Ledger!Make, BotCreates, MadeFor, Gone
  <2>7. \E c \in Clients : Ledger!Make(t, c) BY <2>2, <2>6 DEF Ledger!Make
  <2> QED BY <2>7
<1>6. ASSUME NEW t \in TsIds, maker[t] # None, Kill(t), UNCHANGED <<rows, who>>
      PROVE  Ledger!Next
  <2>1. MadeFor[t] # None BY <1>6, MadeForKnown
  <2>2. MadeFor' = MadeFor BY <1>6, SameMadeFor DEF Kill
  <2>3. Gone' = Gone \cup {t} BY <1>6 DEF Kill, Gone, IInv, TypeOK
  <2>4. Ledger!Lose(t)
    BY <1>6, <2>1, <2>2, <2>3 DEF Ledger!Lose, MadeFor, Gone
  <2> QED BY <2>4
<1>7. ASSUME NEW r \in Requests, BotDeletes(r) PROVE Ledger!Next
  <2>1. tgt[r] \in TsIds /\ maker[tgt[r]] # None
    BY <1>7, ConstantsAssumption DEF BotDeletes, IInv, Targets, Settled
  <2> QED BY <1>6, <1>7, <2>1 DEF BotDeletes, locals
<1>8. ASSUME NEW t \in TsIds, OutsiderDeletes(t) PROVE Ledger!Next
  <2>1. maker[t] # None BY <1>8 DEF OutsiderDeletes, Live, IInv, Makers
  <2> QED BY <1>6, <1>8, <2>1 DEF OutsiderDeletes, locals
<1>9. ASSUME NEW t \in TsIds, OutsiderMoves(t) PROVE UNCHANGED Ledger!lvars
  <2>1. Gone' = Gone BY <1>9 DEF OutsiderMoves, Live, Gone, IInv, TypeOK
  <2> QED BY <1>9, <2>1 DEF OutsiderMoves, locals, Gone
<1>10. ASSUME NEW r \in Requests, Begin(r) PROVE [Ledger!Next]_(Ledger!lvars)
  BY <1>1, <1>2, <1>10 DEF Begin, BeginRemove, BeginAddSub, voice
<1>11. ASSUME NEW r \in Requests, Handle(r) PROVE [Ledger!Next]_(Ledger!lvars)
  <2>1. Save(r) \/ SaveUnacknowledged(r) \/ Forget(r) \/ ForgetFails(r)
        \/ UNCHANGED <<rows, chan, maker, who>>
    BY <1>11 DEF Handle, CheckHasChannel, SendCreate, RefuseCreate, GotChannel,
      SaveFails, Locate, LocateFails, SendDelete, GotDeleted, CountSubs, FindZone,
      RefuseAddSub, SendAddSub, GotSubs, GiveUp, voice, locals
  <2> QED BY <1>1, <1>3, <1>4, <2>1
<1>12. ASSUME NEW r \in Requests, Bot(r) PROVE [Ledger!Next]_(Ledger!lvars)
  <2>1. BotDeletes(r) \/ (\E t \in TsIds : BotCreates(r, t))
        \/ UNCHANGED <<rows, chan, maker, who>>
    BY <1>12 DEF Bot, Lose, BotFails, BotAddsSubs, BotRemovesSub, voice, locals
  <2> QED BY <1>1, <1>5, <1>7, <2>1
<1>13. CASE Crash \/ AllEnded \/ UNCHANGED vars
  BY <1>1, <1>13 DEF Crash, AllEnded, vars, voice, locals
<1> QED BY <1>8, <1>9, <1>10, <1>11, <1>12, <1>13 DEF Next, Outside

\* The handlers start where the ledger starts.
LEMMA LedgerInit == Init => Ledger!Init
BY DEF Init, Ledger!Init

\* The handlers, with their interleavings, lost and late messages, database
\* errors and crashes, implement the ledger.
THEOREM LedgerImplemented == Spec => ImplementsLedger
<1> QED BY LedgerInit, LedgerStep, Invariance, PTL
        DEF Spec, ImplementsLedger, Ledger!Spec
=============================================================================
