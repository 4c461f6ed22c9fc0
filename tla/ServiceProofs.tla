----------------------------- MODULE ServiceProofs -----------------------------
(***************************************************************************)
(* What holds of Service for any events, any batches, any versions and any *)
(* number of restarts and requests: the tables replay the log, and the     *)
(* answers about quarters, missed postings and the gate are right.         *)
(*                                                                         *)
(* The reason is that everything a request remembers is final: what it     *)
(* read lies behind the cursor of its actor, the cursor behind the head of *)
(* the chain, and new events come at the head.                             *)
(***************************************************************************)
EXTENDS Service, CommonProofs, TLAPS, WellFoundedInduction

(* Events are never ahead of the chain, and only blocks that are complete  *)
(* are indexed.                                                            *)
EventsPast == \A r \in Events : r.at.epoch <= head

CursorBelowHead == \A a \in Actors : state[a] # None => state[a].end < head

(* No block number in the process is ahead of the chain.                   *)
HeightsPast ==
  /\ cached # None => cached <= head
  /\ \A n \in fills : n <= head

RequestServed == request # Idle => phase = "up"

QuartersOK ==
  request.kind = "quarters" =>
    /\ request.number # None =>
         ACTIVATION_EPOCH <= request.number /\ request.number <= head
    /\ \A x \in request.reads :
         /\ request.number # None
         /\ x.quarter <= QuartersCount(request.number)
         /\ x.number <= head

(* The rows of a posting request are all that its orchestrator posted up   *)
(* to some block, which was indexed.                                       *)
PostingOK ==
  request.kind = "posting" =>
    /\ request.indexed <= EndOf("sra")
    /\ request.read => request.number # None
    /\ \A r \in request.rows :
         /\ r \in chain.postings
         /\ r.orchestrator = request.orchestrator
         /\ r.quarter = request.quarter
         /\ r.at.epoch < head
    /\ request.read =>
         \A s \in chain.postings \ request.rows :
           s.orchestrator = request.orchestrator /\ s.quarter = request.quarter =>
             /\ request.indexed < s.at.epoch
             /\ \A r \in request.rows : r.at.epoch < s.at.epoch

GateOK ==
  request.kind = "gate" =>
    /\ request.indexed <= EndOf("swa")
    /\ request.epoch # None /\ request.epoch <= request.indexed =>
         /\ "params" \in request.read =>
              request.params = LastRow(AsOf(chain.params, request.epoch))
         /\ "checks" \in request.read =>
              request.checks = LastRow(AsOf(chain.checks, request.epoch))

IInv ==
  /\ ServiceTypeOK
  /\ TablesReplayLog
  /\ ServedByOwnVersion
  /\ EventsPast
  /\ CursorBelowHead
  /\ HeightsPast
  /\ RequestServed
  /\ QuartersOK
  /\ PostingOK
  /\ GateOK

-----------------------------------------------------------------------------
(* Types.                                                                  *)

(* The kind of a request tells its type.                                   *)
LEMMA RequestKinds ==
  ASSUME request \in QuartersRequest \cup PostingRequest \cup GateRequest \cup {Idle}
  PROVE  /\ request.kind = "quarters" => request \in QuartersRequest
         /\ request.kind = "posting" => request \in PostingRequest
         /\ request.kind = "gate" => request \in GateRequest
         /\ request = Idle <=> request.kind = "idle"
BY DEF QuartersRequest, PostingRequest, GateRequest, Idle

(* The end of a cursor is a block, or the one before the first.            *)
LEMMA EndType ==
  ASSUME ServiceTypeOK, NEW a \in Actors
  PROVE  /\ EndOf(a) \in Int
         /\ EndOf(a) >= -1
         /\ state[a] # None => state[a].end \in Nat /\ state[a].version \in Nat
BY DEF ServiceTypeOK, EndOf, IndexerState

(* A chain to which the event with row x was added in one table.           *)
LEMMA EventTypes ==
  ASSUME chain \in Tables
  PROVE  /\ chain.admissions \subseteq Admission
         /\ chain.postings \subseteq Posting
         /\ chain.listed \subseteq Listed
         /\ chain.params \subseteq GateParams
         /\ chain.checks \subseteq GateCheck
BY DEF Tables

(* Events of the chain sit at positions.                                   *)
LEMMA EventPositions ==
  ASSUME ServiceTypeOK, NEW r \in Events
  PROVE  r.at \in Position /\ r.at.epoch \in Nat
BY DEF ServiceTypeOK, Events, Tables, Admission, Posting, Listed, GateParams,
       GateCheck, Position

(* There is nothing in the beginning.                                      *)
LEMMA InitInvariant == Init => IInv
<1> SUFFICES ASSUME Init PROVE IInv
  OBVIOUS
<1> USE DEF Init
<1>1. ServiceTypeOK
  BY DEF ServiceTypeOK, NoRows, Tables, Idle
<1>2. TablesReplayLog
  BY DEF TablesReplayLog, Indexed, NoRows
<1>3. ServedByOwnVersion /\ CursorBelowHead /\ HeightsPast /\ RequestServed
  BY DEF ServedByOwnVersion, CursorBelowHead, HeightsPast, RequestServed
<1>4. EventsPast
  BY DEF EventsPast, Events, NoRows
<1>5. QuartersOK /\ PostingOK /\ GateOK
  BY DEF QuartersOK, PostingOK, GateOK, Idle
<1> QED
  BY <1>1, <1>2, <1>3, <1>4, <1>5 DEF IInv

-----------------------------------------------------------------------------
(* The chain.                                                              *)

(* Adding rows of epoch h changes nothing up to an earlier epoch e.        *)
LEMMA EarlierKept ==
  ASSUME NEW S, NEW T, S \subseteq T, NEW e \in Int, NEW h \in Int, e < h,
         \A r \in T \ S : r.at.epoch = h
  PROVE  {r \in T : r.at.epoch <= e} = {r \in S : r.at.epoch <= e}
<1>1. ASSUME NEW r \in T, r.at.epoch <= e PROVE r \in S
  <2>1. CASE r \notin S
    BY <1>1, <2>1
  <2> QED
    BY <2>1
<1> QED
  BY <1>1

(* A new event disturbs nothing: it comes after all that is indexed and    *)
(* after all that a request has read.                                      *)
LEMMA EventStep ==
  ASSUME IInv, NEW at \in Position, NextEvent(at), chain' \in Tables,
         \A r \in chain'.admissions \ chain.admissions : r.at = at,
         \A r \in chain'.postings \ chain.postings : r.at = at,
         \A r \in chain'.listed \ chain.listed : r.at = at,
         \A r \in chain'.params \ chain.params : r.at = at,
         \A r \in chain'.checks \ chain.checks : r.at = at,
         chain.admissions \subseteq chain'.admissions,
         chain.postings \subseteq chain'.postings,
         chain.listed \subseteq chain'.listed,
         chain.params \subseteq chain'.params,
         chain.checks \subseteq chain'.checks
  PROVE  IInv'
<1>0. /\ at.epoch = head
      /\ head' = head /\ tables' = tables /\ state' = state
      /\ phase' = phase /\ version' = version /\ cached' = cached /\ fills' = fills
      /\ request' = request
  BY DEF NextEvent, stored, process, cache
<1>t. ServiceTypeOK
  BY DEF IInv
<1>1. ServiceTypeOK'
  BY <1>0, <1>t DEF ServiceTypeOK
<1>2. \A a \in Actors : EndOf(a)' = EndOf(a) /\ EndOf(a) < head /\ EndOf(a) \in Int
  <2>1. head \in Nat /\ CursorBelowHead
    BY DEF IInv, ServiceTypeOK
  <2> QED
    BY <1>0, <1>t, <2>1, EndType DEF EndOf, CursorBelowHead
<1>3. TablesReplayLog'
  <2>0. head \in Int
    BY <1>t DEF ServiceTypeOK
  <2>1. TablesReplayLog /\ "sra" \in Actors /\ "swa" \in Actors
    BY DEF IInv, Actors
  <2>2. Indexed(chain.admissions, "sra")' = Indexed(chain.admissions, "sra")
    BY <1>0, <1>2, <2>1, <2>0, EarlierKept DEF Indexed
  <2>3. Indexed(chain.postings, "sra")' = Indexed(chain.postings, "sra")
    BY <1>0, <1>2, <2>1, <2>0, EarlierKept DEF Indexed
  <2>4. Indexed(chain.listed, "sra")' = Indexed(chain.listed, "sra")
    BY <1>0, <1>2, <2>1, <2>0, EarlierKept DEF Indexed
  <2>5. Indexed(chain.params, "swa")' = Indexed(chain.params, "swa")
    BY <1>0, <1>2, <2>1, <2>0, EarlierKept DEF Indexed
  <2>6. Indexed(chain.checks, "swa")' = Indexed(chain.checks, "swa")
    BY <1>0, <1>2, <2>1, <2>0, EarlierKept DEF Indexed
  <2> QED
    BY <1>0, <2>1, <2>2, <2>3, <2>4, <2>5, <2>6 DEF TablesReplayLog
<1>4. ServedByOwnVersion' /\ CursorBelowHead' /\ HeightsPast' /\ RequestServed' /\ QuartersOK'
  BY <1>0 DEF IInv, ServedByOwnVersion, CursorBelowHead, HeightsPast, RequestServed, QuartersOK
<1>5. EventsPast'
  <2>1. \A r \in Events' : r \in Events \/ r.at = at
    BY DEF Events
  <2> QED
    BY <1>0, <1>t, <2>1 DEF IInv, EventsPast, ServiceTypeOK
<1>6. PostingOK'
  <2>1. PostingOK /\ "sra" \in Actors
    BY DEF IInv, Actors
  <2>2. SUFFICES ASSUME request.kind = "posting" PROVE PostingOK'
    BY <1>0 DEF PostingOK
  <2>3. /\ request.indexed \in Int
        /\ request.rows \subseteq Posting
    BY <1>t, <2>2, RequestKinds DEF ServiceTypeOK, PostingRequest
  <2>4. /\ request.indexed <= EndOf("sra")
        /\ \A r \in request.rows : r \in chain.postings /\ r.at.epoch < head
    BY <2>1, <2>2 DEF PostingOK
  <2>5. request.indexed < head
    BY <1>2, <2>1, <2>3, <2>4, <1>t DEF ServiceTypeOK
  <2> QED
    BY <1>0, <1>2, <2>1, <2>2, <2>4, <2>5 DEF PostingOK
<1>7. GateOK'
  <2>1. GateOK /\ "swa" \in Actors
    BY DEF IInv, Actors
  <2>2. SUFFICES ASSUME request.kind = "gate" PROVE GateOK'
    BY <1>0 DEF GateOK
  <2>3. /\ request.indexed \in Int /\ request.epoch \in Nat \cup {None}
        /\ request.indexed <= EndOf("swa") /\ EndOf("swa") < head /\ head \in Nat
        /\ EndOf("swa") \in Int
    BY <1>t, <1>2, <2>1, <2>2, RequestKinds DEF ServiceTypeOK, GateRequest, GateOK
  <2>4. ASSUME request.epoch # None, request.epoch <= request.indexed
        PROVE  /\ AsOf(chain'.params, request.epoch) = AsOf(chain.params, request.epoch)
               /\ AsOf(chain'.checks, request.epoch) = AsOf(chain.checks, request.epoch)
    <3>1. request.epoch < head /\ request.epoch # None
      BY <2>3, <2>4
    <3>2. ~(at.epoch <= request.epoch)
      BY <3>1, <2>3, <2>4, <1>0
    <3> QED
      BY <3>1, <3>2 DEF AsOf
  <2> QED
    BY <1>0, <1>2, <2>1, <2>2, <2>4 DEF GateOK
<1> QED
  BY <1>1, <1>3, <1>4, <1>5, <1>6, <1>7 DEF IInv

(* An event comes at the head: behind the cursors nothing changes.         *)
LEMMA EmitsStep ==
  ASSUME ServiceAssumption, IInv, Emits
  PROVE  IInv'
<1>0. /\ chain \in Tables /\ head \in Nat
      /\ \A n \in Nat : At(head, n) \in Position
  BY DEF IInv, ServiceTypeOK, At, Position
<1>1. PICK log \in 0 .. MaxLog - 1 :
        \/ \E o \in Orchestrators : Admits(o, At(head, log))
        \/ \E o \in Orchestrators, q \in 1 .. QuarterOf(MaxEpoch), v \in Volumes :
             Posts(o, q, v, At(head, log))
        \/ \E t \in Tokens : Lists(t, At(head, log))
        \/ \E g \in Gates : SetsGate(g, At(head, log))
        \/ \E passed \in BOOLEAN : ChecksGate(passed, At(head, log))
  BY DEF Emits
<1> DEFINE at == At(head, log)
<1>2. at \in Position
  BY <1>0, <1>1
<1> HIDE DEF at
<1>3. ASSUME NEW o \in Orchestrators, Admits(o, at) PROVE IInv'
  <2> DEFINE row == [orchestrator |-> o, at |-> at]
  <2>1. NextEvent(at) /\ chain' = [chain EXCEPT !.admissions = @ \cup {row}]
    BY <1>3 DEF Admits
  <2>2. row \in Admission
    BY <1>2 DEF Admission
  <2>3. chain' \in Tables
    BY <1>0, <2>1, <2>2 DEF Tables
  <2> QED
    BY <1>0, <1>2, <2>1, <2>3, EventStep DEF Tables
<1>4. ASSUME NEW o \in Orchestrators, NEW q \in 1 .. QuarterOf(MaxEpoch), NEW v \in Volumes,
             Posts(o, q, v, at)
      PROVE  IInv'
  <2> DEFINE earlier == {r \in chain.postings : r.orchestrator = o /\ r.quarter = q}
             row == [orchestrator |-> o, quarter |-> q, volume |-> v,
                     correction |-> earlier # {}, at |-> at]
  <2>1. NextEvent(at) /\ chain' = [chain EXCEPT !.postings = @ \cup {row}]
    BY <1>4 DEF Posts
  <2>2. row \in Posting
    <3>1. v \in Nat
      BY DEF ServiceAssumption
    <3>2. q \in Nat /\ (earlier # {}) \in BOOLEAN
      OBVIOUS
    <3> HIDE DEF earlier
    <3> QED
      BY <1>2, <3>1, <3>2 DEF Posting
  <2>3. chain' \in Tables
    <3> HIDE DEF row
    <3> QED
      BY <1>0, <2>1, <2>2 DEF Tables
  <2>4. row.at = at
    OBVIOUS
  <2> HIDE DEF row
  <2> QED
    BY <1>0, <1>2, <2>1, <2>3, <2>4, EventStep DEF Tables
<1>5. ASSUME NEW t \in Tokens, Lists(t, at) PROVE IInv'
  <2> DEFINE row == [token |-> t, at |-> at]
  <2>1. NextEvent(at) /\ chain' = [chain EXCEPT !.listed = @ \cup {row}]
    BY <1>5 DEF Lists
  <2>2. row \in Listed
    BY <1>2 DEF Listed
  <2>3. chain' \in Tables
    BY <1>0, <2>1, <2>2 DEF Tables
  <2> QED
    BY <1>0, <1>2, <2>1, <2>3, EventStep DEF Tables
<1>6. ASSUME NEW g \in Gates, SetsGate(g, at) PROVE IInv'
  <2> DEFINE row == [base |-> g.base, ratio |-> g.ratio, at |-> at]
  <2>1. NextEvent(at) /\ chain' = [chain EXCEPT !.params = @ \cup {row}]
    BY <1>6 DEF SetsGate
  <2>2. row \in GateParams
    BY <1>2, ServiceAssumption DEF GateParams, ServiceAssumption
  <2>3. chain' \in Tables
    BY <1>0, <2>1, <2>2 DEF Tables
  <2> QED
    BY <1>0, <1>2, <2>1, <2>3, EventStep DEF Tables
<1>7. ASSUME NEW passed \in BOOLEAN, ChecksGate(passed, at) PROVE IInv'
  <2>1. PICK before \in {0} \cup {r.steps : r \in chain.checks} :
          /\ NextEvent(at)
          /\ chain' = [chain EXCEPT !.checks =
               @ \cup {[steps |-> IF passed THEN before + 1 ELSE before, at |-> at]}]
    BY <1>7 DEF ChecksGate
  <2> DEFINE row == [steps |-> IF passed THEN before + 1 ELSE before, at |-> at]
  <2>2. before \in Nat
    BY <1>0 DEF Tables, GateCheck
  <2>3. row \in GateCheck
    BY <1>2, <2>2 DEF GateCheck
  <2>4. chain' \in Tables
    BY <1>0, <2>1, <2>3 DEF Tables
  <2> QED
    BY <1>0, <1>2, <2>1, <2>4, EventStep DEF Tables
<1> QED
  BY <1>1, <1>3, <1>4, <1>5, <1>6, <1>7 DEF at

(* What lies in the past stays there.                                      *)
LEMMA ChainGrowsStep ==
  ASSUME IInv, ChainGrows
  PROVE  IInv'
<1>0. /\ head \in Nat /\ head' = head + 1
      /\ chain' = chain /\ tables' = tables /\ state' = state
      /\ phase' = phase /\ version' = version /\ cached' = cached /\ fills' = fills
      /\ request' = request
  BY DEF IInv, ServiceTypeOK, ChainGrows, stored, process, cache
<1>1. ServiceTypeOK'
  BY <1>0 DEF IInv, ServiceTypeOK
<1>2. /\ \A a \in Actors : EndOf(a)' = EndOf(a)
      /\ EndOf("sra")' = EndOf("sra") /\ EndOf("swa")' = EndOf("swa")
  BY <1>0 DEF EndOf
<1>3. TablesReplayLog'
  BY <1>0, <1>2 DEF IInv, TablesReplayLog, Indexed
<1>4. ServedByOwnVersion' /\ RequestServed'
  BY <1>0 DEF IInv, ServedByOwnVersion, RequestServed
<1>5. EventsPast'
  <2>1. \A r \in Events : r.at.epoch \in Nat
    BY EventPositions DEF IInv
  <2> QED
    BY <1>0, <2>1 DEF IInv, EventsPast, Events
<1>6. CursorBelowHead'
  BY <1>0, EndType DEF IInv, CursorBelowHead
<1>7. HeightsPast'
  <2>1. fills \subseteq Nat /\ cached \in Nat \cup {None}
    BY DEF IInv, ServiceTypeOK
  <2> QED
    BY <1>0, <2>1 DEF IInv, HeightsPast
<1>8. QuartersOK'
  <2>1. SUFFICES ASSUME request.kind = "quarters" PROVE QuartersOK'
    BY <1>0 DEF QuartersOK
  <2>2. /\ request.number \in Nat \cup {None}
        /\ \A x \in request.reads : x.number \in Nat
    BY <2>1, RequestKinds DEF IInv, ServiceTypeOK, QuartersRequest
  <2> QED
    BY <1>0, <2>1, <2>2 DEF IInv, QuartersOK
<1>9. PostingOK'
  <2>1. SUFFICES ASSUME request.kind = "posting" PROVE PostingOK'
    BY <1>0 DEF PostingOK
  <2>2. \A r \in request.rows : r.at.epoch \in Nat
    BY <2>1, RequestKinds DEF IInv, ServiceTypeOK, PostingRequest, Posting, Position
  <2> QED
    BY <1>0, <1>2, <2>1, <2>2 DEF IInv, PostingOK
<1>10. GateOK'
  BY <1>0, <1>2 DEF IInv, GateOK, LastRow, AsOf
<1> QED
  BY <1>1, <1>3, <1>4, <1>5, <1>6, <1>7, <1>8, <1>9, <1>10 DEF IInv

-----------------------------------------------------------------------------
(* The indexers.                                                           *)

(* What was indexed and a batch are what is indexed then.                  *)
LEMMA BatchExtends ==
  ASSUME NEW S, NEW e \in Int, NEW to \in Int, e <= to, \A r \in S : r.at.epoch \in Nat
  PROVE  {r \in S : r.at.epoch <= e} \cup {r \in S : e < r.at.epoch /\ r.at.epoch <= to}
           = {r \in S : r.at.epoch <= to}
OBVIOUS

(* A batch of the Service Rewards Actor extends the tables to its end.     *)
LEMMA IndexSraStep ==
  ASSUME ServiceAssumption, IInv, NEW to \in Nat, IndexSra(to)
  PROVE  IInv'
<1> DEFINE listed == Batch(chain.listed, "sra", to)
           asked  == {r.token : r \in listed}
<1>0. /\ head' = head /\ chain' = chain
      /\ phase' = phase /\ version' = version /\ cached' = cached /\ fills' = fills
      /\ request' = request
      /\ phase = "up" /\ to \in EndOf("sra") + 1 .. head - 1
      /\ state' = [state EXCEPT !["sra"] = [end |-> to, version |-> version]]
  BY DEF IndexSra, outside, process, cache, CursorAt
<1>1. PICK found \in [asked -> UNION {Lookup(t) : t \in Tokens}] :
        /\ \A t \in asked : found[t] \in Lookup(t)
        /\ \A t \in asked : found[t] = "unanswered" => Skipped(t, found)
        /\ tables' = [tables EXCEPT
             !.admissions = @ \cup Batch(chain.admissions, "sra", to),
             !.postings = @ \cup Batch(chain.postings, "sra", to),
             !.listed = @ \cup {r \in listed : ~Skipped(r.token, found)}]
  BY DEF IndexSra
<1>t. /\ ServiceTypeOK /\ chain \in Tables /\ tables \in Tables /\ head \in Nat
      /\ version \in Nat /\ state \in [Actors -> IndexerState \cup {None}]
  BY ServiceAssumption DEF IInv, ServiceTypeOK, ServiceAssumption
<1>2. /\ Batch(chain.admissions, "sra", to) \subseteq Admission
      /\ Batch(chain.postings, "sra", to) \subseteq Posting
      /\ listed \subseteq Listed
  BY <1>t DEF Batch, Tables
<1>3. tables' \in Tables
  <2> HIDE DEF listed
  <2> QED
    BY <1>1, <1>2, <1>t DEF Tables
<1>4. state' \in [Actors -> IndexerState \cup {None}]
  BY <1>0, <1>t DEF IndexerState
<1>5. ServiceTypeOK'
  BY <1>0, <1>3, <1>4 DEF IInv, ServiceTypeOK
<1>6. /\ EndOf("sra")' = to /\ EndOf("swa")' = EndOf("swa")
      /\ EndOf("sra") \in Int /\ EndOf("sra") < to /\ to < head
      /\ "sra" \in Actors /\ "swa" \in Actors
  <2>1. "sra" \in Actors /\ "swa" \in Actors
    BY DEF Actors
  <2>2. EndOf("sra") \in Int
    BY <2>1, <1>t, EndType
  <2>3. state'["sra"] = [end |-> to, version |-> version] /\ state'["swa"] = state["swa"]
    BY <2>1, <1>0, <1>t
  <2>4. state'["sra"] # None
    BY <2>3, <1>t, ServiceAssumption DEF ServiceAssumption
  <2> QED
    BY <2>1, <2>2, <2>3, <2>4, <1>0, <1>t DEF EndOf
<1>7. TablesReplayLog'
  <2>0. /\ \A r \in chain.admissions : r.at.epoch \in Nat
        /\ \A r \in chain.postings : r.at.epoch \in Nat
        /\ \A r \in chain.listed : r.at.epoch \in Nat
    BY <1>t, EventPositions DEF Events
  <2>1. TablesReplayLog
    BY DEF IInv
  <2>2. tables'.admissions = Indexed(chain.admissions, "sra")'
    <3>1. tables'.admissions = tables.admissions \cup Batch(chain.admissions, "sra", to)
      BY <1>1, <1>t DEF Tables
    <3> QED
      BY <3>1, <1>0, <1>6, <2>0, <2>1, BatchExtends DEF TablesReplayLog, Indexed, Batch
  <2>3. tables'.postings = Indexed(chain.postings, "sra")'
    <3>1. tables'.postings = tables.postings \cup Batch(chain.postings, "sra", to)
      BY <1>1, <1>t DEF Tables
    <3> QED
      BY <3>1, <1>0, <1>6, <2>0, <2>1, BatchExtends DEF TablesReplayLog, Indexed, Batch
  <2>4. tables'.listed = {r \in Indexed(chain.listed, "sra")' : r.token \in ERC20}
    <3>1. ASSUME NEW r \in listed PROVE Skipped(r.token, found) <=> r.token \notin ERC20
      <4>1. /\ found[r.token] \in Lookup(r.token)
            /\ found[r.token] = "unanswered" => Skipped(r.token, found)
        BY <1>1, <3>1
      <4> QED
        BY <4>1 DEF Lookup, Skipped
    <3>2. tables'.listed = tables.listed \cup {r \in listed : r.token \in ERC20}
      <4>1. tables'.listed = tables.listed \cup {r \in listed : ~Skipped(r.token, found)}
        BY <1>1, <1>t DEF Tables
      <4> HIDE DEF listed
      <4> QED
        BY <3>1, <4>1
    <3>3. tables.listed \cup {r \in listed : r.token \in ERC20}
            = {r \in Indexed(chain.listed, "sra") \cup listed : r.token \in ERC20}
      <4> HIDE DEF listed
      <4> QED
        BY <2>1 DEF TablesReplayLog
    <3>4. Indexed(chain.listed, "sra") \cup listed = Indexed(chain.listed, "sra")'
      BY <1>0, <1>6, <2>0, BatchExtends DEF Indexed, Batch
    <3> QED
      BY <3>2, <3>3, <3>4
  <2>5. /\ tables'.params = Indexed(chain.params, "swa")'
        /\ tables'.checks = Indexed(chain.checks, "swa")'
    BY <1>0, <1>1, <1>6, <1>t, <2>1 DEF TablesReplayLog, Indexed, Tables
  <2> QED
    BY <2>2, <2>3, <2>4, <2>5, <1>0 DEF TablesReplayLog
<1>8. ServedByOwnVersion' /\ CursorBelowHead'
  BY <1>0, <1>6, <1>t DEF IInv, ServedByOwnVersion, CursorBelowHead, Actors
<1>9. EventsPast' /\ HeightsPast' /\ RequestServed' /\ QuartersOK'
  BY <1>0 DEF IInv, EventsPast, HeightsPast, RequestServed, QuartersOK, Events
<1>10. PostingOK'
  <2>1. request.kind = "posting" => request.indexed \in Int
    BY <1>t, RequestKinds DEF ServiceTypeOK, PostingRequest
  <2> QED
    BY <1>0, <1>6, <2>1 DEF IInv, PostingOK
<1>11. GateOK'
  BY <1>0, <1>6 DEF IInv, GateOK, LastRow, AsOf
<1> QED
  BY <1>5, <1>7, <1>8, <1>9, <1>10, <1>11 DEF IInv

(* So does one of the Stream Weight Actor.                                 *)
LEMMA IndexSwaStep ==
  ASSUME ServiceAssumption, IInv, NEW to \in Nat, IndexSwa(to)
  PROVE  IInv'
<1>0. /\ head' = head /\ chain' = chain
      /\ phase' = phase /\ version' = version /\ cached' = cached /\ fills' = fills
      /\ request' = request
      /\ phase = "up" /\ to \in EndOf("swa") + 1 .. head - 1
      /\ state' = [state EXCEPT !["swa"] = [end |-> to, version |-> version]]
      /\ tables' = [tables EXCEPT !.params = @ \cup Batch(chain.params, "swa", to),
                                  !.checks = @ \cup Batch(chain.checks, "swa", to)]
  BY DEF IndexSwa, outside, process, cache, CursorAt
<1>t. /\ ServiceTypeOK /\ chain \in Tables /\ tables \in Tables /\ head \in Nat
      /\ version \in Nat /\ state \in [Actors -> IndexerState \cup {None}]
  BY ServiceAssumption DEF IInv, ServiceTypeOK, ServiceAssumption
<1>2. /\ Batch(chain.params, "swa", to) \subseteq GateParams
      /\ Batch(chain.checks, "swa", to) \subseteq GateCheck
  BY <1>t DEF Batch, Tables
<1>3. tables' \in Tables
  BY <1>0, <1>2, <1>t DEF Tables
<1>4. state' \in [Actors -> IndexerState \cup {None}]
  BY <1>0, <1>t DEF IndexerState
<1>5. ServiceTypeOK'
  BY <1>0, <1>3, <1>4 DEF IInv, ServiceTypeOK
<1>6. /\ EndOf("swa")' = to /\ EndOf("sra")' = EndOf("sra")
      /\ EndOf("swa") \in Int /\ EndOf("swa") < to /\ to < head
      /\ "sra" \in Actors /\ "swa" \in Actors
  <2>1. "sra" \in Actors /\ "swa" \in Actors
    BY DEF Actors
  <2>2. EndOf("swa") \in Int
    BY <2>1, <1>t, EndType
  <2>3. state'["swa"] = [end |-> to, version |-> version] /\ state'["sra"] = state["sra"]
    BY <2>1, <1>0, <1>t
  <2>4. state'["swa"] # None
    BY <2>3, <1>t, ServiceAssumption DEF ServiceAssumption
  <2> QED
    BY <2>1, <2>2, <2>3, <2>4, <1>0, <1>t DEF EndOf
<1>7. TablesReplayLog'
  <2>0. /\ \A r \in chain.params : r.at.epoch \in Nat
        /\ \A r \in chain.checks : r.at.epoch \in Nat
    BY <1>t, EventPositions DEF Events
  <2>1. TablesReplayLog
    BY DEF IInv
  <2>2. tables'.params = Indexed(chain.params, "swa")'
    <3>1. tables'.params = tables.params \cup Batch(chain.params, "swa", to)
      BY <1>0, <1>t DEF Tables
    <3> QED
      BY <3>1, <1>0, <1>6, <2>0, <2>1, BatchExtends DEF TablesReplayLog, Indexed, Batch
  <2>3. tables'.checks = Indexed(chain.checks, "swa")'
    <3>1. tables'.checks = tables.checks \cup Batch(chain.checks, "swa", to)
      BY <1>0, <1>t DEF Tables
    <3> QED
      BY <3>1, <1>0, <1>6, <2>0, <2>1, BatchExtends DEF TablesReplayLog, Indexed, Batch
  <2>4. /\ tables'.admissions = Indexed(chain.admissions, "sra")'
        /\ tables'.postings = Indexed(chain.postings, "sra")'
        /\ tables'.listed = {r \in Indexed(chain.listed, "sra")' : r.token \in ERC20}
    BY <1>0, <1>6, <1>t, <2>1 DEF TablesReplayLog, Indexed, Tables
  <2> QED
    BY <2>2, <2>3, <2>4, <1>0 DEF TablesReplayLog
<1>8. ServedByOwnVersion' /\ CursorBelowHead'
  BY <1>0, <1>6, <1>t DEF IInv, ServedByOwnVersion, CursorBelowHead, Actors
<1>9. EventsPast' /\ HeightsPast' /\ RequestServed' /\ QuartersOK'
  BY <1>0 DEF IInv, EventsPast, HeightsPast, RequestServed, QuartersOK, Events
<1>10. PostingOK'
  BY <1>0, <1>6 DEF IInv, PostingOK
<1>11. GateOK'
  <2>1. request.kind = "gate" => request.indexed \in Int
    BY <1>t, RequestKinds DEF ServiceTypeOK, GateRequest
  <2> QED
    BY <1>0, <1>6, <2>1 DEF IInv, GateOK, LastRow, AsOf
<1> QED
  BY <1>5, <1>7, <1>8, <1>9, <1>10, <1>11 DEF IInv

-----------------------------------------------------------------------------
(* The process.                                                            *)

(* A process ends with its cache and its request.                          *)
LEMMA CrashStep ==
  ASSUME IInv, Crash
  PROVE  IInv'
<1>0. /\ head' = head /\ chain' = chain /\ tables' = tables /\ state' = state
      /\ phase' = "down" /\ version' = version /\ cached' = None /\ fills' = {}
      /\ request' = Idle
  BY DEF Crash, outside, stored
<1>1. ServiceTypeOK'
  BY <1>0 DEF IInv, ServiceTypeOK
<1>2. TablesReplayLog' /\ EventsPast' /\ CursorBelowHead'
  BY <1>0 DEF IInv, TablesReplayLog, Indexed, EndOf, EventsPast, Events, CursorBelowHead
<1>3. ServedByOwnVersion' /\ HeightsPast' /\ RequestServed'
  BY <1>0 DEF ServedByOwnVersion, HeightsPast, RequestServed
<1>4. QuartersOK' /\ PostingOK' /\ GateOK'
  BY <1>0 DEF QuartersOK, PostingOK, GateOK, Idle
<1> QED
  BY <1>1, <1>2, <1>3, <1>4 DEF IInv

(* While the process is not up there is no request, and no batch is        *)
(* written: starting and failing to start change nothing else.             *)
LEMMA NotServingStep ==
  ASSUME IInv, phase # "up", phase' \in {"down", "booting", "up"}, version' \in Versions,
         UNCHANGED <<outside, stored, cache, request>>, ServedByOwnVersion'
  PROVE  IInv'
<1>0. /\ head' = head /\ chain' = chain /\ tables' = tables /\ state' = state
      /\ cached' = cached /\ fills' = fills /\ request' = request
  BY DEF outside, stored, cache
<1>1. request = Idle
  BY DEF IInv, RequestServed
<1>2. ServiceTypeOK'
  BY <1>0 DEF IInv, ServiceTypeOK
<1>3. TablesReplayLog' /\ EventsPast' /\ CursorBelowHead' /\ HeightsPast'
  BY <1>0 DEF IInv, TablesReplayLog, Indexed, EndOf, EventsPast, Events, CursorBelowHead,
              HeightsPast
<1>4. RequestServed' /\ QuartersOK' /\ PostingOK' /\ GateOK'
  BY <1>0, <1>1 DEF RequestServed, QuartersOK, PostingOK, GateOK, Idle
<1> QED
  BY <1>2, <1>3, <1>4 DEF IInv

(* A process that starts serves nothing until it has compared versions.    *)
LEMMA StartStep ==
  ASSUME IInv, (\E v \in Versions : Started(v)) \/ Boots \/ CleanupRejected
  PROVE  IInv'
<1>0. version \in Versions
  BY DEF IInv, ServiceTypeOK
<1>1. ASSUME NEW v \in Versions, Started(v) PROVE IInv'
  BY <1>1, NotServingStep DEF Started, ServedByOwnVersion
<1>2. CASE Boots
  <2>1. ServedByOwnVersion'
    BY <1>2 DEF Boots, InvalidRun, ServedByOwnVersion, stored
  <2> QED
    BY <1>0, <1>2, <2>1, NotServingStep DEF Boots
<1>3. CASE CleanupRejected
  BY <1>0, <1>3, NotServingStep DEF CleanupRejected, ServedByOwnVersion
<1> QED
  BY <1>1, <1>2, <1>3

(* A process of another version serves only what it has emptied.           *)
LEMMA CleanupStep ==
  ASSUME IInv, CleansUp
  PROVE  IInv'
<1>0. /\ head' = head /\ chain' = chain /\ tables' = NoRows
      /\ state' = [a \in Actors |-> None] /\ phase' = "up"
      /\ version' = version /\ cached' = cached /\ fills' = fills /\ request' = request
      /\ phase = "booting"
  BY DEF CleansUp, outside, cache, Emptied
<1>1. request = Idle
  BY <1>0 DEF IInv, RequestServed
<1>2. ServiceTypeOK'
  BY <1>0 DEF IInv, ServiceTypeOK, NoRows, Tables
<1>3. TablesReplayLog'
  <2>1. EndOf("sra")' = -1 /\ EndOf("swa")' = -1
    BY <1>0 DEF EndOf, Actors
  <2>2. \A r \in Events : ~(r.at.epoch <= -1)
    BY EventPositions DEF IInv
  <2> QED
    BY <1>0, <2>1, <2>2 DEF TablesReplayLog, Indexed, NoRows, Events
<1>4. EventsPast' /\ HeightsPast' /\ RequestServed' /\ CursorBelowHead' /\ ServedByOwnVersion'
  BY <1>0 DEF IInv, EventsPast, Events, HeightsPast, RequestServed, CursorBelowHead,
              ServedByOwnVersion
<1>5. QuartersOK' /\ PostingOK' /\ GateOK'
  BY <1>0, <1>1 DEF QuartersOK, PostingOK, GateOK, Idle
<1> QED
  BY <1>2, <1>3, <1>4, <1>5 DEF IInv

-----------------------------------------------------------------------------
(* Block numbers and requests.                                             *)

(* Steps of the requests leave the chain, the tables and the process       *)
(* alone.                                                                  *)
LEMMA RequestStep ==
  ASSUME IInv, UNCHANGED <<outside, stored, process>>,
         request' \in QuartersRequest \cup PostingRequest \cup GateRequest \cup {Idle},
         cached' \in Nat \cup {None}, fills' \subseteq Nat,
         HeightsPast', RequestServed', QuartersOK', PostingOK', GateOK'
  PROVE  IInv'
<1>0. /\ head' = head /\ chain' = chain /\ tables' = tables /\ state' = state
      /\ phase' = phase /\ version' = version
  BY DEF outside, stored, process
<1>1. ServiceTypeOK'
  BY <1>0 DEF IInv, ServiceTypeOK
<1>2. TablesReplayLog' /\ EventsPast' /\ CursorBelowHead' /\ ServedByOwnVersion'
  BY <1>0 DEF IInv, TablesReplayLog, Indexed, EndOf, EventsPast, Events, CursorBelowHead,
              ServedByOwnVersion
<1> QED
  BY <1>1, <1>2 DEF IInv

(* A block number is one that the chain has had.                           *)
LEMMA HeightRead ==
  ASSUME ServiceAssumption, IInv, head' = head, NEW n \in (fills \cup {cached}) \ {None},
         GetsBlockNumber(n)
  PROVE  /\ n \in Nat /\ n <= head
         /\ cached' \in Nat \cup {None} /\ fills' \subseteq Nat /\ HeightsPast'
BY DEF IInv, ServiceTypeOK, HeightsPast, GetsBlockNumber, cache

(* A block number that is answered or cached is one of the past.           *)
LEMMA CachesStep ==
  ASSUME IInv, Caches
  PROVE  IInv'
<1>0. /\ UNCHANGED <<outside, stored, process>> /\ request' = request
      /\ head' = head /\ chain' = chain /\ state' = state /\ phase' = phase
  BY DEF Caches, AsksNode, CacheExpires, FillsCache, outside, stored, process
<1>1. /\ cached' \in Nat \cup {None} /\ fills' \subseteq Nat /\ HeightsPast'
  <2>1. /\ head \in Nat /\ fills \subseteq Nat /\ cached \in Nat \cup {None} /\ HeightsPast
    BY DEF IInv, ServiceTypeOK
  <2>2. CASE AsksNode
    BY <1>0, <2>1, <2>2 DEF AsksNode, HeightsPast
  <2>3. CASE CacheExpires
    BY <1>0, <2>1, <2>3 DEF CacheExpires, HeightsPast
  <2>4. ASSUME NEW n \in fills, FillsCache(n) PROVE <1>1!1
    BY <1>0, <2>1, <2>4 DEF FillsCache, HeightsPast
  <2> QED
    BY <2>2, <2>3, <2>4 DEF Caches
<1>2. /\ request' \in QuartersRequest \cup PostingRequest \cup GateRequest \cup {Idle}
      /\ RequestServed' /\ QuartersOK' /\ PostingOK' /\ GateOK'
  BY <1>0 DEF IInv, ServiceTypeOK, RequestServed, QuartersOK, PostingOK, GateOK, EndOf,
              LastRow, AsOf
<1> QED
  BY <1>0, <1>1, <1>2, RequestStep

(* The reads of a request for the list of quarters.                        *)
LEMMA QuartersStep ==
  ASSUME ServiceAssumption, IInv,
         \/ AsksQuarters
         \/ \E n \in (fills \cup {cached}) \ {None} :
              CountsQuarters(n) \/ \E q \in 1 .. QuarterOf(MaxEpoch) : ReadsQuarter(q, n)
  PROVE  IInv'
<1>t. /\ head \in Nat /\ cached \in Nat \cup {None} /\ fills \subseteq Nat /\ HeightsPast
      /\ request.kind = "quarters" => request \in QuartersRequest /\ phase = "up"
  BY RequestKinds DEF IInv, ServiceTypeOK, RequestServed, Idle
<1>1. CASE AsksQuarters
  <2>1. /\ UNCHANGED <<outside, stored, process>> /\ cached' = cached /\ fills' = fills
        /\ phase' = "up" /\ head' = head
        /\ request' = [kind |-> "quarters", number |-> None, reads |-> {}]
    BY <1>1 DEF AsksQuarters, cache, process, outside
  <2>2. request' \in QuartersRequest
    BY <2>1 DEF QuartersRequest
  <2>3. HeightsPast' /\ RequestServed' /\ QuartersOK' /\ PostingOK' /\ GateOK'
    BY <2>1, <1>t DEF HeightsPast, RequestServed, QuartersOK, PostingOK, GateOK
  <2> QED
    BY <2>1, <2>2, <2>3, <1>t, RequestStep
<1>2. ASSUME NEW n \in (fills \cup {cached}) \ {None}, CountsQuarters(n) PROVE IInv'
  <2>1. /\ UNCHANGED <<outside, stored, process>> /\ head' = head /\ phase' = phase
        /\ GetsBlockNumber(n) /\ request.kind = "quarters" /\ request.number = None
        /\ request' = IF n < ACTIVATION_EPOCH THEN Idle ELSE [request EXCEPT !.number = n]
    BY <1>2 DEF CountsQuarters, outside, process
  <2>2. /\ n \in Nat /\ n <= head
        /\ cached' \in Nat \cup {None} /\ fills' \subseteq Nat /\ HeightsPast'
    BY <2>1, HeightRead
  <2>3. CASE n < ACTIVATION_EPOCH
    <3>1. request' = Idle
      BY <2>1, <2>3
    <3>2. RequestServed' /\ QuartersOK' /\ PostingOK' /\ GateOK'
      BY <3>1 DEF RequestServed, QuartersOK, PostingOK, GateOK, Idle
    <3> QED
      BY <2>1, <2>2, <3>1, <3>2, RequestStep
  <2>4. CASE ~(n < ACTIVATION_EPOCH)
    <3>1. /\ request' = [request EXCEPT !.number = n]
          /\ request \in QuartersRequest /\ phase = "up" /\ request.reads = {}
      BY <2>1, <2>4, <1>t DEF IInv, QuartersOK
    <3>2. /\ request' \in QuartersRequest /\ request'.kind = "quarters"
          /\ request'.number = n /\ request'.reads = {}
      BY <3>1, <2>2 DEF QuartersRequest
    <3>3. ACTIVATION_EPOCH <= n
      BY <2>4, <2>2, CalendarAssumption DEF CalendarAssumption
    <3>4. RequestServed' /\ QuartersOK' /\ PostingOK' /\ GateOK'
      BY <2>1, <2>2, <3>1, <3>2, <3>3 DEF RequestServed, QuartersOK, PostingOK, GateOK
    <3> QED
      BY <2>1, <2>2, <3>2, <3>4, RequestStep
  <2> QED
    BY <2>3, <2>4
<1>3. ASSUME NEW n \in (fills \cup {cached}) \ {None}, NEW q \in 1 .. QuarterOf(MaxEpoch),
             ReadsQuarter(q, n)
      PROVE  IInv'
  <2>1. /\ UNCHANGED <<outside, stored, process>> /\ head' = head /\ phase' = phase
        /\ GetsBlockNumber(n) /\ request.kind = "quarters" /\ request.number # None
        /\ q \in 1 .. QuartersCount(request.number)
        /\ request' = [request EXCEPT !.reads = @ \cup {[quarter |-> q, number |-> n]}]
    BY <1>3 DEF ReadsQuarter, outside, process
  <2>2. /\ n \in Nat /\ n <= head
        /\ cached' \in Nat \cup {None} /\ fills' \subseteq Nat /\ HeightsPast'
    BY <2>1, HeightRead
  <2>3. /\ request \in QuartersRequest /\ phase = "up" /\ QuartersOK
    BY <2>1, <1>t DEF IInv
  <2> DEFINE x == [quarter |-> q, number |-> n]
  <2>4. /\ request' = [request EXCEPT !.reads = @ \cup {x}]
        /\ x \in [quarter : Nat \ {0}, number : Nat]
        /\ x.quarter = q /\ x.number = n
    BY <2>1, <2>2
  <2> HIDE DEF x
  <2>5. /\ request' \in QuartersRequest /\ request'.kind = "quarters"
        /\ request'.number = request.number /\ request'.reads = request.reads \cup {x}
    BY <2>3, <2>4 DEF QuartersRequest
  <2>6. q <= QuartersCount(request.number)
    BY <2>1
  <2>7. QuartersOK'
    BY <2>1, <2>2, <2>3, <2>4, <2>5, <2>6 DEF QuartersOK
  <2>8. RequestServed' /\ PostingOK' /\ GateOK'
    BY <2>1, <2>3, <2>5 DEF RequestServed, PostingOK, GateOK
  <2> QED
    BY <2>1, <2>2, <2>5, <2>7, <2>8, RequestStep
<1> QED
  BY <1>1, <1>2, <1>3

(* The reads of a request for an orchestrator's postings.                  *)
LEMMA PostingStep ==
  ASSUME ServiceAssumption, IInv,
         \/ \E o \in Orchestrators, q \in 1 .. QuarterOf(MaxEpoch) : AsksPosting(o, q)
         \/ \E n \in (fills \cup {cached}) \ {None} : ReadsForPosting(n)
         \/ ReadsPostings
  PROVE  IInv'
<1>t. /\ head \in Nat /\ cached \in Nat \cup {None} /\ fills \subseteq Nat
      /\ HeightsPast /\ PostingOK
      /\ request.kind = "posting" => request \in PostingRequest /\ phase = "up"
      /\ ServiceTypeOK
  BY RequestKinds DEF IInv, ServiceTypeOK, RequestServed, Idle
<1>e. EndOf("sra") \in Int /\ EndOf("sra") < head
  BY <1>t, EndType DEF IInv, CursorBelowHead, EndOf, Actors
<1>1. ASSUME NEW o \in Orchestrators, NEW q \in 1 .. QuarterOf(MaxEpoch), AsksPosting(o, q)
      PROVE  IInv'
  <2>1. /\ UNCHANGED <<outside, stored, process>> /\ cached' = cached /\ fills' = fills
        /\ phase' = "up" /\ head' = head /\ state' = state
        /\ request' = [kind |-> "posting", orchestrator |-> o, quarter |-> q,
                       number |-> None, read |-> FALSE, rows |-> {},
                       indexed |-> EndOf("sra")]
    BY <1>1 DEF AsksPosting, cache, process, outside, stored
  <2>2. request' \in PostingRequest
    BY <2>1, <1>e DEF PostingRequest
  <2>3. EndOf("sra")' = EndOf("sra")
    BY <2>1 DEF EndOf
  <2>4. HeightsPast' /\ RequestServed' /\ QuartersOK' /\ PostingOK' /\ GateOK'
    BY <2>1, <2>3, <1>t, <1>e DEF HeightsPast, RequestServed, QuartersOK, PostingOK, GateOK
  <2> QED
    BY <2>1, <2>2, <2>4, <1>t, RequestStep
<1>2. ASSUME NEW n \in (fills \cup {cached}) \ {None}, ReadsForPosting(n) PROVE IInv'
  <2>1. /\ UNCHANGED <<outside, stored, process>> /\ head' = head /\ phase' = phase
        /\ chain' = chain /\ state' = state
        /\ GetsBlockNumber(n) /\ request.kind = "posting"
        /\ request' = [request EXCEPT !.number = n]
    BY <1>2 DEF ReadsForPosting, outside, process, stored
  <2>2. /\ n \in Nat /\ n <= head
        /\ cached' \in Nat \cup {None} /\ fills' \subseteq Nat /\ HeightsPast'
    BY <2>1, HeightRead
  <2>3. request \in PostingRequest /\ phase = "up"
    BY <2>1, <1>t
  <2>4. /\ request' \in PostingRequest /\ request'.kind = "posting"
        /\ request'.orchestrator = request.orchestrator
        /\ request'.quarter = request.quarter
        /\ request'.read = request.read /\ request'.rows = request.rows
        /\ request'.indexed = request.indexed
        /\ request'.number # None
    BY <2>1, <2>2, <2>3, ServiceAssumption DEF PostingRequest, ServiceAssumption
  <2>5. EndOf("sra")' = EndOf("sra")
    BY <2>1 DEF EndOf
  <2>6. RequestServed' /\ QuartersOK' /\ GateOK'
    BY <2>1, <2>3, <2>4 DEF RequestServed, QuartersOK, GateOK
  <2>7. PostingOK'
    BY <2>1, <2>4, <2>5, <1>t DEF PostingOK
  <2> QED
    BY <2>1, <2>2, <2>4, <2>6, <2>7, RequestStep
<1>3. CASE ReadsPostings
  <2> DEFINE rows == PostingsOf(request.orchestrator, request.quarter)
  <2>1. /\ UNCHANGED <<outside, stored, process>> /\ head' = head /\ phase' = phase
        /\ chain' = chain /\ state' = state /\ cached' = cached /\ fills' = fills
        /\ request.kind = "posting" /\ request.number # None
        /\ request' = [request EXCEPT !.read = TRUE, !.rows = rows]
    BY <1>3 DEF ReadsPostings, outside, process, stored, cache
  <2>2. request \in PostingRequest /\ phase = "up"
    BY <2>1, <1>t
  <2>3. /\ rows \subseteq Posting
        /\ \A r \in chain.postings : r.at.epoch \in Nat
        /\ rows = {r \in chain.postings :
                     /\ r.at.epoch <= EndOf("sra")
                     /\ r.orchestrator = request.orchestrator
                     /\ r.quarter = request.quarter}
    <3>1. tables.postings = Indexed(chain.postings, "sra")
      BY DEF IInv, TablesReplayLog
    <3>2. chain.postings \subseteq Posting /\ \A r \in chain.postings : r.at.epoch \in Nat
      BY <1>t, EventPositions DEF ServiceTypeOK, Tables, Events
    <3> QED
      BY <3>1, <3>2 DEF PostingsOf, Indexed
  <2> HIDE DEF rows
  <2>4. /\ request' \in PostingRequest /\ request'.kind = "posting"
        /\ request'.orchestrator = request.orchestrator
        /\ request'.quarter = request.quarter
        /\ request'.rows = rows
        /\ request'.indexed = request.indexed
        /\ request'.number # None
    BY <2>1, <2>2, <2>3 DEF PostingRequest
  <2>5. EndOf("sra")' = EndOf("sra")
    BY <2>1 DEF EndOf
  <2>6. RequestServed' /\ QuartersOK' /\ GateOK' /\ HeightsPast'
    BY <2>1, <2>2, <2>4, <1>t DEF RequestServed, QuartersOK, GateOK, HeightsPast
  <2>7. request.indexed <= EndOf("sra") /\ request.indexed \in Int
    BY <1>t, <2>1, <2>2 DEF PostingOK, PostingRequest
  <2>8. \A r \in rows : r \in chain.postings /\ r.orchestrator = request.orchestrator
                        /\ r.quarter = request.quarter /\ r.at.epoch < head
    BY <1>t, <1>e, <2>3
  <2>9. \A s \in chain.postings \ rows :
          s.orchestrator = request.orchestrator /\ s.quarter = request.quarter =>
            /\ request.indexed < s.at.epoch
            /\ \A r \in rows : r.at.epoch < s.at.epoch
    BY <1>e, <2>3, <2>7
  <2>10. PostingOK'
    BY <2>1, <2>4, <2>5, <2>7, <2>8, <2>9 DEF PostingOK
  <2> QED
    BY <1>t, <2>1, <2>4, <2>6, <2>10, RequestStep
<1> QED
  BY <1>1, <1>2, <1>3

(* What the tables know as of an indexed epoch is what the chain knows.    *)
LEMMA AsOfIndexed ==
  ASSUME NEW S, NEW a, NEW e \in Nat, e # None, EndOf(a) \in Int, e <= EndOf(a),
         \A r \in S : r.at.epoch \in Nat
  PROVE  AsOf(Indexed(S, a), e) = AsOf(S, e)
BY DEF AsOf, Indexed

(* The reads of a request for a gate target.                               *)
LEMMA GateStep ==
  ASSUME ServiceAssumption, IInv,
         \/ \E e \in 0 .. MaxEpoch \cup {None} : AsksGate(e)
         \/ ReadsParams
         \/ ReadsChecks
  PROVE  IInv'
<1>t. /\ head \in Nat /\ cached \in Nat \cup {None} /\ fills \subseteq Nat
      /\ HeightsPast /\ GateOK /\ TablesReplayLog
      /\ request.kind = "gate" => request \in GateRequest /\ phase = "up"
      /\ ServiceTypeOK
  BY RequestKinds DEF IInv, ServiceTypeOK, RequestServed, Idle
<1>e. EndOf("swa") \in Int
  BY <1>t, EndType DEF Actors
<1>1. ASSUME NEW e \in 0 .. MaxEpoch \cup {None}, AsksGate(e) PROVE IInv'
  <2>1. /\ UNCHANGED <<outside, stored, process>> /\ cached' = cached /\ fills' = fills
        /\ phase' = "up" /\ head' = head /\ state' = state
        /\ request' = [kind |-> "gate", epoch |-> e, read |-> {}, params |-> {},
                       checks |-> {}, indexed |-> EndOf("swa")]
    BY <1>1 DEF AsksGate, cache, process, outside, stored
  <2>2. request' \in GateRequest
    BY <2>1, <1>e, ServiceAssumption DEF GateRequest, ServiceAssumption
  <2>3. EndOf("swa")' = EndOf("swa")
    BY <2>1 DEF EndOf
  <2>4. HeightsPast' /\ RequestServed' /\ QuartersOK' /\ PostingOK' /\ GateOK'
    BY <2>1, <2>3, <1>t, <1>e DEF HeightsPast, RequestServed, QuartersOK, PostingOK, GateOK
  <2> QED
    BY <2>1, <2>2, <2>4, <1>t, RequestStep
<1>2. CASE ReadsParams
  <2> DEFINE rows == LastRow(AsOf(tables.params, request.epoch))
  <2>1. /\ UNCHANGED <<outside, stored, process>> /\ head' = head /\ phase' = phase
        /\ chain' = chain /\ state' = state /\ cached' = cached /\ fills' = fills
        /\ request.kind = "gate"
        /\ request' = [request EXCEPT !.read = @ \cup {"params"}, !.params = rows]
    BY <1>2 DEF ReadsParams, outside, process, stored, cache
  <2>2. request \in GateRequest /\ phase = "up"
    BY <2>1, <1>t
  <2>3. rows \subseteq GateParams
    BY <1>t DEF ServiceTypeOK, Tables, LastRow, AsOf
  <2>4. request.epoch # None /\ request.epoch <= request.indexed =>
          rows = LastRow(AsOf(chain.params, request.epoch))
    <3>1. SUFFICES ASSUME request.epoch # None, request.epoch <= request.indexed
                   PROVE  AsOf(tables.params, request.epoch) = AsOf(chain.params, request.epoch)
      OBVIOUS
    <3>2. /\ request.indexed <= EndOf("swa") /\ request.indexed \in Int
          /\ request.epoch \in Nat
      BY <1>t, <2>1, <2>2, <3>1 DEF GateOK, GateRequest
    <3>3. \A r \in chain.params : r.at.epoch \in Nat
      BY <1>t, EventPositions DEF Events
    <3>4. request.epoch <= EndOf("swa")
      BY <3>1, <3>2, <1>e
    <3> QED
      BY <1>t, <1>e, <3>1, <3>2, <3>3, <3>4, AsOfIndexed DEF TablesReplayLog
  <2> HIDE DEF rows
  <2>5. /\ request' \in GateRequest /\ request'.kind = "gate"
        /\ request'.epoch = request.epoch /\ request'.read = request.read \cup {"params"}
        /\ request'.params = rows /\ request'.checks = request.checks
        /\ request'.indexed = request.indexed
    BY <2>1, <2>2, <2>3 DEF GateRequest
  <2>6. EndOf("swa")' = EndOf("swa")
    BY <2>1 DEF EndOf
  <2>7. RequestServed' /\ QuartersOK' /\ PostingOK' /\ HeightsPast'
    BY <2>1, <2>2, <2>5, <1>t DEF RequestServed, QuartersOK, PostingOK, HeightsPast
  <2>8. GateOK'
    BY <1>t, <2>1, <2>4, <2>5, <2>6 DEF GateOK, LastRow, AsOf
  <2> QED
    BY <1>t, <2>1, <2>5, <2>7, <2>8, RequestStep
<1>3. CASE ReadsChecks
  <2> DEFINE rows == LastRow(AsOf(tables.checks, request.epoch))
  <2>1. /\ UNCHANGED <<outside, stored, process>> /\ head' = head /\ phase' = phase
        /\ chain' = chain /\ state' = state /\ cached' = cached /\ fills' = fills
        /\ request.kind = "gate"
        /\ request' = [request EXCEPT !.read = @ \cup {"checks"}, !.checks = rows]
    BY <1>3 DEF ReadsChecks, outside, process, stored, cache
  <2>2. request \in GateRequest /\ phase = "up"
    BY <2>1, <1>t
  <2>3. rows \subseteq GateCheck
    BY <1>t DEF ServiceTypeOK, Tables, LastRow, AsOf
  <2>4. request.epoch # None /\ request.epoch <= request.indexed =>
          rows = LastRow(AsOf(chain.checks, request.epoch))
    <3>1. SUFFICES ASSUME request.epoch # None, request.epoch <= request.indexed
                   PROVE  AsOf(tables.checks, request.epoch) = AsOf(chain.checks, request.epoch)
      OBVIOUS
    <3>2. /\ request.indexed <= EndOf("swa") /\ request.indexed \in Int
          /\ request.epoch \in Nat
      BY <1>t, <2>1, <2>2, <3>1 DEF GateOK, GateRequest
    <3>3. \A r \in chain.checks : r.at.epoch \in Nat
      BY <1>t, EventPositions DEF Events
    <3>4. request.epoch <= EndOf("swa")
      BY <3>1, <3>2, <1>e
    <3> QED
      BY <1>t, <1>e, <3>1, <3>2, <3>3, <3>4, AsOfIndexed DEF TablesReplayLog
  <2> HIDE DEF rows
  <2>5. /\ request' \in GateRequest /\ request'.kind = "gate"
        /\ request'.epoch = request.epoch /\ request'.read = request.read \cup {"checks"}
        /\ request'.checks = rows /\ request'.params = request.params
        /\ request'.indexed = request.indexed
    BY <2>1, <2>2, <2>3 DEF GateRequest
  <2>6. EndOf("swa")' = EndOf("swa")
    BY <2>1 DEF EndOf
  <2>7. RequestServed' /\ QuartersOK' /\ PostingOK' /\ HeightsPast'
    BY <2>1, <2>2, <2>5, <1>t DEF RequestServed, QuartersOK, PostingOK, HeightsPast
  <2>8. GateOK'
    BY <1>t, <2>1, <2>4, <2>5, <2>6 DEF GateOK, LastRow, AsOf
  <2> QED
    BY <1>t, <2>1, <2>5, <2>7, <2>8, RequestStep
<1> QED
  BY <1>1, <1>2, <1>3

(* A response ends the request.                                            *)
LEMMA AnsweredStep ==
  ASSUME IInv, Answered
  PROVE  IInv'
<1>0. /\ UNCHANGED <<outside, stored, process>> /\ cached' = cached /\ fills' = fills
      /\ request' = Idle /\ head' = head
  BY DEF Answered, cache, outside
<1>1. /\ cached' \in Nat \cup {None} /\ fills' \subseteq Nat /\ HeightsPast'
  BY <1>0 DEF IInv, ServiceTypeOK, HeightsPast
<1>2. RequestServed' /\ QuartersOK' /\ PostingOK' /\ GateOK'
  BY <1>0 DEF RequestServed, QuartersOK, PostingOK, GateOK, Idle
<1> QED
  BY <1>0, <1>1, <1>2, RequestStep

(* Every step keeps the invariant.                                         *)
LEMMA StepInvariant ==
  ASSUME ServiceAssumption, IInv, [Next]_vars
  PROVE  IInv'
<1>1. CASE ChainGrows
  BY <1>1, ChainGrowsStep
<1>2. CASE Emits
  BY <1>2, EmitsStep
<1>3. CASE Indexes
  <2>1. PICK to \in 0 .. MaxEpoch : IndexSra(to) \/ IndexSwa(to)
    BY <1>3 DEF Indexes
  <2>2. to \in Nat
    BY <2>1
  <2> QED
    BY <2>1, <2>2, IndexSraStep, IndexSwaStep
<1>4. CASE Restarts
  BY <1>4, CrashStep, StartStep, CleanupStep DEF Restarts
<1>5. CASE Caches
  BY <1>5, CachesStep
<1>6. CASE Requests
  BY <1>6, QuartersStep, PostingStep, GateStep, AnsweredStep DEF Requests
<1>7. CASE UNCHANGED vars
  <2>1. UNCHANGED <<outside, stored, process, cache, request>>
    BY <1>7 DEF vars, outside, stored, process, cache
  <2>2. /\ request' \in QuartersRequest \cup PostingRequest \cup GateRequest \cup {Idle}
        /\ cached' \in Nat \cup {None} /\ fills' \subseteq Nat
        /\ HeightsPast' /\ RequestServed' /\ QuartersOK' /\ PostingOK' /\ GateOK'
    BY <1>7 DEF vars, IInv, ServiceTypeOK, HeightsPast, RequestServed, QuartersOK,
                PostingOK, GateOK, EndOf, LastRow, AsOf
  <2> QED
    BY <2>1, <2>2, RequestStep
<1> QED
  BY <1>1, <1>2, <1>3, <1>4, <1>5, <1>6, <1>7 DEF Next

-----------------------------------------------------------------------------
(* What the invariant says of the answers.                                 *)

Smaller == {p \in Nat \X Nat : p[1] < p[2]}

(* A set of numbers has a smallest one.                                    *)
LEMMA SmallestExists ==
  ASSUME NEW T \in SUBSET Nat, T # {}
  PROVE  \E x \in T : \A y \in T : x <= y
<1>1. OpToRel(<, Nat) = Smaller
  BY DEF OpToRel, Smaller
<1>2. IsWellFoundedOn(Smaller, Nat)
  BY <1>1, NatLessThanWellFounded
<1>3. PICK x \in T : \A y \in T : <<y, x>> \notin Smaller
  BY <1>2, WFMin
<1>4. ASSUME NEW y \in T PROVE x <= y
  <2>1. <<y, x>> \notin Smaller /\ x \in Nat /\ y \in Nat
    BY <1>3
  <2> QED
    BY <2>1 DEF Smaller
<1> QED
  BY <1>4

(* Some posting is the first one.                                          *)
LEMMA FirstRowExists ==
  ASSUME NEW S \in SUBSET Posting, S # {}
  PROVE  FirstRow(S) # {}
<1> DEFINE epochs == {r.at.epoch : r \in S}
<1>1. \A r \in S : r.at.epoch \in Nat /\ r.at.log \in Nat
  BY DEF Posting, Position
<1>2. PICK r1 \in S : \A s \in S : r1.at.epoch <= s.at.epoch
  <2>1. epochs \in SUBSET Nat /\ epochs # {}
    BY <1>1
  <2>2. PICK e \in epochs : \A f \in epochs : e <= f
    <3> HIDE DEF epochs
    <3> QED
      BY <2>1, SmallestExists
  <2>3. PICK r \in S : e = r.at.epoch
    BY <2>2
  <2>4. \A s \in S : r.at.epoch <= s.at.epoch
    BY <2>2, <2>3
  <2> QED
    BY <2>3, <2>4
<1> DEFINE block == {r \in S : r.at.epoch = r1.at.epoch}
           logs  == {r.at.log : r \in block}
<1>3. PICK r2 \in block : \A s \in block : r2.at.log <= s.at.log
  <2>1. logs \in SUBSET Nat /\ logs # {}
    BY <1>1, <1>2
  <2>2. PICK l \in logs : \A k \in logs : l <= k
    <3> HIDE DEF logs
    <3> QED
      BY <2>1, SmallestExists
  <2>3. PICK r \in block : l = r.at.log
    BY <2>2
  <2>4. \A s \in block : r.at.log <= s.at.log
    BY <2>2, <2>3
  <2> QED
    BY <2>3, <2>4
<1>4. ASSUME NEW s \in S PROVE AtOrBefore(r2.at, s.at)
  <2>1. r2.at.epoch = r1.at.epoch /\ r1.at.epoch <= s.at.epoch
    BY <1>2, <1>3
  <2>2. CASE s.at.epoch = r1.at.epoch
    <3>1. r2.at.log <= s.at.log
      BY <2>2, <1>3
    <3> QED
      BY <2>1, <2>2, <3>1 DEF AtOrBefore
  <2>3. CASE s.at.epoch # r1.at.epoch
    BY <1>1, <2>1, <2>3 DEF AtOrBefore
  <2> QED
    BY <2>2, <2>3
<1>5. r2 \in FirstRow(S)
  BY <1>3, <1>4 DEF FirstRow
<1> QED
  BY <1>5

(* The rows up to the deadline are complete when the flag is computed.     *)
LEMMA MissedFollows == IInv => MissedIsRight
<1> SUFFICES ASSUME IInv, request.kind = "posting", request.read,
                    request.rows # {} \/ (/\ Deadline(request.quarter) <= request.indexed
                                          /\ Deadline(request.quarter) < request.number)
             PROVE  Missed(request) <=>
                      ~ \E r \in chain.postings :
                          /\ r.orchestrator = request.orchestrator
                          /\ r.quarter = request.quarter
                          /\ r.at.epoch <= Deadline(request.quarter)
  BY DEF MissedIsRight
<1> DEFINE d == Deadline(request.quarter)
           mine(r) == r.orchestrator = request.orchestrator /\ r.quarter = request.quarter
<1>1. /\ request \in PostingRequest /\ PostingOK
      /\ \A r \in chain.postings : r.at.epoch \in Nat
  BY RequestKinds, EventPositions DEF IInv, ServiceTypeOK, Events
<1>2. /\ request.rows \in SUBSET Posting /\ request.indexed \in Int
      /\ request.quarter \in Nat \ {0} /\ request.number \in Nat \cup {None}
  BY <1>1 DEF PostingRequest
<1>3. d \in Int
  <2>1. EPOCHS_PER_QUARTER * (request.quarter - 1) \in Int
    BY <1>2, CalendarAssumption DEF CalendarAssumption
  <2> QED
    BY <2>1, CalendarAssumption, ServiceAssumption
    DEF Deadline, QuarterEnd, QuarterStart, CalendarAssumption, ServiceAssumption
<1>4. /\ \A r \in request.rows : r \in chain.postings /\ mine(r)
      /\ \A s \in chain.postings \ request.rows :
           mine(s) => /\ request.indexed < s.at.epoch
                      /\ \A r \in request.rows : r.at.epoch < s.at.epoch
  BY <1>1 DEF PostingOK
<1>5. CASE request.rows = {}
  <2>1. /\ d <= request.indexed /\ d < request.number
        /\ request.number \in Nat
    BY <1>1, <1>2, <1>5 DEF PostingOK
  <2>2. Missed(request)
    BY <1>3, <1>5, <2>1 DEF Missed
  <2>3. ASSUME NEW s \in chain.postings, mine(s) PROVE ~(s.at.epoch <= d)
    <3>1. request.indexed < s.at.epoch
      BY <1>4, <1>5, <2>3
    <3> HIDE DEF d
    <3> QED
      BY <1>1, <1>2, <1>3, <2>1, <3>1
  <2> QED
    BY <2>2, <2>3
<1>6. CASE request.rows # {}
  <2>1. PICK f \in FirstRow(request.rows) : TRUE
    BY <1>2, <1>6, FirstRowExists
  <2>2. /\ f \in request.rows /\ f \in chain.postings /\ f.at.epoch \in Nat
        /\ \A s \in request.rows : AtOrBefore(f.at, s.at)
    BY <2>1, <1>4, <1>1 DEF FirstRow
  <2>3. Missed(request) <=> \A r \in FirstRow(request.rows) : r.at.epoch > d
    BY <1>6 DEF Missed
  <2>4. ASSUME Missed(request), NEW s \in chain.postings, mine(s)
        PROVE  ~(s.at.epoch <= d)
    <3>1. f.at.epoch > d
      BY <2>1, <2>3, <2>4
    <3>2. f.at.epoch <= s.at.epoch
      <4>1. CASE s \in request.rows
        BY <1>1, <2>2, <2>4, <4>1 DEF AtOrBefore
      <4>2. CASE s \notin request.rows
        BY <1>1, <1>4, <2>2, <2>4, <4>2
      <4> QED
        BY <4>1, <4>2
    <3> HIDE DEF d
    <3> QED
      BY <1>1, <1>3, <2>2, <3>1, <3>2
  <2>5. ASSUME ~Missed(request)
        PROVE  \E s \in chain.postings : mine(s) /\ s.at.epoch <= d
    <3>1. PICK r \in FirstRow(request.rows) : ~(r.at.epoch > d)
      BY <2>3, <2>5
    <3>2. r \in request.rows
      BY <3>1 DEF FirstRow
    <3>3. r \in chain.postings /\ mine(r) /\ r.at.epoch \in Nat
      BY <3>2, <1>1, <1>4
    <3> HIDE DEF d, mine
    <3> QED
      BY <1>3, <3>1, <3>3
  <2> QED
    BY <2>4, <2>5
<1> QED
  BY <1>5, <1>6

(* Whatever height was read, a quarter called over is over.                *)
LEMMA QuartersFollow == IInv => QuartersTruthful
<1> SUFFICES ASSUME IInv, QuartersAnswered, NEW x \in request.reads
             PROVE  /\ QuarterStart(x.quarter) <= head
                    /\ Completed(x.quarter, x.number) => QuarterEnd(x.quarter) < head
  BY DEF QuartersTruthful
<1> DEFINE n == request.number
<1>1. /\ request \in QuartersRequest /\ head \in Nat /\ QuartersOK /\ n # None
      /\ request.kind = "quarters"
  BY RequestKinds DEF IInv, ServiceTypeOK, QuartersAnswered
<1>2. /\ n \in Nat /\ x.quarter \in Nat \ {0} /\ x.number \in Nat
  BY <1>1 DEF QuartersRequest
<1>3. /\ ACTIVATION_EPOCH <= n /\ n <= head
      /\ x.quarter <= QuartersCount(n) /\ x.number <= head
  BY <1>1 DEF QuartersOK
<1> HIDE DEF n
<1> DEFINE c == QuarterOf(n)
<1>4. /\ c \in Nat \ {0} /\ QuarterStart(c) \in Nat /\ QuarterStart(c) <= n
  BY <1>2, <1>3, QuarterBounds, CalendarAssumption
<1>5. x.quarter <= c
  BY <1>3, <1>4 DEF QuartersCount
<1> HIDE DEF c
<1>6. QuarterStart(x.quarter) \in Int /\ QuarterEnd(x.quarter) \in Int
  <2>1. EPOCHS_PER_QUARTER * (x.quarter - 1) \in Int
    BY <1>2, CalendarAssumption
  <2> QED
    BY <2>1, CalendarAssumption DEF QuarterStart, QuarterEnd
<1>7. QuarterStart(x.quarter) <= QuarterStart(c)
  <2>1. CASE x.quarter = c
    BY <2>1, <1>4
  <2>2. CASE x.quarter < c
    <3> DEFINE k == x.quarter - 1
               l == c - 1
    <3>1. k \in Nat /\ l \in Nat /\ k < l
      BY <1>2, <1>4, <2>2
    <3>2. EPOCHS_PER_QUARTER * k + EPOCHS_PER_QUARTER <= EPOCHS_PER_QUARTER * l
      <4> HIDE DEF k, l
      <4> QED
        BY <3>1, TimesMonotone, CalendarAssumption
    <3>3. /\ QuarterStart(x.quarter) = ACTIVATION_EPOCH + EPOCHS_PER_QUARTER * k
          /\ QuarterStart(c) = ACTIVATION_EPOCH + EPOCHS_PER_QUARTER * l
      BY DEF QuarterStart
    <3>4. EPOCHS_PER_QUARTER * k \in Int /\ EPOCHS_PER_QUARTER * l \in Int
      <4> HIDE DEF k, l
      <4> QED
        BY <3>1, CalendarAssumption
    <3> HIDE DEF k, l
    <3> QED
      BY <3>2, <3>3, <3>4, CalendarAssumption
  <2> QED
    BY <1>2, <1>4, <1>5, <2>1, <2>2
<1>8. QuarterStart(x.quarter) <= head
  BY <1>1, <1>2, <1>3, <1>4, <1>6, <1>7
<1>9. Completed(x.quarter, x.number) => QuarterEnd(x.quarter) < head
  BY <1>1, <1>2, <1>3, <1>6 DEF Completed
<1> QED
  BY <1>8, <1>9

(* The last rows as of an indexed epoch are those of the chain.            *)
LEMMA GateFollows == IInv => GateTargetAsOf
BY DEF IInv, GateOK, GateTargetAsOf, GateAnswered

-----------------------------------------------------------------------------
(* The volumes that are posted.                                            *)

(* No two postings have one position.                                      *)
PostingsApart == \A r, s \in chain.postings : r.at = s.at => r = s

(* A posting comes after all events, and nothing else adds one.            *)
LEMMA PostingsApartStep ==
  ASSUME IInv, PostingsApart, [Next]_vars
  PROVE  PostingsApart'
<1>0. /\ chain \in Tables
      /\ \A r \in chain.postings : r.at \in Position
  BY EventPositions DEF IInv, ServiceTypeOK, Events
<1>1. CASE chain'.postings = chain.postings
  BY <1>1 DEF PostingsApart
<1>2. ASSUME NEW o \in Orchestrators, NEW q \in 1 .. QuarterOf(MaxEpoch), NEW v \in Volumes,
             NEW at, Posts(o, q, v, at)
      PROVE  PostingsApart'
  <2> DEFINE row == [orchestrator |-> o, quarter |-> q, volume |-> v,
                     correction |-> {r \in chain.postings :
                                       r.orchestrator = o /\ r.quarter = q} # {},
                     at |-> at]
  <2>1. row.at = at /\ chain' = [chain EXCEPT !.postings = @ \cup {row}]
    BY <1>2 DEF Posts
  <2> HIDE DEF row
  <2>2. chain'.postings = chain.postings \cup {row}
    BY <1>0, <2>1 DEF Tables
  <2>3. \A r \in chain.postings : Before(r.at, at)
    BY <1>2 DEF Posts, NextEvent, Events
  <2>4. \A r \in chain.postings : r.at # at
    BY <1>0, <2>3 DEF Before, Position
  <2> QED
    BY <2>1, <2>2, <2>4 DEF PostingsApart
<1>3. CASE Emits
  <2>1. PICK log \in 0 .. MaxLog - 1 :
        \/ \E o \in Orchestrators : Admits(o, At(head, log))
        \/ \E o \in Orchestrators, q \in 1 .. QuarterOf(MaxEpoch), v \in Volumes :
             Posts(o, q, v, At(head, log))
        \/ \E t \in Tokens : Lists(t, At(head, log))
        \/ \E g \in Gates : SetsGate(g, At(head, log))
        \/ \E passed \in BOOLEAN : ChecksGate(passed, At(head, log))
    BY <1>3 DEF Emits
  <2>2. ASSUME \/ \E o \in Orchestrators : Admits(o, At(head, log))
               \/ \E t \in Tokens : Lists(t, At(head, log))
               \/ \E g \in Gates : SetsGate(g, At(head, log))
               \/ \E passed \in BOOLEAN : ChecksGate(passed, At(head, log))
        PROVE  chain'.postings = chain.postings
    BY <1>0, <2>2 DEF Admits, Lists, SetsGate, ChecksGate, Tables
  <2> QED
    BY <1>1, <1>2, <2>1, <2>2
<1>4. CASE ChainGrows \/ Indexes \/ Restarts \/ Caches \/ Requests \/ UNCHANGED vars
  <2>1. chain' = chain
    <3>1. CASE ChainGrows \/ Indexes \/ UNCHANGED vars
      BY <3>1 DEF ChainGrows, Indexes, IndexSra, IndexSwa, outside, vars
    <3>2. CASE Restarts
      BY <3>2 DEF Restarts, Crash, Started, Boots, CleansUp, CleanupRejected, outside
    <3>3. CASE Caches
      BY <3>3 DEF Caches, AsksNode, CacheExpires, FillsCache, outside
    <3>4. CASE Requests
      BY <3>4 DEF Requests, AsksQuarters, CountsQuarters, ReadsQuarter, ReadsForPosting,
                  AsksPosting, ReadsPostings, AsksGate, ReadsParams, ReadsChecks,
                  Answered, outside
    <3> QED
      BY <1>4, <3>1, <3>2, <3>3, <3>4
  <2> QED
    BY <1>1, <2>1
<1> QED
  BY <1>3, <1>4 DEF Next

(* The last row is one or none, and says what is summed and shown.         *)
LEMMA LastRowIsOne ==
  ASSUME NEW S, \A r \in S : r.at \in Position /\ r.volume \in Nat,
         \A r, s \in S : r.at = s.at => r = s
  PROVE  /\ LastRow(S) = {r \in S : \A s \in S \ {r} : Before(s.at, r.at)}
         /\ LastRow(S) = {} \/ \E r \in S : LastRow(S) = {r}
<1>1. \A r, s \in S : AtOrBefore(s.at, r.at) <=> s.at = r.at \/ Before(s.at, r.at)
  BY DEF AtOrBefore, Before, Position
<1>2. \A r \in S : r \in LastRow(S) <=> \A s \in S \ {r} : Before(s.at, r.at)
  BY <1>1 DEF LastRow
<1>3. LastRow(S) \subseteq S
  BY DEF LastRow
<1>4. \A r, s \in LastRow(S) : r = s
  <2> SUFFICES ASSUME NEW r \in LastRow(S), NEW s \in LastRow(S) PROVE r = s
    OBVIOUS
  <2>1. r \in S /\ s \in S /\ r.at \in Position /\ s.at \in Position
    BY <1>3
  <2>2. AtOrBefore(s.at, r.at) /\ AtOrBefore(r.at, s.at)
    BY <2>1 DEF LastRow
  <2>3. r.at = s.at
    BY <2>1, <2>2 DEF AtOrBefore, Position
  <2> QED
    BY <2>1, <2>3
<1> QED
  BY <1>2, <1>3, <1>4

(* The volume of at most one row.                                          *)
LEMMA VolumeOfOne ==
  /\ VolumeOf({}) = 0
  /\ \A r : r.volume \in Nat => VolumeOf({r}) = r.volume
<1>1. VolumeOf({}) = 0
  <2> DEFINE f == [r \in {} |-> r.volume]
  <2>1. SumFunction(f) = SumOver(f, {})
    BY DEF SumOver
  <2>2. SumOver(f, {}) = 0
    BY FS_EmptySet, SumByPicked
  <2> QED
    BY <2>1, <2>2 DEF VolumeOf
<1>2. ASSUME NEW r, r.volume \in Nat PROVE VolumeOf({r}) = r.volume
  <2> DEFINE S == {r}
             f == [x \in S |-> x.volume]
  <2>1. SumFunction(f) = SumOver(f, S)
    BY DEF SumOver
  <2>2. IsFiniteSet(S) /\ r \in S /\ S \ {r} = {} /\ f[r] = r.volume
    BY FS_Singleton
  <2>3. \A x \in S : f[x] \in Int
    BY <1>2
  <2> HIDE DEF f, S
  <2>4. SumOver(f, S) = f[r] + SumOver(f, S \ {r})
    BY <2>2, <2>3, SumWithout
  <2>5. SumOver(f, {}) = 0
    BY FS_EmptySet, SumByPicked
  <2>6. SumFunction(f) = r.volume
    BY <1>2, <2>1, <2>2, <2>4, <2>5
  <2> QED
    BY <2>6 DEF VolumeOf, f, S
<1> QED
  BY <1>1, <1>2

(* Both answers about postings are right, and they agree.                  *)
LEMMA PostingsFollow ==
  ASSUME ServiceAssumption, IInv, PostingsApart
  PROVE  PostingsAddUp
<1> SUFFICES ASSUME NEW q \in 1 .. QuarterOf(head)
             PROVE  LET said(o)  == {r \in Indexed(chain.postings, "sra") :
                                       r.orchestrator = o /\ r.quarter = q}
                        final(o) == VolumeOf({r \in said(o) :
                                      \A s \in said(o) \ {r} : Before(s.at, r.at)})
                        shown(o) == FinalVolume(PostingsOf(o, q))
                    IN  /\ \A o \in Orchestrators :
                              final(o) = IF shown(o) = None THEN 0 ELSE shown(o)
                        /\ Aggregated(q) = SumFunction([o \in Orchestrators |-> final(o)])
  BY DEF PostingsAddUp
<1> DEFINE said(o)  == {r \in Indexed(chain.postings, "sra") :
                          r.orchestrator = o /\ r.quarter = q}
           final(o) == VolumeOf({r \in said(o) :
                         \A s \in said(o) \ {r} : Before(s.at, r.at)})
           shown(o) == FinalVolume(PostingsOf(o, q))
           last == [o \in Orchestrators |-> LastRow(PostingsOf(o, q))]
           all == UNION {LastRow(PostingsOf(o, q)) : o \in Orchestrators}
           f == [r \in all |-> r.volume]
           sum == [o \in Orchestrators |-> final(o)]
<1>1. \A r \in chain.postings : r.at \in Position /\ r.volume \in Nat
  BY EventPositions DEF IInv, ServiceTypeOK, Events, Tables, Posting
<1>2. \A o \in Orchestrators : said(o) = PostingsOf(o, q)
  BY DEF IInv, TablesReplayLog, PostingsOf
<1>3. \A o \in Orchestrators :
        /\ PostingsOf(o, q) \subseteq chain.postings
        /\ \A r \in PostingsOf(o, q) : r.orchestrator = o
  BY <1>2 DEF Indexed
<1>4. ASSUME NEW o \in Orchestrators
      PROVE  /\ final(o) = VolumeOf(last[o])
             /\ last[o] = {} \/ \E r \in PostingsOf(o, q) : last[o] = {r}
  <2> DEFINE S == PostingsOf(o, q)
  <2>1. /\ \A r \in S : r.at \in Position /\ r.volume \in Nat
        /\ \A r, s \in S : r.at = s.at => r = s
    BY <1>1, <1>3 DEF PostingsApart
  <2>2. said(o) = S /\ last[o] = LastRow(S)
    BY <1>2
  <2> HIDE DEF S, said, last
  <2>3. /\ LastRow(S) = {r \in S : \A s \in S \ {r} : Before(s.at, r.at)}
        /\ LastRow(S) = {} \/ \E r \in S : LastRow(S) = {r}
    BY <2>1, LastRowIsOne
  <2> QED
    BY <2>2, <2>3 DEF S
<1>5. ASSUME NEW o \in Orchestrators
      PROVE  /\ final(o) = IF shown(o) = None THEN 0 ELSE shown(o)
             /\ final(o) = SumOver(f, last[o])
             /\ IsFiniteSet(last[o])
             /\ \A r \in last[o] : f[r] \in Int /\ r.orchestrator = o
  <2>0. /\ \A r \in last[o] : r \in all /\ f[r] = r.volume
        /\ last[o] \subseteq PostingsOf(o, q)
        /\ last[o] = LastRow(PostingsOf(o, q))
    BY DEF LastRow
  <2>1. [r \in last[o] |-> r.volume] = [r \in last[o] |-> f[r]]
    BY <2>0
  <2>2. VolumeOf(last[o]) = SumOver(f, last[o])
    BY <2>1 DEF VolumeOf, SumOver
  <2>3. \A r \in last[o] : f[r] \in Int /\ r.orchestrator = o /\ r.volume \in Nat
    BY <1>1, <1>3, <2>0
  <2>4. final(o) = VolumeOf(last[o])
    BY <1>4
  <2> HIDE DEF f, all, last, final
  <2>5. CASE last[o] = {}
    <3>1. shown(o) = None
      BY <2>0, <2>5 DEF FinalVolume
    <3>2. VolumeOf(last[o]) = 0
      BY <2>5, VolumeOfOne
    <3> HIDE DEF shown
    <3> QED
      BY <2>2, <2>3, <2>4, <2>5, <3>1, <3>2, FS_EmptySet
  <2>6. ASSUME NEW r \in PostingsOf(o, q), last[o] = {r}
        PROVE  /\ final(o) = IF shown(o) = None THEN 0 ELSE shown(o)
               /\ IsFiniteSet(last[o])
    <3>1. r.volume \in Nat /\ r.volume # None
      BY <2>3, <2>6
    <3>2. VolumeOf(last[o]) = r.volume
      BY <2>6, <3>1, VolumeOfOne
    <3>3. shown(o) = IF r.volume = 0 THEN None ELSE r.volume
      <4>1. LastRow(PostingsOf(o, q)) = {r}
        BY <2>0, <2>6
      <4>2. {x.volume : x \in {r}} = {r.volume}
        OBVIOUS
      <4>3. (CHOOSE v \in {r.volume} : TRUE) = r.volume
        OBVIOUS
      <4> QED
        BY <4>1, <4>2, <4>3 DEF FinalVolume
    <3>4. IsFiniteSet(last[o])
      <4>1. IsFiniteSet({r})
        BY FS_Singleton
      <4> QED
        BY <2>6, <4>1
    <3> HIDE DEF shown
    <3> QED
      BY <2>4, <3>1, <3>2, <3>3, <3>4
  <2> HIDE DEF shown
  <2> QED
    BY <1>4, <2>2, <2>3, <2>4, <2>5, <2>6
<1>6. ASSUME NEW o \in Orchestrators, NEW p \in Orchestrators, o # p
      PROVE  last[o] \cap last[p] = {}
  <2>1. /\ \A r \in last[o] : r.orchestrator = o
        /\ \A r \in last[p] : r.orchestrator = p
    BY <1>5
  <2> HIDE DEF last
  <2> QED
    BY <1>6, <2>1
<1>7. all = UNION {last[o] : o \in Orchestrators}
  OBVIOUS
<1>8. SumOver(sum, Orchestrators) = SumOver(f, all)
  <2>1. \A o \in Orchestrators : sum[o] = SumOver(f, last[o])
    <3>1. \A o \in Orchestrators : sum[o] = final(o)
      OBVIOUS
    <3> HIDE DEF sum, final, f, last
    <3> QED
      BY <1>5, <3>1
  <2>2. \A o \in Orchestrators : IsFiniteSet(last[o]) /\ \A r \in last[o] : f[r] \in Int
    BY <1>5
  <2>3. IsFiniteSet(Orchestrators)
    BY DEF ServiceAssumption
  <2> HIDE DEF sum, f, last, all
  <2>4. SumOver(sum, Orchestrators) = SumOver(f, UNION {last[o] : o \in Orchestrators})
    BY <1>6, <2>1, <2>2, <2>3, SumOfParts
  <2> QED
    BY <1>7, <2>4
<1>9. Aggregated(q) = SumOver(f, all)
  <2>1. [r \in all |-> r.volume] = [r \in all |-> f[r]]
    OBVIOUS
  <2> QED
    BY <2>1 DEF Aggregated, VolumeOf, SumOver
<1>10. SumFunction(sum) = SumOver(sum, Orchestrators)
  BY DEF SumOver
<1> HIDE DEF f, all, last, final, shown, sum
<1>11. \A o \in Orchestrators : final(o) = IF shown(o) = None THEN 0 ELSE shown(o)
  BY <1>5
<1>12. Aggregated(q) = SumFunction(sum)
  BY <1>8, <1>9, <1>10
<1> QED
  BY <1>11, <1>12 DEF final, shown, sum

-----------------------------------------------------------------------------
(* The theorems.                                                           *)

(* The invariant holds in every reachable state.                           *)
THEOREM Invariant == Spec => []IInv
<1>1. Init => IInv
  BY InitInvariant
<1>2. IInv /\ [Next]_vars => IInv'
  BY ServiceAssumption, StepInvariant
<1> QED
  BY <1>1, <1>2, PTL DEF Spec

(* Rows, cursors, requests and the cache keep their types.                 *)
THEOREM TypeCorrect == Spec => []ServiceTypeOK
<1>1. IInv => ServiceTypeOK
  BY DEF IInv
<1> QED
  BY <1>1, Invariant, PTL

(* The tables are the actors' logs up to the cursors, through crashes,     *)
(* upgrades and lookups that fail.                                         *)
THEOREM LogReplayed == Spec => []TablesReplayLog
<1>1. IInv => TablesReplayLog
  BY DEF IInv
<1> QED
  BY <1>1, Invariant, PTL

(* A process serves nothing that another major version has written.        *)
THEOREM OwnVersionServed == Spec => []ServedByOwnVersion
<1>1. IInv => ServedByOwnVersion
  BY DEF IInv
<1> QED
  BY <1>1, Invariant, PTL

(* No quarter is listed before it begins or completed before it has ended. *)
THEOREM QuartersTrue == Spec => []QuartersTruthful
<1>1. IInv => QuartersTruthful
  BY QuartersFollow
<1> QED
  BY <1>1, Invariant, PTL

(* The posting window was missed exactly when nothing was posted in it.    *)
THEOREM MissedRight == Spec => []MissedIsRight
<1>1. IInv => MissedIsRight
  BY MissedFollows
<1> QED
  BY <1>1, Invariant, PTL

(* The gate's target as of an indexed epoch is the chain's.                *)
THEOREM GateTargetRight == Spec => []GateTargetAsOf
<1>1. IInv => GateTargetAsOf
  BY GateFollows
<1> QED
  BY <1>1, Invariant, PTL

(* The aggregated volume is the sum of the final volumes, and those are    *)
(* what the last of each orchestrator's events says.                       *)
THEOREM PostingsSum == Spec => []PostingsAddUp
<1>1. Init => PostingsApart
  BY DEF Init, NoRows, PostingsApart
<1>2. IInv /\ PostingsApart /\ [Next]_vars => PostingsApart'
  BY PostingsApartStep
<1>3. Spec => []PostingsApart
  BY <1>1, <1>2, Invariant, PTL DEF Spec
<1>4. IInv /\ PostingsApart => PostingsAddUp
  BY ServiceAssumption, PostingsFollow
<1> QED
  BY <1>3, <1>4, Invariant, PTL
=============================================================================
