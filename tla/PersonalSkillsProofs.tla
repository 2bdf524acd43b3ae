------------------------- MODULE PersonalSkillsProofs -------------------------
(***************************************************************************)
(* What the user and the judge have decided about a skill is kept to, for  *)
(* any rows, hashes, requests, overlap, lost or late memory calls and      *)
(* crashes.  A row's hash never changes and a decided row is never again   *)
(* pending, so what a request has read of either stays true until it is    *)
(* done: that is RequestHolds.                                             *)
(***************************************************************************)
EXTENDS PersonalSkills, TLAPS

Decided(s) == Exists(s) /\ skill[s].status # "pending_review"
Accepted(s) == Exists(s) /\ <<skill[s].hash, "accept">> \in reviews

RowHolds(s) ==
    /\ Personal(s) => skill[s].hash \in Hash
    /\ memory[s] = "active" \/ <<s, "active">> \in late => Accepted(s)
    /\ shares[s] > 0 => Decided(s)

(* An extract's row is its own until it is created. *)
OwnsTarget(r) ==
    /\ ~Exists(target[r])
    /\ \A q \in Request \ {r} : pc[q] # "idle" => target[q] # target[r]

Reviews(r) == op[r] \in {"activate", "reject"}

RequestHolds(r) ==
    /\ pc[r] # "idle" => target[r] \in Skill
    /\ pc[r] \in {"reviews", "agent"} => OwnsTarget(r) /\ edit[r] \in Hash
    /\ pc[r] = "reviews" => known[r] \subseteq Rejected
    /\ pc[r] = "agent" => known[r] \subseteq seen[r]
    /\ pc[r] \in Calls \ {"reviews", "agent"} => Exists(target[r])
    /\ pc[r] \in {"review", "sync", "share", "flip", "unsync"} => Decided(target[r])
    /\ pc[r] = "status" => op[r] \in DOMAIN StatusAfter
    /\ pc[r] \in {"review", "sync"} => Reviews(r)
    /\ pc[r] \in {"status", "review", "sync"} /\ Reviews(r) => skill[target[r]].hash \in Hash
    /\ pc[r] = "sync" => Accepted(target[r])

SkillInv ==
    /\ TypeOK
    /\ \A s \in Skill : RowHolds(s)
    /\ \A r \in Request : RequestHolds(r)

(* What no step takes back. *)
Grows ==
    /\ reviews \subseteq reviews'
    /\ \A s \in Skill : Exists(s) =>
          /\ Exists(s)'
          /\ skill'[s].hash = skill[s].hash
          /\ skill[s].status # "pending_review" => skill'[s].status # "pending_review"

-----------------------------------------------------------------------------
LEMMA StartsHolding == Init => SkillInv
  <1> SUFFICES ASSUME Init PROVE SkillInv
    OBVIOUS
  <1>1. TypeOK
    BY DEF Init, TypeOK
  <1>2. \A s \in Skill : RowHolds(s)
    BY DEF Init, RowHolds, Personal, Exists
  <1>3. \A r \in Request : RequestHolds(r)
    BY DEF Init, RequestHolds, Calls
  <1>4. QED
    BY <1>1, <1>2, <1>3 DEF SkillInv

(* A request that a step leaves alone. *)
LEMMA RequestStays ==
  ASSUME NEW r \in Request, RequestHolds(r), Grows, pc[r] \in Calls \cup {"idle"},
         pc'[r] = pc[r], op'[r] = op[r], target'[r] = target[r], edit'[r] = edit[r],
         known'[r] = known[r], seen'[r] = seen[r],
         pc[r] \in {"reviews", "agent"} => OwnsTarget(r)'
  PROVE  RequestHolds(r)'
  <1>1. pc[r] = "reviews" => known'[r] \subseteq Rejected'
    BY DEF RequestHolds, Grows, Rejected
  <1>2. pc[r] \in Calls \ {"reviews", "agent"} => target[r] \in Skill /\ Exists(target[r])
    BY DEF RequestHolds, Calls
  <1>3. pc[r] \in Calls \ {"reviews", "agent"} =>
          /\ skill'[target[r]] # None
          /\ skill'[target[r]].hash = skill[target[r]].hash
    BY <1>2 DEF Grows, Exists
  <1>4. pc[r] \in {"review", "sync", "share", "flip", "unsync"} => Decided(target[r])'
    BY <1>2, <1>3 DEF RequestHolds, Decided, Grows, Exists, Calls
  <1>5. pc[r] = "sync" => Accepted(target[r])'
    BY <1>2, <1>3 DEF RequestHolds, Accepted, Grows, Exists, Calls
  <1>6. pc[r] \in Calls \ {"reviews", "agent"} => Exists(target[r])'
    BY <1>3 DEF Exists
  <1>7. Reviews(r)' <=> Reviews(r)
    BY DEF Reviews
  <1>8. pc[r] \in {"status", "review", "sync"} /\ Reviews(r) => skill'[target[r]].hash \in Hash
    BY <1>3 DEF RequestHolds, Calls
  <1>9. QED
    BY <1>1, <1>4, <1>5, <1>6, <1>7, <1>8 DEF RequestHolds

LEMMA RowStays ==
  ASSUME NEW s \in Skill, RowHolds(s), Grows, skill'[s] = skill[s], shares'[s] = shares[s],
         memory'[s] = "active" \/ <<s, "active">> \in late' =>
             memory[s] = "active" \/ <<s, "active">> \in late
  PROVE  RowHolds(s)'
  BY DEF RowHolds, Personal, Exists, Accepted, Decided, Grows

LEMMA Unchanged == skill' = skill /\ reviews \subseteq reviews' => Grows
  BY DEF Grows, Exists

(* A step of request r: the others keep what they hold. *)
LEMMA OthersStay ==
  ASSUME NEW r \in Request, SkillInv, Grows,
         \A q \in Request \ {r} :
             /\ pc'[q] = pc[q] /\ op'[q] = op[q] /\ target'[q] = target[q] /\ edit'[q] = edit[q]
             /\ known'[q] = known[q] /\ seen'[q] = seen[q]
             /\ pc[q] \in {"reviews", "agent"} =>
                   /\ skill'[target[q]] = None
                   /\ pc'[r] # "idle" => target'[r] # target[q]
  PROVE  \A q \in Request \ {r} : RequestHolds(q)'
  <1> SUFFICES ASSUME NEW q \in Request \ {r} PROVE RequestHolds(q)'
    OBVIOUS
  <1>1. pc[q] \in {"reviews", "agent"} => OwnsTarget(q)'
    <2> SUFFICES ASSUME pc[q] \in {"reviews", "agent"} PROVE OwnsTarget(q)'
      OBVIOUS
    <2>1. OwnsTarget(q)
      BY DEF SkillInv, RequestHolds
    <2>2. \A p \in Request \ {q} : pc'[p] # "idle" => target'[p] # target'[q]
      <3> SUFFICES ASSUME NEW p \in Request \ {q}, pc'[p] # "idle" PROVE target'[p] # target'[q]
        OBVIOUS
      <3>1. CASE p = r
        BY <3>1
      <3>2. CASE p # r
        BY <3>2, <2>1 DEF OwnsTarget
      <3>3. QED
        BY <3>1, <3>2
    <2>3. QED
      BY <2>2 DEF OwnsTarget, Exists
  <1>2. RequestHolds(q) /\ pc[q] \in Calls \cup {"idle"}
    BY DEF SkillInv, TypeOK
  <1>3. QED
    BY <1>1, <1>2, RequestStays

-----------------------------------------------------------------------------
(* One lemma for each action: the type, what only grows, the rows, the     *)
(* other requests, and the request that takes the step.                    *)
LEMMA ExtractHolds ==
  ASSUME SkillInv, NEW r \in Request, NEW s \in Skill, NEW h \in Hash, Extract(r, s, h)
  PROVE  SkillInv'
  <1>1. TypeOK'
    <2>1. SkillHashes \subseteq Hash
      <3>1. \A t \in Skill : Personal(t) => skill[t].hash \in Hash
        BY DEF SkillInv, RowHolds
      <3>2. ASSUME NEW g \in SkillHashes PROVE g \in Hash
        <4>1. PICK t \in Skill : Personal(t) /\ g = skill[t].hash
          BY <3>2 DEF SkillHashes
        <4>2. QED
          BY <3>1, <4>1
      <3>3. QED
        BY <3>2
    <2>2. QED
      BY <2>1
         DEF SkillInv, TypeOK, Rejected, Calls, Extract, Fresh, InFlight,
             Accept, storeVars, memoryVars
  <1>2. Grows
    BY Unchanged DEF Extract, Fresh, InFlight, Accept, storeVars, memoryVars
  <1>3. \A t \in Skill : RowHolds(t)'
    BY <1>2, RowStays
       DEF SkillInv, Extract, Fresh, InFlight, Accept, storeVars, memoryVars
  <1>4. \A q \in Request \ {r} : RequestHolds(q)'
    BY <1>2, OthersStay
       DEF SkillInv, TypeOK, RequestHolds, OwnsTarget, Exists, Extract, Fresh,
           InFlight, Accept, storeVars, memoryVars
  <1>5. RequestHolds(r)'
    BY <1>1, <1>2
       DEF SkillInv, TypeOK, RequestHolds, OwnsTarget, Exists, Calls, Rejected,
           Decided, Accepted, Reviews, Personal, Extract, Fresh, InFlight,
           Accept, storeVars, memoryVars
  <1>6. QED
    BY <1>1, <1>3, <1>4, <1>5 DEF SkillInv

LEMMA ReadRejectedHolds ==
  ASSUME SkillInv, NEW r \in Request, ReadRejected(r)
  PROVE  SkillInv'
  <1>1. TypeOK'
    BY DEF SkillInv, TypeOK, Calls, Rejected, ReadRejected, Goto, storeVars, memoryVars
  <1>2. Grows
    BY Unchanged DEF ReadRejected, Goto, storeVars, memoryVars
  <1>3. \A t \in Skill : RowHolds(t)'
    BY <1>2, RowStays DEF SkillInv, ReadRejected, Goto, storeVars, memoryVars
  <1>4. \A q \in Request \ {r} : RequestHolds(q)'
    BY <1>2, OthersStay
       DEF SkillInv, TypeOK, RequestHolds, OwnsTarget, Exists, ReadRejected,
           Goto, storeVars, memoryVars
  <1>5. RequestHolds(r)'
    <2>1. pc[r] = "reviews" /\ RequestHolds(r) /\ pc'[r] = "agent"
      BY DEF SkillInv, TypeOK, ReadRejected, Goto
    <2>2. OwnsTarget(r)'
      BY <2>1
         DEF SkillInv, TypeOK, RequestHolds, OwnsTarget, Exists, ReadRejected,
             Goto, storeVars
    <2>3. known'[r] \subseteq seen'[r]
      BY <2>1 DEF SkillInv, TypeOK, RequestHolds, ReadRejected, Goto
    <2>4. target'[r] \in Skill /\ edit'[r] \in Hash
      BY <2>1 DEF RequestHolds, ReadRejected, Goto
    <2>5. QED
      BY <2>1, <2>2, <2>3, <2>4 DEF RequestHolds
  <1>6. QED
    BY <1>1, <1>3, <1>4, <1>5 DEF SkillInv

LEMMA DecideHolds ==
  ASSUME SkillInv, NEW r \in Request, NEW o \in DOMAIN StatusAfter, NEW s \in Skill, Decide(r, o, s)
  PROVE  SkillInv'
  <1>1. TypeOK'
    BY DEF SkillInv, TypeOK, Calls, StatusAfter, Decide, Accept, storeVars, memoryVars
  <1>2. Grows
    BY Unchanged DEF Decide, Accept, storeVars, memoryVars
  <1>3. \A t \in Skill : RowHolds(t)'
    BY <1>2, RowStays DEF SkillInv, Decide, Accept, storeVars, memoryVars
  <1>4. \A q \in Request \ {r} : RequestHolds(q)'
    BY <1>2, OthersStay
       DEF SkillInv, TypeOK, RequestHolds, OwnsTarget, Exists, Decide, Accept,
           storeVars, memoryVars
  <1>5. RequestHolds(r)'
    BY ZenonT(30), <1>1, <1>2
       DEF SkillInv, TypeOK, RequestHolds, OwnsTarget, Exists, Calls, Rejected,
           Decided, Accepted, Reviews, Personal, Decide, Accept, storeVars,
           memoryVars, RowHolds
  <1>6. QED
    BY <1>1, <1>3, <1>4, <1>5 DEF SkillInv

LEMMA ShareHolds ==
  ASSUME SkillInv, NEW r \in Request, NEW s \in Skill, Share(r, s)
  PROVE  SkillInv'
  <1>1. TypeOK'
    BY DEF SkillInv, TypeOK, Calls, Share, Accept, storeVars, memoryVars
  <1>2. Grows
    BY Unchanged DEF Share, Accept, storeVars, memoryVars
  <1>3. \A t \in Skill : RowHolds(t)'
    BY <1>2, RowStays DEF SkillInv, Share, Accept, storeVars, memoryVars
  <1>4. \A q \in Request \ {r} : RequestHolds(q)'
    BY <1>2, OthersStay
       DEF SkillInv, TypeOK, RequestHolds, OwnsTarget, Exists, Personal, Share,
           Accept, storeVars, memoryVars
  <1>5. RequestHolds(r)'
    BY <1>1, <1>2
       DEF SkillInv, TypeOK, RequestHolds, OwnsTarget, Exists, Calls, Rejected,
           Decided, Accepted, Reviews, Personal, Share, Accept, storeVars,
           memoryVars, RowHolds
  <1>6. QED
    BY <1>1, <1>3, <1>4, <1>5 DEF SkillInv

LEMMA RecordReviewHolds ==
  ASSUME SkillInv, NEW r \in Request, RecordReview(r)
  PROVE  SkillInv'
  <1>1. TypeOK'
    BY DEF SkillInv, TypeOK, Calls, RequestHolds, RecordReview, Goto,
       storeVars, memoryVars
  <1>2. Grows
    BY Unchanged DEF RecordReview, Goto, storeVars, memoryVars
  <1>3. \A t \in Skill : RowHolds(t)'
    BY <1>2, RowStays DEF SkillInv, RecordReview, Goto, storeVars, memoryVars
  <1>4. \A q \in Request \ {r} : RequestHolds(q)'
    BY <1>2, OthersStay
       DEF SkillInv, TypeOK, RequestHolds, OwnsTarget, Exists, RecordReview,
           Goto, storeVars, memoryVars
  <1>5. RequestHolds(r)'
    BY <1>1, <1>2
       DEF SkillInv, TypeOK, RequestHolds, OwnsTarget, Exists, Calls, Rejected,
           Decided, Accepted, Reviews, Personal, RecordReview, Goto, storeVars,
           memoryVars
  <1>6. QED
    BY <1>1, <1>3, <1>4, <1>5 DEF SkillInv

LEMMA ShareReadsHolds ==
  ASSUME SkillInv, NEW r \in Request, ShareReads(r)
  PROVE  SkillInv'
  <1>1. TypeOK'
    BY DEF SkillInv, TypeOK, Calls, ShareReads, Goto, storeVars, memoryVars
  <1>2. Grows
    BY Unchanged DEF ShareReads, Goto, storeVars, memoryVars
  <1>3. \A t \in Skill : RowHolds(t)'
    BY <1>2, RowStays DEF SkillInv, ShareReads, Goto, storeVars, memoryVars
  <1>4. \A q \in Request \ {r} : RequestHolds(q)'
    BY <1>2, OthersStay
       DEF SkillInv, TypeOK, RequestHolds, OwnsTarget, Exists, ShareReads,
           Goto, storeVars, memoryVars
  <1>5. RequestHolds(r)'
    BY <1>1, <1>2
       DEF SkillInv, TypeOK, RequestHolds, OwnsTarget, Exists, Calls, Rejected,
           Decided, Accepted, Reviews, Personal, ShareReads, Goto, storeVars,
           memoryVars
  <1>6. QED
    BY <1>1, <1>3, <1>4, <1>5 DEF SkillInv

LEMMA SyncHolds ==
  ASSUME SkillInv, NEW r \in Request, Sync(r)
  PROVE  SkillInv'
  <1>0. pc[r] = "sync" /\ RequestHolds(r) /\ target[r] \in Skill
    BY DEF SkillInv, TypeOK, RequestHolds, Sync, Goto
  <1>1. TypeOK'
    <2>1. /\ memory' \in [Skill -> {"absent", "active", "inactive"}]
          /\ late' \subseteq Skill \X {"active", "inactive"}
          /\ losses' \in Nat
      BY <1>0, SkillsAssumption DEF SkillInv, TypeOK, Sync, Upsert, memoryVars
    <2>2. pc' \in [Request -> Calls \cup {"idle"}]
      BY DEF SkillInv, TypeOK, Sync, Goto
    <2>3. QED
      BY <2>1, <2>2 DEF SkillInv, TypeOK, Sync, Goto, storeVars
  <1>2. Grows
    BY Unchanged DEF Sync, Upsert, Goto, storeVars, memoryVars
  <1>3. \A t \in Skill : RowHolds(t)'
    <2> SUFFICES ASSUME NEW t \in Skill PROVE RowHolds(t)'
      OBVIOUS
    <2>1. RowHolds(t) /\ skill' = skill /\ reviews' = reviews /\ shares' = shares
      BY DEF SkillInv, Sync, storeVars
    <2>2. memory'[t] = "active" \/ <<t, "active">> \in late' =>
            memory[t] = "active" \/ <<t, "active">> \in late \/ t = target[r]
      BY <1>0 DEF SkillInv, TypeOK, Sync, Upsert, memoryVars
    <2>3. Accepted(target[r])
      BY <1>0 DEF RequestHolds
    <2>4. QED
      BY <2>1, <2>2, <2>3 DEF RowHolds, Personal, Exists, Accepted, Decided
  <1>4. \A q \in Request \ {r} : RequestHolds(q)'
    BY <1>2, OthersStay
       DEF SkillInv, TypeOK, RequestHolds, OwnsTarget, Exists, Sync, Upsert,
           Goto, storeVars, memoryVars
  <1>5. RequestHolds(r)'
    BY <1>1, <1>2
       DEF SkillInv, TypeOK, RequestHolds, OwnsTarget, Exists, Calls, Rejected,
           Decided, Accepted, Reviews, Personal, Sync, Upsert, Goto, storeVars,
           memoryVars
  <1>6. QED
    BY <1>1, <1>3, <1>4, <1>5 DEF SkillInv

LEMMA UnsyncHolds ==
  ASSUME SkillInv, NEW r \in Request, Unsync(r)
  PROVE  SkillInv'
  <1>0. pc[r] = "unsync" /\ RequestHolds(r) /\ target[r] \in Skill
    BY DEF SkillInv, TypeOK, RequestHolds, Unsync, Goto
  <1>1. TypeOK'
    <2>1. /\ memory' \in [Skill -> {"absent", "active", "inactive"}]
          /\ late' \subseteq Skill \X {"active", "inactive"}
          /\ losses' \in Nat
      BY <1>0, SkillsAssumption DEF SkillInv, TypeOK, Unsync, Upsert, memoryVars
    <2>2. pc' \in [Request -> Calls \cup {"idle"}]
      BY DEF SkillInv, TypeOK, Unsync, Goto
    <2>3. QED
      BY <2>1, <2>2 DEF SkillInv, TypeOK, Unsync, Goto, storeVars
  <1>2. Grows
    BY Unchanged DEF Unsync, Upsert, Goto, storeVars, memoryVars
  <1>3. \A t \in Skill : RowHolds(t)'
    <2> SUFFICES ASSUME NEW t \in Skill PROVE RowHolds(t)'
      OBVIOUS
    <2>1. RowHolds(t) /\ skill' = skill /\ shares' = shares
      BY DEF SkillInv, Unsync, storeVars
    <2>2. memory'[t] = "active" \/ <<t, "active">> \in late' =>
            memory[t] = "active" \/ <<t, "active">> \in late
      BY <1>0 DEF SkillInv, TypeOK, Unsync, Upsert
    <2>3. QED
      BY <1>2, <2>1, <2>2, RowStays
  <1>4. \A q \in Request \ {r} : RequestHolds(q)'
    BY <1>2, OthersStay
       DEF SkillInv, TypeOK, RequestHolds, OwnsTarget, Exists, Unsync, Upsert,
           Goto, storeVars, memoryVars
  <1>5. RequestHolds(r)'
    BY <1>1, <1>2
       DEF SkillInv, TypeOK, RequestHolds, OwnsTarget, Exists, Calls, Rejected,
           Decided, Accepted, Reviews, Personal, Unsync, Upsert, Goto,
           storeVars, memoryVars
  <1>6. QED
    BY <1>1, <1>3, <1>4, <1>5 DEF SkillInv

LEMMA PersistHolds ==
  ASSUME SkillInv, NEW r \in Request, Persist(r)
  PROVE  SkillInv'
  <1>0. /\ pc[r] = "agent" /\ target[r] \in Skill /\ edit[r] \in Hash
        /\ OwnsTarget(r) /\ skill[target[r]] = None
    BY DEF SkillInv, RequestHolds, OwnsTarget, Exists, Persist, Goto
  <1> DEFINE new == [status |-> "pending_review", scope |-> "user", hash |-> edit[r]]
  <1>1. new \in Row
    BY <1>0 DEF Row
  <1>2. new # None /\ new.scope = "user" /\ new.hash = edit[r]
    BY <1>1, NoneIsNoRow
  <1>3. \/ skill' = skill
        \/ reviews' = reviews /\ skill' = [skill EXCEPT ![target[r]] = new]
    BY DEF Persist
  <1> HIDE DEF new
  <1>4. TypeOK'
    <2>1. skill' \in [Skill -> Row \cup {None}]
      BY <1>0, <1>1, <1>3 DEF SkillInv, TypeOK
    <2>2. reviews' \subseteq Hash \X {"accept", "reject"}
      BY <1>0 DEF SkillInv, TypeOK, Persist
    <2>3. QED
      BY <2>1, <2>2 DEF SkillInv, TypeOK, Persist, Goto, memoryVars
  <1>5. skill \in [Skill -> Row \cup {None}] /\ reviews \subseteq reviews'
    BY DEF SkillInv, TypeOK, Persist
  <1>6. Grows
    BY <1>0, <1>3, <1>5 DEF Grows, Exists
  <1>7. \A t \in Skill : RowHolds(t)'
    <2> SUFFICES ASSUME NEW t \in Skill PROVE RowHolds(t)'
      OBVIOUS
    <2>1. RowHolds(t) /\ memory' = memory /\ late' = late /\ shares' = shares
      BY DEF SkillInv, Persist, memoryVars
    <2>2. CASE skill'[t] = skill[t]
      BY <1>6, <2>1, <2>2, RowStays
    <2>3. CASE skill'[t] # skill[t]
      <3>1. t = target[r] /\ skill'[t] = new
        BY <1>3, <1>5, <2>3
      <3>2. ~Accepted(t) /\ ~Decided(t)
        BY <1>0, <3>1 DEF Accepted, Decided, Exists
      <3>3. QED
        BY <1>0, <1>2, <2>1, <3>1, <3>2 DEF RowHolds, Personal
    <2>4. QED
      BY <2>2, <2>3
  <1>8. \A q \in Request \ {r} : RequestHolds(q)'
    <2>1. \A q \in Request \ {r} : pc[q] # "idle" => target[q] # target[r] /\ target[q] \in Skill
      BY <1>0 DEF OwnsTarget, SkillInv, RequestHolds
    <2>2. \A q \in Request \ {r} : pc[q] \in {"reviews", "agent"} => skill'[target[q]] = None
      BY <1>3, <1>5, <2>1 DEF SkillInv, RequestHolds, OwnsTarget, Exists
    <2>3. \A q \in Request \ {r} : pc'[q] = pc[q] /\ seen' = seen
      BY DEF SkillInv, TypeOK, Persist, Goto
    <2>4. pc'[r] = "idle" /\ UNCHANGED <<op, target, edit, known>>
      BY DEF SkillInv, TypeOK, Persist, Goto
    <2>5. QED
      BY <1>6, <2>2, <2>3, <2>4, OthersStay
  <1>9. RequestHolds(r)'
    BY DEF SkillInv, TypeOK, RequestHolds, Calls, Persist, Goto
  <1>10. QED
    BY <1>4, <1>7, <1>8, <1>9 DEF SkillInv

LEMMA SetStatusHolds ==
  ASSUME SkillInv, NEW r \in Request, SetStatus(r)
  PROVE  SkillInv'
  <1> DEFINE s == target[r]
             new == [skill[s] EXCEPT !.status = StatusAfter[op[r]]]
  <1>0. /\ pc[r] = "status" /\ s \in Skill /\ Exists(s) /\ op[r] \in DOMAIN StatusAfter
        /\ Reviews(r) => skill[s].hash \in Hash
    BY DEF SkillInv, RequestHolds, Calls, SetStatus, Goto
  <1>1. skill[s] \in Row
    BY <1>0 DEF SkillInv, TypeOK, Exists
  <1>2. StatusAfter[op[r]] \in {"active", "archived", "rejected"}
    BY <1>0 DEF StatusAfter
  <1>3. /\ new \in Row /\ new.status = StatusAfter[op[r]]
        /\ new.hash = skill[s].hash /\ new.scope = skill[s].scope
    BY <1>1, <1>2 DEF Row
  <1>4. skill' = [skill EXCEPT ![s] = new]
    BY <1>0 DEF SetStatus
  <1>5. new # None /\ new.status # "pending_review"
    BY <1>2, <1>3, NoneIsNoRow
  <1> HIDE DEF new
  <1>6. skill \in [Skill -> Row \cup {None}] /\ skill' \in [Skill -> Row \cup {None}]
    BY <1>0, <1>3, <1>4 DEF SkillInv, TypeOK
  <1>7. TypeOK'
    <2>1. personal' \in [Request -> BOOLEAN]
      BY DEF SkillInv, TypeOK, SetStatus, Personal, Exists
    <2>2. pc' \in [Request -> Calls \cup {"idle"}]
      BY DEF SkillInv, TypeOK, SetStatus, Goto, Calls
    <2>3. QED
      BY <1>6, <2>1, <2>2 DEF SkillInv, TypeOK, SetStatus, Goto, memoryVars
  <1>8. Grows
    BY <1>3, <1>4, <1>5, <1>6 DEF Grows, Exists, SetStatus
  <1>9. \A t \in Skill : RowHolds(t)'
    <2> SUFFICES ASSUME NEW t \in Skill PROVE RowHolds(t)'
      OBVIOUS
    <2>1. /\ RowHolds(t) /\ memory' = memory /\ late' = late /\ shares' = shares
          /\ reviews' = reviews
      BY DEF SkillInv, SetStatus, memoryVars
    <2>2. CASE t # s
      BY <1>4, <1>6, <1>8, <2>1, <2>2, RowStays
    <2>3. CASE t = s
      <3>1. skill'[t] = new
        BY <1>4, <1>6, <2>3
      <3>2. Personal(t)' => Personal(t)
        BY <1>0, <1>3, <2>3, <3>1 DEF Personal
      <3>3. Accepted(t)' <=> Accepted(t)
        BY <1>0, <1>3, <1>5, <2>1, <2>3, <3>1 DEF Accepted, Exists
      <3>4. Decided(t)'
        BY <1>5, <3>1 DEF Decided, Exists
      <3>5. QED
        BY <1>3, <2>1, <2>3, <3>1, <3>2, <3>3, <3>4 DEF RowHolds
    <2>4. QED
      BY <2>2, <2>3
  <1>10. \A q \in Request \ {r} : RequestHolds(q)'
    <2>1. \A q \in Request \ {r} : pc[q] \in {"reviews", "agent"} =>
            skill'[target[q]] = None /\ target[q] # s
      BY <1>0, <1>4, <1>6 DEF SkillInv, RequestHolds, OwnsTarget, Exists
    <2>2. \A q \in Request \ {r} : pc'[q] = pc[q] /\ seen' = seen
      BY DEF SkillInv, TypeOK, SetStatus, Goto
    <2>3. UNCHANGED <<op, target, edit, known>>
      BY DEF SetStatus, Goto
    <2>4. QED
      BY <1>8, <2>1, <2>2, <2>3, OthersStay
  <1>11. RequestHolds(r)'
    <2>1. /\ UNCHANGED <<op, target, edit, known>>
          /\ skill'[s] = new
          /\ pc'[r] = IF Reviews(r) THEN "review" ELSE "idle"
      BY <1>0, <1>4, <1>6 DEF SkillInv, TypeOK, SetStatus, Goto, Reviews
    <2>2. Decided(s)' /\ Exists(s)'
      BY <1>5, <2>1 DEF Decided, Exists
    <2>3. QED
      BY <1>0, <1>3, <2>1, <2>2 DEF RequestHolds, Reviews
  <1>12. QED
    BY <1>7, <1>9, <1>10, <1>11 DEF SkillInv

LEMMA ShareWritesHolds ==
  ASSUME SkillInv, NEW r \in Request, ShareWrites(r)
  PROVE  SkillInv'
  <1> DEFINE s == target[r]
             new == [skill[s] EXCEPT !.scope = "workspace"]
  <1>0. pc[r] = "flip" /\ s \in Skill /\ Decided(s) /\ Exists(s)
    BY DEF SkillInv, RequestHolds, Decided, ShareWrites, Goto
  <1>1. skill[s] \in Row
    BY <1>0 DEF SkillInv, TypeOK, Exists
  <1>2. /\ new \in Row /\ new.status = skill[s].status
        /\ new.hash = skill[s].hash /\ new.scope = "workspace"
    BY <1>1 DEF Row
  <1>3. skill' = [skill EXCEPT ![s] = new]
    BY <1>0 DEF ShareWrites
  <1>4. new # None /\ new.status # "pending_review"
    BY <1>0, <1>2, NoneIsNoRow DEF Decided
  <1> HIDE DEF new
  <1>5. skill \in [Skill -> Row \cup {None}] /\ skill' \in [Skill -> Row \cup {None}]
    BY <1>0, <1>2, <1>3 DEF SkillInv, TypeOK
  <1>6. TypeOK'
    BY <1>5 DEF SkillInv, TypeOK, ShareWrites, Goto, memoryVars, Calls
  <1>7. Grows
    BY <1>2, <1>3, <1>4, <1>5 DEF Grows, Exists, ShareWrites
  <1>8. \A t \in Skill : RowHolds(t)'
    <2> SUFFICES ASSUME NEW t \in Skill PROVE RowHolds(t)'
      OBVIOUS
    <2>1. RowHolds(t) /\ memory' = memory /\ late' = late /\ reviews' = reviews
      BY DEF SkillInv, ShareWrites, memoryVars
    <2>2. CASE t # s
      <3>1. skill'[t] = skill[t] /\ shares'[t] = shares[t]
        BY <1>3, <1>5, <2>2 DEF SkillInv, TypeOK, ShareWrites
      <3>2. QED
        BY <1>7, <2>1, <3>1, RowStays
    <2>3. CASE t = s
      <3>1. skill'[t] = new
        BY <1>3, <1>5, <2>3
      <3>2. ~Personal(t)'
        BY <1>2, <3>1 DEF Personal
      <3>3. Accepted(t)' <=> Accepted(t)
        BY <1>0, <1>2, <1>4, <2>1, <2>3, <3>1 DEF Accepted, Exists
      <3>4. Decided(t)'
        BY <1>4, <3>1 DEF Decided, Exists
      <3>5. QED
        BY <2>1, <3>2, <3>3, <3>4 DEF RowHolds
    <2>4. QED
      BY <2>2, <2>3
  <1>9. \A q \in Request \ {r} : RequestHolds(q)'
    <2>1. \A q \in Request \ {r} : pc[q] \in {"reviews", "agent"} =>
            skill'[target[q]] = None /\ target[q] # s
      BY <1>0, <1>3, <1>5 DEF SkillInv, RequestHolds, OwnsTarget, Exists
    <2>2. \A q \in Request \ {r} : pc'[q] = pc[q] /\ seen' = seen
      BY DEF SkillInv, TypeOK, ShareWrites, Goto
    <2>3. UNCHANGED <<op, target, edit, known>>
      BY DEF ShareWrites, Goto
    <2>4. QED
      BY <1>7, <2>1, <2>2, <2>3, OthersStay
  <1>10. RequestHolds(r)'
    <2>1. target' = target /\ skill'[s] = new /\ pc'[r] = "unsync"
      BY <1>0, <1>3, <1>5 DEF SkillInv, TypeOK, ShareWrites, Goto
    <2>2. Decided(s)' /\ Exists(s)'
      BY <1>4, <2>1 DEF Decided, Exists
    <2>3. QED
      BY <1>0, <2>1, <2>2 DEF RequestHolds
  <1>11. QED
    BY <1>6, <1>8, <1>9, <1>10 DEF SkillInv

LEMMA AnswerHolds ==
  ASSUME SkillInv, NEW s \in Skill, Answer(s)
  PROVE  SkillInv'
  <1> DEFINE new == [status |-> "pending_review", scope |-> "workspace", hash |-> None]
  <1>1. new \in Row /\ new.scope = "workspace"
    BY DEF Row
  <1>2. skill' = [skill EXCEPT ![s] = new] /\ skill[s] = None
    BY DEF Answer, Fresh, Exists
  <1> HIDE DEF new
  <1>3. skill \in [Skill -> Row \cup {None}] /\ skill' \in [Skill -> Row \cup {None}]
    BY <1>1, <1>2 DEF SkillInv, TypeOK
  <1>4. UNCHANGED <<reviews, shares, memoryVars, requestVars, crashes>>
    BY DEF Answer
  <1>5. TypeOK'
    BY <1>3, <1>4 DEF SkillInv, TypeOK, memoryVars, requestVars
  <1>6. Grows
    BY <1>2, <1>3, <1>4 DEF Grows, Exists
  <1>7. \A t \in Skill : RowHolds(t)'
    <2> SUFFICES ASSUME NEW t \in Skill PROVE RowHolds(t)'
      OBVIOUS
    <2>1. RowHolds(t)
      BY DEF SkillInv
    <2>2. CASE t # s
      BY <1>2, <1>3, <1>4, <1>6, <2>1, <2>2, RowStays DEF memoryVars
    <2>3. CASE t = s
      <3>1. ~Accepted(t) /\ ~Decided(t) /\ skill'[t] = new
        BY <1>2, <1>3, <2>3 DEF Accepted, Decided, Exists
      <3>2. ~Personal(t)'
        BY <1>1, <3>1 DEF Personal
      <3>3. QED
        BY <1>4, <2>1, <3>1, <3>2 DEF RowHolds, memoryVars
    <2>4. QED
      BY <2>2, <2>3
  <1>8. \A r \in Request : RequestHolds(r)'
    <2> SUFFICES ASSUME NEW r \in Request PROVE RequestHolds(r)'
      OBVIOUS
    <2>1. RequestHolds(r) /\ pc[r] \in Calls \cup {"idle"}
      BY DEF SkillInv, TypeOK
    <2>2. pc[r] \in {"reviews", "agent"} => OwnsTarget(r)'
      <3>1. pc[r] # "idle" => target[r] # s
        BY <2>1 DEF Answer, Fresh, InFlight
      <3>2. QED
        BY <1>2, <1>3, <1>4, <2>1, <3>1
           DEF RequestHolds, OwnsTarget, Exists, requestVars
    <2>3. QED
      BY <1>4, <1>6, <2>1, <2>2, RequestStays DEF requestVars
  <1>9. QED
    BY <1>5, <1>7, <1>8 DEF SkillInv

LEMMA UpsertLateHolds ==
  ASSUME SkillInv, UpsertLate
  PROVE  SkillInv'
  <1>1. PICK m \in late : late' = late \ {m} /\ memory' = [memory EXCEPT ![m[1]] = m[2]]
    BY DEF UpsertLate
  <1>2. UNCHANGED <<skill, reviews, shares, requestVars, losses, crashes>>
    BY DEF UpsertLate, storeVars
  <1>3. m = <<m[1], m[2]>> /\ m[1] \in Skill /\ m[2] \in {"active", "inactive"}
    BY <1>1 DEF SkillInv, TypeOK
  <1>4. TypeOK'
    BY <1>1, <1>2, <1>3 DEF SkillInv, TypeOK, requestVars
  <1>5. Grows
    BY <1>2, Unchanged
  <1>6. \A t \in Skill : RowHolds(t)'
    <2> SUFFICES ASSUME NEW t \in Skill PROVE RowHolds(t)'
      OBVIOUS
    <2>1. memory'[t] = "active" \/ <<t, "active">> \in late' =>
            memory[t] = "active" \/ <<t, "active">> \in late
      BY <1>1, <1>3 DEF SkillInv, TypeOK
    <2>2. QED
      BY <1>2, <1>5, <2>1, RowStays DEF SkillInv
  <1>7. \A r \in Request : RequestHolds(r)'
    BY <1>2, <1>5, RequestStays
       DEF SkillInv, TypeOK, RequestHolds, OwnsTarget, Exists, requestVars
  <1>8. QED
    BY <1>4, <1>6, <1>7 DEF SkillInv

LEMMA CrashHolds ==
  ASSUME SkillInv, Crash
  PROVE  SkillInv'
  <1>1. TypeOK'
    BY DEF SkillInv, TypeOK, Crash, storeVars, memoryVars
  <1>2. Grows
    BY Unchanged DEF Crash, storeVars
  <1>3. \A t \in Skill : RowHolds(t)'
    BY <1>2, RowStays DEF SkillInv, Crash, storeVars, memoryVars
  <1>4. \A r \in Request : RequestHolds(r)'
    BY DEF RequestHolds, Crash, Calls
  <1>5. QED
    BY <1>1, <1>3, <1>4 DEF SkillInv

-----------------------------------------------------------------------------
LEMMA StepHolds == SkillInv /\ [Next]_vars => SkillInv'
  <1> SUFFICES ASSUME SkillInv, [Next]_vars PROVE SkillInv'
    OBVIOUS
  <1>1. CASE UNCHANGED vars
    <2>1. Grows
      BY <1>1, Unchanged DEF vars, storeVars
    <2>2. TypeOK'
      BY <1>1 DEF SkillInv, TypeOK, vars, storeVars, memoryVars, requestVars
    <2>3. \A t \in Skill : RowHolds(t)'
      BY <1>1, <2>1, RowStays DEF SkillInv, vars, storeVars, memoryVars
    <2>4. \A r \in Request : RequestHolds(r)'
      BY <1>1, <2>1, RequestStays
         DEF SkillInv, TypeOK, RequestHolds, OwnsTarget, Exists, vars, storeVars, requestVars
    <2>5. QED
      BY <2>2, <2>3, <2>4 DEF SkillInv
  <1>2. ASSUME NEW r \in Request, Continue(r) PROVE SkillInv'
    BY <1>2, ReadRejectedHolds, PersistHolds, SetStatusHolds,
       RecordReviewHolds, SyncHolds,
       ShareReadsHolds, ShareWritesHolds, UnsyncHolds DEF Continue
  <1>3. ASSUME NEW r \in Request, NEW s \in Skill, Begin(r, s) PROVE SkillInv'
    BY <1>3, ExtractHolds, DecideHolds, ShareHolds DEF Begin
  <1>4. QED
    BY <1>1, <1>2, <1>3, AnswerHolds, UpsertLateHolds, CrashHolds DEF Next

(* For any skills, requests, overlap, failing calls and crashes every      *)
(* variable stays in its range, and what a request has read holds until it *)
(* acts on it.                                                             *)
THEOREM SkillInvariant == Spec => []SkillInv
  <1>1. QED
    BY StartsHolding, StepHolds, PTL DEF Spec

(* OnlyActivatedIsUsed: activate_candidate and share_candidate of          *)
(* personalization_service.py let no skill into the retrieval memory or    *)
(* the workspace pool before its owner has said so.                        *)
THEOREM NothingUsedUnasked == Spec => []OnlyActivatedIsUsed
  <1>1. SkillInv => OnlyActivatedIsUsed
    BY DEF SkillInv, RowHolds, Accepted, Decided, OnlyActivatedIsUsed
  <1>2. QED
    BY <1>1, SkillInvariant, PTL

(* RejectedStaysSuppressed: what extract_from_diff of                      *)
(* personalization_service.py drops stays dropped, however it overlaps     *)
(* with the rejections of others.                                          *)
THEOREM RejectionsAreKept == Spec => RejectedStaysSuppressed
  <1> DEFINE Suppressed == \A r \in Request :
        pc[r] = "agent" /\ skill' # skill /\ pc'[r] = "idle" => edit[r] \notin known[r]
  <1>1. ASSUME SkillInv, [Next]_vars, NEW r \in Request,
               pc[r] = "agent", skill' # skill, pc'[r] = "idle"
        PROVE  edit[r] \notin known[r]
    <2>1. known[r] \subseteq seen[r]
      BY <1>1 DEF SkillInv, RequestHolds
    <2>2. Persist(r)
      <3>1. pc \in [Request -> Calls \cup {"idle"}]
        BY <1>1 DEF SkillInv, TypeOK
      <3>2. ASSUME NEW q \in Request, NEW s \in Skill, Begin(q, s) PROVE FALSE
        BY <1>1, <3>2 DEF Begin, Extract, Decide, Share, Accept, storeVars
      <3>3. ~UpsertLate /\ ~Crash /\ ~UNCHANGED vars
        BY <1>1 DEF UpsertLate, Crash, vars, storeVars
      <3>4. ASSUME NEW s \in Skill, Answer(s) PROVE FALSE
        BY <1>1, <3>4 DEF Answer, requestVars
      <3>5. PICK q \in Request : Continue(q)
        BY <1>1, <3>2, <3>3, <3>4 DEF Next
      <3>6. q = r
        BY <1>1, <3>1, <3>5
           DEF Continue, Goto, ReadRejected, Persist, SetStatus, RecordReview,
           Sync, ShareReads, ShareWrites, Unsync
      <3>7. QED
        BY <1>1, <3>5, <3>6 DEF Continue, Goto, ReadRejected, SetStatus, RecordReview,
           Sync, ShareReads, ShareWrites, Unsync
    <2>3. edit[r] \notin seen[r]
      BY <1>1, <2>2 DEF Persist
    <2>4. QED
      BY <2>1, <2>3
  <1>2. SkillInv /\ [Next]_vars => [Suppressed]_vars
    BY <1>1
  <1>3. QED
    BY <1>2, SkillInvariant, PTL DEF Spec, RejectedStaysSuppressed
-----------------------------------------------------------------------------
(* One after the other.  The request that takes a step is the only one.    *)
LEMMA SequentialStarts == Init => SequentialInv
  <1> SUFFICES ASSUME Init PROVE SequentialInv
    OBVIOUS
  <1>1. \A s \in Skill : skill[s] = None /\ memory[s] = "absent"
    BY DEF Init
  <1>2. \A r \in Request : pc[r] = "idle"
    BY DEF Init
  <1>3. late = {}
    BY DEF Init
  <1>4. \A r \in Request : AloneHolds(r)
    BY <1>2 DEF AloneHolds
  <1>5. OneRowPerHash /\ \A s \in Skill : ~Active(s)
    BY <1>1 DEF OneRowPerHash, Personal, Exists, Active
  <1>6. QED
    BY <1>1, <1>3, <1>4, <1>5 DEF SequentialInv

(* No step makes up for what has mixed the requests. *)
LEMMA SequentialBefore ==
  ASSUME SkillInv, Next, Sequential'
  PROVE  Sequential /\ crashes' = crashes /\ losses' = losses
  <1>1. mixed \in BOOLEAN /\ losses \in Nat /\ crashes \in Nat
    BY DEF SkillInv, TypeOK
  <1>2. ~mixed' /\ losses' = 0 /\ crashes' = 0
    BY DEF Sequential
  <1>3. /\ mixed => mixed'
        /\ losses' = losses \/ losses' = losses + 1
        /\ crashes' = crashes \/ crashes' = crashes + 1
    <2>1. ASSUME NEW r \in Request, Continue(r)
          PROVE  /\ mixed' = mixed /\ crashes' = crashes
                 /\ losses' = losses \/ losses' = losses + 1
      <3>1. mixed' = mixed /\ crashes' = crashes
        BY <2>1 DEF Continue, Goto, ReadRejected, Persist, SetStatus, RecordReview, Sync,
                    ShareReads, ShareWrites, Unsync
      <3>2. CASE Sync(r) \/ Unsync(r)
        BY <3>1, <3>2 DEF Sync, Unsync, Upsert, memoryVars
      <3>3. CASE ~(Sync(r) \/ Unsync(r))
        BY <2>1, <3>1, <3>3 DEF Continue, ReadRejected, Persist, SetStatus, RecordReview,
                                ShareReads, ShareWrites, memoryVars
      <3>4. QED
        BY <3>2, <3>3
    <2>2. ASSUME NEW r, NEW o, NEW s, NEW call, Accept(r, o, s, call)
          PROVE  (mixed => mixed') /\ crashes' = crashes /\ losses' = losses
      BY <2>2 DEF Accept, memoryVars
    <2>3. ASSUME NEW r \in Request, NEW s \in Skill, Begin(r, s)
          PROVE  (mixed => mixed') /\ crashes' = crashes /\ losses' = losses
      BY <2>2, <2>3 DEF Begin, Extract, Decide, Share
    <2>4. ASSUME NEW s \in Skill, Answer(s)
          PROVE  mixed' = mixed /\ crashes' = crashes /\ losses' = losses
      BY <2>4 DEF Answer, memoryVars, requestVars
    <2>5. UpsertLate => mixed' = mixed /\ crashes' = crashes /\ losses' = losses
      BY DEF UpsertLate, requestVars
    <2>6. Crash => mixed' = mixed /\ crashes' = crashes + 1 /\ losses' = losses
      BY DEF Crash, memoryVars
    <2>7. QED
      BY <2>1, <2>3, <2>4, <2>5, <2>6 DEF Next
  <1>6. losses' = losses /\ crashes' = crashes
    BY <1>1, <1>2, <1>3
  <1>7. QED
    BY <1>2, <1>3, <1>6 DEF Sequential

(* With the others idle, what is to be kept is about one request.          *)
LEMMA OneRequest ==
  ASSUME NEW r \in Request, \A q \in Request : q # r => pc'[q] = "idle",
         op'[r] # "approve" \/ pc'[r] = "idle",
         pc'[r] \in {"reviews", "agent"} => SkillHashes' \subseteq seen'[r],
         pc'[r] = "status" => /\ Pending(target[r])'
                              /\ op'[r] \in {"activate", "reject"} => Personal(target[r])',
         pc'[r] \in {"review", "sync"} /\ op'[r] = "activate" => Active(target[r])' /\ personal'[r],
         pc'[r] = "sync" => op'[r] = "activate",
         pc'[r] \in {"share", "flip"} => Active(target[r])',
         pc'[r] = "unsync" => ~Personal(target[r])',
         late' = {}, OneRowPerHash',
         \A s \in Skill :
           \/ memory'[s] = "active" <=> Active(s)'
           \/ /\ target'[r] = s
              /\ pc'[r] = "unsync" \/ (pc'[r] \in {"review", "sync"} /\ op'[r] = "activate")
  PROVE  SequentialInv'
  <1>1. \A q \in Request : AloneHolds(q)'
    BY DEF AloneHolds
  <1>2. \A s \in Skill : ~Behind(s)' => (memory'[s] = "active" <=> Active(s)')
    BY DEF Behind
  <1>3. QED
    BY <1>1, <1>2 DEF SequentialInv

LEMMA BeginKeepsSequence ==
  ASSUME SkillInv, SequentialInv, Sequential, Sequential', NEW r \in Request, NEW s \in Skill,
         Begin(r, s)
  PROVE  SequentialInv'
  <1>1. PICK o, call : Accept(r, o, s, call) /\ call \in {"reviews", "status", "share"}
    <2>1. CASE \E h \in Hash : Extract(r, s, h)
      <3>1. Accept(r, "extract", s, "reviews")
        BY <2>1 DEF Extract
      <3>2. QED
        BY <3>1
    <2>2. CASE \E u \in DOMAIN StatusAfter : Decide(r, u, s)
      BY <2>2 DEF Decide
    <2>3. CASE Share(r, s)
      <3>1. Accept(r, "share", s, "share")
        BY <2>3 DEF Share
      <3>2. QED
        BY <3>1
    <2>4. QED
      BY <2>1, <2>2, <2>3 DEF Begin
  <1>2. /\ InFlight = {} /\ o # "approve"
        /\ pc' = [pc EXCEPT ![r] = call] /\ op' = [op EXCEPT ![r] = o]
        /\ target' = [target EXCEPT ![r] = s]
        /\ UNCHANGED <<skill, reviews, shares, memory, late, losses, personal>>
    BY <1>1 DEF Accept, Sequential, storeVars, memoryVars
  <1>3. /\ \A q \in Request : pc[q] = "idle"
        /\ \A q \in Request : q # r => pc'[q] = "idle"
        /\ pc'[r] = call /\ op'[r] = o /\ target'[r] = s
    BY <1>2 DEF InFlight, SkillInv, TypeOK
  <1>4. late = {} /\ OneRowPerHash /\ \A t \in Skill : memory[t] = "active" <=> Active(t)
    BY <1>3 DEF SequentialInv, Behind
  <1>5. /\ OneRowPerHash' /\ SkillHashes' = SkillHashes
        /\ \A t \in Skill : /\ Personal(t)' <=> Personal(t)
                            /\ Active(t)' <=> Active(t)
                            /\ Pending(t)' <=> Pending(t)
    BY <1>2, <1>4 DEF OneRowPerHash, SkillHashes, Personal, Active, Pending, Exists
  <1>6. CASE \E h \in Hash : Extract(r, s, h)
    <2>1. call = "reviews" /\ seen'[r] = SkillHashes
      BY <1>3, <1>6 DEF Extract, Accept, SkillInv, TypeOK
    <2>2. QED
      BY <1>2, <1>3, <1>4, <1>5, <2>1, OneRequest
  <1>7. CASE \E u \in DOMAIN StatusAfter : Decide(r, u, s)
    <2>1. PICK u \in DOMAIN StatusAfter : Decide(r, u, s)
      BY <1>7
    <2>2. /\ call = "status" /\ o = u /\ Pending(s)
          /\ u \in {"activate", "reject"} => Personal(s)
      BY <1>3, <2>1 DEF Decide, Accept, SkillInv, TypeOK, Pending
    <2>3. QED
      BY <1>2, <1>3, <1>4, <1>5, <2>2, OneRequest
  <1>8. CASE Share(r, s)
    <2>1. call = "share" /\ Active(s)
      BY <1>3, <1>8 DEF Share, Accept, SkillInv, TypeOK, Active
    <2>2. QED
      BY <1>2, <1>3, <1>4, <1>5, <2>1, OneRequest
  <1>9. QED
    BY <1>6, <1>7, <1>8 DEF Begin

(* A step of the request under way: what is known before it. *)
LEMMA AloneBefore ==
  ASSUME SkillInv, SequentialInv, Sequential, NEW r \in Request, pc[r] # "idle"
  PROVE  /\ late = {} /\ OneRowPerHash /\ AloneHolds(r) /\ op[r] # "approve"
         /\ \A q \in Request : q # r => pc[q] = "idle"
         /\ target[r] \in Skill
         /\ \A s \in Skill :
              \/ memory[s] = "active" <=> Active(s)
              \/ /\ target[r] = s
                 /\ pc[r] = "unsync" \/ (pc[r] \in {"review", "sync"} /\ op[r] = "activate")
  <1>1. late = {} /\ OneRowPerHash /\ \A q \in Request : AloneHolds(q)
    BY DEF SequentialInv
  <1>2. \A q \in Request : q # r => pc[q] = "idle"
    BY <1>1 DEF AloneHolds
  <1>3. \A s \in Skill : Behind(s) =>
          target[r] = s /\ (pc[r] = "unsync" \/ (pc[r] \in {"review", "sync"} /\ op[r] = "activate"))
    BY <1>2 DEF Behind
  <1>4. target[r] \in Skill /\ op[r] # "approve"
    BY <1>1 DEF SkillInv, RequestHolds, AloneHolds
  <1>5. QED
    BY <1>1, <1>2, <1>3, <1>4 DEF SequentialInv

LEMMA ContinueKeepsSequence ==
  ASSUME SkillInv, SequentialInv, Sequential, Sequential', losses' = losses, NEW r \in Request,
         Continue(r)
  PROVE  SequentialInv'
  <1> DEFINE t == target[r]
  <1>1. pc[r] # "idle"
    BY DEF Continue, ReadRejected, Persist, SetStatus, RecordReview, Sync, ShareReads,
           ShareWrites, Unsync, Goto
  <1>2. /\ late = {} /\ OneRowPerHash /\ AloneHolds(r) /\ op[r] # "approve"
        /\ \A q \in Request : q # r => pc[q] = "idle"
        /\ t \in Skill
        /\ \A s \in Skill :
             \/ memory[s] = "active" <=> Active(s)
             \/ /\ t = s
                /\ pc[r] = "unsync" \/ (pc[r] \in {"review", "sync"} /\ op[r] = "activate")
    BY <1>1, AloneBefore
  <1>3. /\ \A q \in Request : q # r => pc'[q] = "idle"
        /\ UNCHANGED <<op, target, edit, known>>
    BY <1>2 DEF SkillInv, TypeOK, Continue, ReadRejected, Persist, SetStatus, RecordReview, Sync,
                ShareReads, ShareWrites, Unsync, Goto
  <1>4. losses \in Nat /\ pc \in [Request -> Calls \cup {"idle"}] /\ skill \in [Skill -> Row \cup {None}]
        /\ memory \in [Skill -> {"absent", "active", "inactive"}]
    BY DEF SkillInv, TypeOK
  <1>5. ASSUME skill' = skill
        PROVE  /\ OneRowPerHash' /\ SkillHashes' = SkillHashes
               /\ \A s \in Skill : /\ Personal(s)' <=> Personal(s)
                                   /\ Active(s)' <=> Active(s)
                                   /\ Pending(s)' <=> Pending(s)
    BY <1>2, <1>5 DEF OneRowPerHash, SkillHashes, Personal, Active, Pending, Exists
  <1>6. CASE ReadRejected(r)
    <2>1. /\ pc[r] = "reviews" /\ pc'[r] = "agent" /\ skill' = skill /\ memory' = memory
          /\ late' = late /\ seen[r] \subseteq seen'[r]
      BY <1>4, <1>6 DEF ReadRejected, Goto, storeVars, memoryVars, SkillInv, TypeOK
    <2>2. SkillHashes \subseteq seen[r]
      BY <1>2, <2>1 DEF AloneHolds
    <2>3. QED
      BY <1>2, <1>3, <1>5, <2>1, <2>2, OneRequest
  <1>7. CASE Persist(r)
    <2>1. /\ pc[r] = "agent" /\ pc'[r] = "idle" /\ memory' = memory /\ late' = late
      BY <1>4, <1>7 DEF Persist, Goto, memoryVars
    <2>2. CASE skill' = skill
      BY <1>2, <1>3, <1>5, <2>1, <2>2, OneRequest
    <2>3. CASE skill' # skill
      <3> DEFINE new == [status |-> "pending_review", scope |-> "user", hash |-> edit[r]]
      <3>1. skill' = [skill EXCEPT ![t] = new] /\ edit[r] \notin seen[r]
        BY <1>7, <2>3 DEF Persist
      <3>2. new.status = "pending_review" /\ new.hash = edit[r]
        OBVIOUS
      <3> HIDE DEF new
      <3>3. skill'[t] = new /\ \A s \in Skill : s # t => skill'[s] = skill[s]
        BY <1>2, <1>4, <3>1
      <3>4. ~Exists(t) /\ SkillHashes \subseteq seen[r]
        BY <1>2, <2>1 DEF SkillInv, RequestHolds, OwnsTarget, AloneHolds
      <3>5. \A s \in Skill : Personal(s) => skill[s].hash # edit[r]
        BY <3>1, <3>4 DEF SkillHashes
      <3>6. OneRowPerHash'
        BY <1>2, <3>2, <3>3, <3>4, <3>5 DEF OneRowPerHash, Personal, Exists
      <3>7. \A s \in Skill : Active(s)' <=> Active(s)
        BY <3>2, <3>3, <3>4 DEF Active, Personal, Exists
      <3>8. QED
        BY <1>2, <1>3, <2>1, <3>6, <3>7, OneRequest
    <2>4. QED
      BY <2>2, <2>3
  <1>8. CASE SetStatus(r)
    <2> DEFINE new == [skill[t] EXCEPT !.status = StatusAfter[op[r]]]
    <2>1. /\ pc[r] = "status" /\ memory' = memory /\ late' = late
          /\ pc'[r] = IF op[r] \in {"activate", "reject"} THEN "review" ELSE "idle"
          /\ personal'[r] = Personal(t)
          /\ op[r] \in {"activate", "reject", "disapprove"}
      BY <1>2, <1>4, <1>8 DEF SetStatus, Goto, memoryVars, SkillInv, TypeOK, RequestHolds, StatusAfter
    <2>2. /\ Pending(t) /\ skill[t] \in Row
          /\ op[r] \in {"activate", "reject"} => Personal(t)
      BY <1>2, <1>4, <2>1 DEF AloneHolds, Pending, Exists
    <2>3. /\ new \in Row /\ new.hash = skill[t].hash /\ new.scope = skill[t].scope
          /\ new.status = "active" <=> op[r] = "activate"
      BY <2>1, <2>2 DEF Row, StatusAfter
    <2>4. skill' = [skill EXCEPT ![t] = new]
      BY <1>8 DEF SetStatus
    <2> HIDE DEF new
    <2>5. /\ skill'[t] = new /\ new # None
          /\ \A s \in Skill : s # t => skill'[s] = skill[s]
      BY <1>2, <1>4, <2>3, <2>4, NoneIsNoRow
    <2>6. \A s \in Skill : /\ Personal(s)' <=> Personal(s)
                           /\ Personal(s) => skill'[s].hash = skill[s].hash
      BY <2>2, <2>3, <2>5 DEF Personal, Exists, Pending
    <2>7. OneRowPerHash'
      BY <1>2, <2>6 DEF OneRowPerHash
    <2>8. /\ \A s \in Skill : s # t => (Active(s)' <=> Active(s))
          /\ Active(t)' <=> Personal(t) /\ op[r] = "activate"
          /\ ~Active(t)
      BY <1>2, <1>3, <2>2, <2>3, <2>5, <2>6 DEF Active, Pending
    <2>9. \A s \in Skill : \/ memory'[s] = "active" <=> Active(s)'
                           \/ s = t /\ op[r] = "activate" /\ pc'[r] = "review"
      <3> SUFFICES ASSUME NEW s \in Skill
                   PROVE  \/ memory'[s] = "active" <=> Active(s)'
                          \/ s = t /\ op[r] = "activate" /\ pc'[r] = "review"
        OBVIOUS
      <3>1. memory'[s] = "active" <=> Active(s)
        BY <1>2, <2>1
      <3>2. CASE s # t
        BY <2>8, <3>1, <3>2
      <3>3. CASE s = t
        BY <1>3, <2>1, <2>8, <3>1, <3>3
      <3>4. QED
        BY <3>2, <3>3
    <2>10. CASE op[r] = "activate"
      BY <1>2, <1>3, <2>1, <2>2, <2>7, <2>8, <2>9, <2>10, OneRequest
    <2>11. CASE op[r] # "activate"
      BY <1>2, <1>3, <2>1, <2>7, <2>9, <2>11, OneRequest
    <2>12. QED
      BY <2>10, <2>11
  <1>9. CASE RecordReview(r)
    <2>1. /\ pc[r] = "review" /\ skill' = skill /\ memory' = memory /\ late' = late
          /\ personal' = personal
          /\ \/ op[r] = "activate" /\ pc'[r] = "sync"
             \/ op[r] = "reject" /\ pc'[r] = "idle"
      BY <1>4, <1>9 DEF RecordReview, Goto, memoryVars
    <2>2. op[r] = "activate" => Active(t) /\ personal[r]
      BY <1>2, <2>1 DEF AloneHolds
    <2>3. QED
      BY <1>2, <1>3, <1>5, <2>1, <2>2, OneRequest
  <1>10. CASE Sync(r)
    <2>1. /\ pc[r] = "sync" /\ pc'[r] = "idle" /\ skill' = skill
      BY <1>4, <1>10 DEF Sync, Goto, storeVars
    <2>2. op[r] = "activate" /\ Active(t) /\ personal[r]
      BY <1>2, <2>1 DEF AloneHolds
    <2>3. memory' = [memory EXCEPT ![t] = "active"] /\ late' = late
      BY <1>4, <1>10, <2>2 DEF Sync, Upsert
    <2>4. memory'[t] = "active" /\ \A s \in Skill : s # t => memory'[s] = memory[s]
      BY <1>2, <1>4, <2>3
    <2>5. \A s \in Skill : memory'[s] = "active" <=> Active(s)'
      BY <1>2, <1>5, <2>1, <2>2, <2>4
    <2>6. QED
      BY <1>2, <1>3, <1>5, <2>1, <2>3, <2>5, OneRequest
  <1>11. CASE ShareReads(r)
    <2>1. /\ pc[r] = "share" /\ pc'[r] \in {"flip", "idle"} /\ skill' = skill
          /\ memory' = memory /\ late' = late
      BY <1>4, <1>11 DEF ShareReads, Goto, storeVars, memoryVars
    <2>2. Active(t)
      BY <1>2, <2>1 DEF AloneHolds
    <2>3. QED
      BY <1>2, <1>3, <1>5, <2>1, <2>2, OneRequest
  <1>12. CASE ShareWrites(r)
    <2> DEFINE new == [skill[t] EXCEPT !.scope = "workspace"]
    <2>1. pc[r] = "flip" /\ pc'[r] = "unsync" /\ memory' = memory /\ late' = late
      BY <1>4, <1>12 DEF ShareWrites, Goto, memoryVars
    <2>2. Active(t) /\ skill[t] \in Row
      BY <1>2, <1>4, <2>1 DEF AloneHolds, Active, Personal, Exists
    <2>3. new.scope = "workspace"
      BY <2>2 DEF Row
    <2>4. skill' = [skill EXCEPT ![t] = new]
      BY <1>12 DEF ShareWrites
    <2> HIDE DEF new
    <2>5. skill'[t] = new /\ \A s \in Skill : s # t => skill'[s] = skill[s]
      BY <1>2, <1>4, <2>4
    <2>6. /\ ~Personal(t)'
          /\ \A s \in Skill : s # t => (Active(s)' <=> Active(s)) /\ (Personal(s)' <=> Personal(s))
      BY <1>3, <2>3, <2>5 DEF Personal, Exists, Active
    <2>7. OneRowPerHash'
      BY <1>2, <1>3, <2>5, <2>6 DEF OneRowPerHash
    <2>8. QED
      BY <1>2, <1>3, <2>1, <2>6, <2>7, OneRequest
  <1>13. CASE Unsync(r)
    <2>1. pc[r] = "unsync" /\ pc'[r] = "idle" /\ skill' = skill
      BY <1>4, <1>13 DEF Unsync, Goto, storeVars
    <2>2. ~Personal(t)
      BY <1>2, <2>1 DEF AloneHolds
    <2>3. memory' = [memory EXCEPT ![t] = "inactive"] /\ late' = late
      BY <1>4, <1>13 DEF Unsync, Upsert
    <2>4. memory'[t] = "inactive" /\ \A s \in Skill : s # t => memory'[s] = memory[s]
      BY <1>2, <1>4, <2>3
    <2>5. \A s \in Skill : memory'[s] = "active" <=> Active(s)'
      BY <1>2, <1>5, <2>1, <2>2, <2>4 DEF Active
    <2>6. QED
      BY <1>2, <1>3, <1>5, <2>1, <2>3, <2>5, OneRequest
  <1>14. QED
    BY <1>6, <1>7, <1>8, <1>9, <1>10, <1>11, <1>12, <1>13 DEF Continue

LEMMA AnswerKeepsSequence ==
  ASSUME SkillInv, SequentialInv, Sequential, NEW s \in Skill, Answer(s)
  PROVE  SequentialInv'
  <1> DEFINE new == [status |-> "pending_review", scope |-> "workspace", hash |-> None]
  <1>1. skill' = [skill EXCEPT ![s] = new] /\ skill[s] = None /\ new.scope = "workspace"
    BY DEF Answer, Fresh, Exists
  <1> HIDE DEF new
  <1>2. skill'[s] = new /\ \A q \in Skill : q # s => skill'[q] = skill[q]
    BY <1>1 DEF SkillInv, TypeOK
  <1>3. UNCHANGED <<memory, late, pc, op, target, seen, personal>>
    BY DEF Answer, memoryVars, requestVars
  <1>4. \A q \in Skill : /\ Personal(q)' <=> Personal(q)
                         /\ Active(q)' <=> Active(q)
                         /\ Personal(q) => skill'[q] = skill[q]
    BY <1>1, <1>2 DEF Personal, Exists, Active
  <1>5. SkillHashes' \subseteq SkillHashes
    BY <1>4 DEF SkillHashes
  <1>6. OneRowPerHash => OneRowPerHash'
    BY <1>4 DEF OneRowPerHash
  <1>7. \A r \in Request : pc[r] # "idle" => target[r] # s /\ target[r] \in Skill
    BY DEF Answer, Fresh, InFlight, SkillInv, RequestHolds
  <1>8. \A r \in Request : pc[r] # "idle" => (Pending(target[r])' <=> Pending(target[r]))
    BY <1>2, <1>3, <1>7 DEF Pending, Exists
  <1>9. \A r \in Request : AloneHolds(r)'
    <2> SUFFICES ASSUME NEW r \in Request PROVE AloneHolds(r)'
      OBVIOUS
    <2>1. AloneHolds(r)
      BY DEF SequentialInv
    <2>2. CASE pc[r] = "idle"
      BY <1>3, <2>2 DEF AloneHolds
    <2>3. CASE pc[r] # "idle"
      <3>1. /\ Personal(target[r])' <=> Personal(target[r])
            /\ Active(target[r])' <=> Active(target[r])
            /\ Pending(target[r])' <=> Pending(target[r])
        BY <1>3, <1>4, <1>7, <1>8, <2>3
      <3>2. QED
        BY <1>3, <1>5, <2>1, <3>1 DEF AloneHolds
    <2>4. QED
      BY <2>2, <2>3
  <1>10. \A q \in Skill : Behind(q)' <=> Behind(q)
    BY <1>3 DEF Behind
  <1>11. QED
    BY <1>3, <1>4, <1>6, <1>9, <1>10 DEF SequentialInv

LEMMA SequentialStepKeeps == SkillInv /\ SequentialInv /\ [Next]_vars => SequentialInv'
  <1> SUFFICES ASSUME SkillInv, SequentialInv, [Next]_vars, Sequential' PROVE SequentialInv'
    BY DEF SequentialInv
  <1>1. CASE UNCHANGED vars
    <2>1. UNCHANGED <<skill, memory, late, pc, op, target, seen, personal, mixed, losses, crashes>>
      BY <1>1 DEF vars, storeVars, memoryVars, requestVars
    <2>2. Sequential /\ OneRowPerHash' = OneRowPerHash /\ SkillHashes' = SkillHashes
      BY <2>1 DEF Sequential, OneRowPerHash, SkillHashes, Personal, Exists
    <2>3. \A r \in Request : AloneHolds(r)' <=> AloneHolds(r)
      BY <2>1, <2>2 DEF AloneHolds, Active, Pending, Personal, Exists
    <2>4. \A s \in Skill : (Behind(s)' <=> Behind(s)) /\ (Active(s)' <=> Active(s))
      BY <2>1 DEF Behind, Active, Personal, Exists
    <2>5. QED
      BY <2>1, <2>2, <2>3, <2>4 DEF SequentialInv
  <1>2. CASE Next
    <2>1. Sequential /\ losses' = losses /\ crashes' = crashes
      BY <1>2, SequentialBefore
    <2>2. ~UpsertLate
      BY <2>1 DEF SequentialInv, UpsertLate
    <2>3. ~Crash
      BY <2>1 DEF Crash, SkillInv, TypeOK
    <2>4. ASSUME NEW r \in Request, Continue(r) PROVE SequentialInv'
      BY <2>1, <2>4, ContinueKeepsSequence
    <2>5. ASSUME NEW r \in Request, NEW s \in Skill, Begin(r, s) PROVE SequentialInv'
      BY <2>1, <2>5, BeginKeepsSequence
    <2>6. ASSUME NEW s \in Skill, Answer(s) PROVE SequentialInv'
      BY <2>1, <2>6, AnswerKeepsSequence
    <2>7. QED
      BY <1>2, <2>2, <2>3, <2>4, <2>5, <2>6 DEF Next
  <1>3. QED
    BY <1>1, <1>2

(* SequentialCopy: as long as the requests come one after the other, no    *)
(* call of the memory is lost and nothing crashes, _sync_active_skill_to_  *)
(* memory and _deactivate_in_personal_memory leave the file in step with   *)
(* the rows after each, and list_personal_suggestion_hashes keeps an edit  *)
(* from being asked about twice: for any skills, hashes and requests.      *)
THEOREM FileFollowsRows == Spec => []SequentialCopy
  <1>1. SkillInv /\ SequentialInv => SequentialCopy
    <2> SUFFICES ASSUME SkillInv, SequentialInv, Sequential PROVE MemoryMatches /\ OneRowPerHash
      BY DEF SequentialCopy
    <2>1. Quiet => \A s \in Skill : ~Behind(s)
      BY DEF Quiet, InFlight, Behind
    <2>2. QED
      BY <2>1 DEF SequentialInv, MemoryMatches, Active
  <1>2. Spec => [](SkillInv /\ SequentialInv)
    BY StartsHolding, StepHolds, SequentialStarts, SequentialStepKeeps, PTL DEF Spec
  <1>3. QED
    BY <1>1, <1>2, PTL

=============================================================================
