-------------------------- MODULE HttpCacheProofs ---------------------------
(***************************************************************************)
(* HttpCache for any requests, processes, documents, TTLs and retries:     *)
(* wherever processes die or a clear falls, replies are honest and fresh,  *)
(* and no entry stays locked.                                              *)
(***************************************************************************)
EXTENDS HttpCache, TLAPS

PCs == {"idle", "reading", "readingBody", "fetching", "refreshing", "storing", "storingMeta", "done"}
Got == [doc: Docs, fetched: Times]

(* The server held the document then.                                       *)
Held(d, t) == t \in 0..now /\ d \in held[t]

Seen(b) == \E t \in 0..now : b \in held[t]

(* What may lie in the body file, and what may be read from it under the    *)
(* metadata of d.                                                           *)
Bytes(b) == b = Nothing \/ (b \in Docs /\ Seen(b))
Tells(d, b) == b = d \/ (Length[b] = Length[d] /\ Seen(b))

Honest(r) ==
  /\ Tells(reply[r].doc, reply[r].body)
  /\ Held(reply[r].doc, reply[r].fetched)
  /\ ~IsOffline(r) => began[r] < reply[r].fetched + EffectiveTTL(TTL[r], reply[r].doc)

(* What a request has in hand, by where it is.                              *)
RequestInv(r) ==
  /\ pc[r] \notin {"idle", "done"} => lock[ProcessOf[r]] = r
  /\ pc[r] # "done" => reply[r] = Nothing
  /\ began[r] <= now
  /\ pc[r] = "readingBody" => cached[r] \in Meta /\ Held(cached[r].doc, cached[r].fetched)
  /\ pc[r] \in {"fetching", "refreshing"} /\ cached[r] # Nothing =>
       cached[r] \in Entry /\ Tells(cached[r].doc, cached[r].body)
  /\ pc[r] \in {"storing", "storingMeta", "refreshing"} =>
       got[r] \in Got /\ Held(got[r].doc, got[r].fetched) /\ began[r] <= got[r].fetched
  /\ pc[r] = "refreshing" => cached[r] # Nothing /\ cached[r].doc = got[r].doc
  /\ reply[r] \in Reply => Honest(r)

LockInv ==
  \A p \in Processes : lock[p] # Nothing =>
    lock[p] \in Requests /\ ProcessOf[lock[p]] = p /\ pc[lock[p]] \notin {"idle", "done"}

MetaInv == meta # Nothing => meta \in Meta /\ Held(meta.doc, meta.fetched)

IInv ==
  /\ TypeOK
  /\ doc \in held[now]
  /\ MetaInv
  /\ Bytes(body)
  /\ LockInv
  /\ \A r \in Requests : RequestInv(r)

-----------------------------------------------------------------------------
LEMMA InitIInv == Init => IInv
<1> SUFFICES ASSUME Init PROVE IInv
  OBVIOUS
<1> USE HttpCacheAssumption
<1>1. 0 \in Times /\ NoTries \in [attempt: 0..Retries, body: 0..1]
  BY DEF Times, NoTries
<1>2. TypeOK
  BY <1>1 DEF Init, TypeOK
<1>3. \A r \in Requests : RequestInv(r)
  BY DEF Init, RequestInv
<1> QED
  BY <1>1, <1>2, <1>3 DEF Init, IInv, MetaInv, LockInv, Bytes

(* A request a step leaves alone, while what was held stays held.           *)
LEMMA OtherRequests ==
  ASSUME NEW q, RequestInv(q),
         now \in Nat, now' \in Nat, now <= now', \A t \in 0..now : held[t] \subseteq held'[t],
         pc'[q] = pc[q], cached'[q] = cached[q], got'[q] = got[q], reply'[q] = reply[q],
         began'[q] = began[q], began[q] \in Nat,
         lock[ProcessOf[q]] = q => lock'[ProcessOf[q]] = q
  PROVE  RequestInv(q)'
<1>1. \A d, t : Held(d, t) => Held(d, t)'
  BY DEF Held
<1>2. \A d, b : Tells(d, b) => Tells(d, b)'
  BY <1>1 DEF Tells, Seen, Held
<1>3. reply[q] \in Reply => Honest(q)'
  BY <1>1, <1>2 DEF RequestInv, Honest, IsOffline, EffectiveTTL
<1> QED
  BY <1>1, <1>2, <1>3 DEF RequestInv, Held

LEMMA DiskStays ==
  ASSUME MetaInv, Bytes(body), now \in Nat, now' \in Nat, now <= now', \A t \in 0..now : held[t] \subseteq held'[t],
         meta' = meta \/ meta' = Nothing, body' = body \/ body' = Nothing
  PROVE  MetaInv' /\ Bytes(body)'
  BY DEF MetaInv, Held, Bytes, Seen

-----------------------------------------------------------------------------
(* The rest of the world.                                                   *)
LEMMA StepWorld ==
  ASSUME IInv, Tick \/ (\E d \in Docs : Publish(d)) \/ Clear \/ UNCHANGED vars
  PROVE  IInv'
<1> USE HttpCacheAssumption
<1>1. /\ UNCHANGED <<lock, pc, cached, got, tries, began, reply, dead>>
      /\ meta' = meta \/ meta' = Nothing
      /\ body' = body \/ body' = Nothing
      /\ clearing' \in {"idle", "meta", "done"}
  BY DEF Tick, Publish, Clear, disk, vars, IInv, TypeOK
<1>2. /\ now \in Nat /\ now' \in Times /\ now' \in Nat /\ now <= now'
      /\ doc' \in Docs /\ held' \in [Times -> SUBSET Docs] /\ doc' \in held'[now']
      /\ \A t \in 0..now : held[t] \subseteq held'[t]
  <2>1. CASE Tick
    <3>1. now + 1 \in Times /\ now \in Nat
      BY <2>1 DEF Tick, IInv, TypeOK, Times
    <3> QED
      BY <2>1, <3>1 DEF Tick, IInv, TypeOK, Times
  <2>2. CASE \E d \in Docs : Publish(d)
    BY <2>2 DEF Publish, IInv, TypeOK, Times
  <2>3. CASE Clear \/ UNCHANGED vars
    BY <2>3 DEF Clear, vars, IInv, TypeOK, Times
  <2> QED
    BY <2>1, <2>2, <2>3
<1>3. TypeOK'
  BY <1>1, <1>2 DEF IInv, TypeOK
<1>4. MetaInv' /\ Bytes(body)'
  BY <1>1, <1>2, DiskStays DEF IInv
<1>5. LockInv'
  BY <1>1 DEF IInv, LockInv
<1>6. ASSUME NEW r \in Requests PROVE RequestInv(r)'
  <2>1. RequestInv(r) /\ began[r] \in Nat
    BY DEF IInv, TypeOK, Times
  <2> QED
    BY <1>1, <1>2, <2>1, OtherRequests
<1> QED
  BY <1>2, <1>3, <1>4, <1>5, <1>6 DEF IInv

LEMMA StepDie == ASSUME IInv, NEW p \in Processes, Die(p) PROVE IInv'
<1> USE HttpCacheAssumption
<1> DEFINE own == {r \in Requests : ProcessOf[r] = p}
<1>1. /\ pc' = [r \in Requests |-> IF r \in own THEN "done" ELSE pc[r]]
      /\ cached' = [r \in Requests |-> IF r \in own THEN Nothing ELSE cached[r]]
      /\ got' = [r \in Requests |-> IF r \in own THEN Nothing ELSE got[r]]
      /\ tries' = [r \in Requests |-> IF r \in own THEN NoTries ELSE tries[r]]
      /\ lock' = [lock EXCEPT ![p] = Nothing]
      /\ dead' = dead \union {p}
      /\ UNCHANGED <<now, doc, held, body, meta, began, reply, clearing>>
  BY DEF Die, disk
<1>2. NoTries \in [attempt: 0..Retries, body: 0..1]
  BY DEF NoTries
<1>3. TypeOK'
  BY <1>1, <1>2 DEF IInv, TypeOK
<1>4. MetaInv' /\ Bytes(body)' /\ doc' \in held'[now']
  BY <1>1 DEF IInv, MetaInv, Held, Bytes, Seen
<1>5. LockInv'
  BY <1>1 DEF IInv, LockInv, TypeOK
<1>6. ASSUME NEW r \in Requests PROVE RequestInv(r)'
  <2>1. RequestInv(r) /\ began[r] \in Nat /\ now \in Nat /\ now <= now
    BY DEF IInv, TypeOK, Times
  <2>2. CASE r \in own
    <3>1. pc'[r] = "done"
      BY <1>1, <2>2
    <3>2. reply'[r] \in Reply => Honest(r)'
      BY <1>1, <2>1 DEF RequestInv, Honest, Held, Tells, Seen, IsOffline, EffectiveTTL
    <3> QED
      BY <1>1, <2>1, <3>1, <3>2 DEF RequestInv
  <2>3. CASE r \notin own
    <3>1. /\ pc'[r] = pc[r] /\ cached'[r] = cached[r] /\ got'[r] = got[r]
          /\ lock'[ProcessOf[r]] = lock[ProcessOf[r]]
      BY <1>1, <2>3 DEF IInv, TypeOK
    <3> QED
      BY <1>1, <2>1, <3>1, OtherRequests
  <2> QED
    BY <2>2, <2>3
<1> QED
  BY <1>3, <1>4, <1>5, <1>6 DEF IInv

-----------------------------------------------------------------------------
(* A request takes the entry's mutex ...                                    *)
LEMMA StepLockKey == ASSUME IInv, NEW r \in Requests, LockKey(r) PROVE IInv'
<1> USE HttpCacheAssumption
<1>1. /\ pc[r] = "idle" /\ lock[ProcessOf[r]] = Nothing
      /\ pc' = [pc EXCEPT ![r] = "reading"] /\ lock' = [lock EXCEPT ![ProcessOf[r]] = r]
      /\ began' = [began EXCEPT ![r] = now]
      /\ UNCHANGED <<now, doc, held, dead, clearing, body, meta, cached, got, tries, reply>>
  BY DEF LockKey, Running, world, disk
<1>2. TypeOK'
  BY <1>1 DEF IInv, TypeOK
<1>3. MetaInv' /\ Bytes(body)' /\ doc' \in held'[now']
  BY <1>1 DEF IInv, MetaInv, Held, Bytes, Seen
<1>4. LockInv'
  BY <1>1 DEF IInv, LockInv, TypeOK
<1>5. ASSUME NEW q \in Requests PROVE RequestInv(q)'
  <2>1. RequestInv(q) /\ began[q] \in Nat /\ now \in Nat /\ now <= now
    BY DEF IInv, TypeOK, Times
  <2>2. CASE q = r
    <3>1. pc'[q] = "reading" /\ lock'[ProcessOf[q]] = q /\ began'[q] = now /\ reply'[q] = Nothing
      BY <1>1, <2>1, <2>2 DEF RequestInv, IInv, TypeOK
    <3> QED
      BY <1>1, <2>1, <3>1 DEF RequestInv
  <2>3. CASE q # r
    <3>1. ProcessOf[q] # ProcessOf[r] \/ lock[ProcessOf[q]] # q
      BY <1>1
    <3>2. pc'[q] = pc[q] /\ began'[q] = began[q] /\ (lock[ProcessOf[q]] = q => lock'[ProcessOf[q]] = q)
      BY <1>1, <2>3, <3>1 DEF IInv, TypeOK
    <3> QED
      BY <1>1, <2>1, <3>2, OtherRequests
  <2> QED
    BY <2>2, <2>3
<1> QED
  BY <1>2, <1>3, <1>4, <1>5 DEF IInv

(* ... works on under it ...                                                *)
Moves(r, at, c, g, t) ==
  /\ pc[r] \notin {"idle", "done"}
  /\ pc' = [pc EXCEPT ![r] = at]
  /\ cached' = [cached EXCEPT ![r] = c]
  /\ got' = [got EXCEPT ![r] = g]
  /\ tries' = [tries EXCEPT ![r] = t]
  /\ UNCHANGED <<lock, reply, began, now, doc, held, dead, clearing, meta>>

LEMMA StepMoves ==
  ASSUME IInv, NEW r \in Requests, NEW at \in PCs \ {"idle", "done"},
         NEW c \in Meta \union Entry \union {Nothing}, NEW g \in Got \union {Nothing},
         NEW t \in [attempt: 0..Retries, body: 0..1], Moves(r, at, c, g, t),
         Bytes(body'),
         at = "readingBody" => c \in Meta /\ Held(c.doc, c.fetched),
         at \in {"fetching", "refreshing"} /\ c # Nothing => c \in Entry /\ Tells(c.doc, c.body),
         at \in {"storing", "storingMeta", "refreshing"} =>
           g \in Got /\ Held(g.doc, g.fetched) /\ began[r] <= g.fetched,
         at = "refreshing" => c # Nothing /\ c.doc = g.doc
  PROVE  IInv'
<1> USE HttpCacheAssumption
<1>1. TypeOK'
  <2>1. pc' \in [Requests -> PCs]
    BY DEF Moves, IInv, TypeOK, PCs
  <2> QED
    BY <2>1 DEF Moves, IInv, TypeOK, PCs, Got, Bytes
<1>2. MetaInv' /\ Bytes(body)' /\ doc' \in held'[now']
  BY DEF Moves, IInv, MetaInv, Held, Bytes, Seen
<1>3. LockInv'
  BY DEF Moves, IInv, LockInv, TypeOK
<1>4. ASSUME NEW q \in Requests PROVE RequestInv(q)'
  <2>1. RequestInv(q) /\ began[q] \in Nat /\ now \in Nat /\ now <= now
    BY DEF IInv, TypeOK, Times
  <2>2. CASE q = r
    <3>1. pc'[q] = at /\ cached'[q] = c /\ got'[q] = g
      BY <2>2 DEF Moves, IInv, TypeOK
    <3>2. lock'[ProcessOf[q]] = q /\ reply'[q] = Nothing /\ began'[q] <= now'
      BY <2>1, <2>2 DEF Moves, RequestInv
    <3>3. \A d, n : Held(d, n)' = Held(d, n) /\ Tells(d, n)' = Tells(d, n)
      BY DEF Moves, Held, Tells, Seen
    <3> QED
      BY <2>2, <3>1, <3>2, <3>3 DEF RequestInv, Moves
  <2>3. CASE q # r
    <3>1. pc'[q] = pc[q] /\ cached'[q] = cached[q] /\ got'[q] = got[q]
      BY <2>3 DEF Moves, IInv, TypeOK
    <3> QED
      BY <2>1, <3>1, OtherRequests DEF Moves
  <2> QED
    BY <2>2, <2>3
<1> QED
  BY <1>1, <1>2, <1>3, <1>4 DEF IInv

(* ... and returns, which frees it.                                         *)
LEMMA StepReturn ==
  ASSUME IInv, NEW r \in Requests, pc[r] \notin {"idle", "done"},
         NEW answer \in Reply \union {Failure, Offline}, Return(r, answer),
         UNCHANGED <<now, doc, held, dead, clearing, began>>,
         Bytes(body'),
         meta' = meta \/ (meta' \in Meta /\ Held(meta'.doc, meta'.fetched)),
         answer \in Reply =>
           /\ Tells(answer.doc, answer.body)
           /\ Held(answer.doc, answer.fetched)
           /\ ~IsOffline(r) => began[r] < answer.fetched + EffectiveTTL(TTL[r], answer.doc)
  PROVE  IInv'
<1> USE HttpCacheAssumption
<1>1. /\ pc' = [pc EXCEPT ![r] = "done"]
      /\ reply' = [reply EXCEPT ![r] = answer]
      /\ lock' = [p \in Processes |-> IF lock[p] = r THEN Nothing ELSE lock[p]]
      /\ cached' = [cached EXCEPT ![r] = Nothing]
      /\ got' = [got EXCEPT ![r] = Nothing]
      /\ tries' = [tries EXCEPT ![r] = NoTries]
  BY DEF Return
<1>2. TypeOK'
  <2>1. NoTries \in [attempt: 0..Retries, body: 0..1]
    BY DEF NoTries
  <2>2. meta' \in Meta \union {Nothing}
    BY DEF IInv, TypeOK
  <2> QED
    BY <1>1, <2>1, <2>2 DEF IInv, TypeOK, Bytes
<1>3. MetaInv' /\ Bytes(body)' /\ doc' \in held'[now']
  BY DEF IInv, MetaInv, Held, Bytes, Seen
<1>4. LockInv'
  BY <1>1 DEF IInv, LockInv, TypeOK
<1>5. ASSUME NEW q \in Requests PROVE RequestInv(q)'
  <2>1. RequestInv(q) /\ began[q] \in Nat /\ now \in Nat /\ now <= now
    BY DEF IInv, TypeOK, Times
  <2>2. CASE q = r
    <3>1. pc'[q] = "done" /\ reply'[q] = answer
      BY <1>1, <2>2 DEF IInv, TypeOK
    <3>2. reply'[q] \in Reply => Honest(q)'
      BY <2>2, <3>1 DEF Honest, Held, Tells, Seen, IsOffline, EffectiveTTL
    <3> QED
      BY <2>1, <3>1, <3>2 DEF RequestInv
  <2>3. CASE q # r
    <3>1. /\ pc'[q] = pc[q] /\ cached'[q] = cached[q] /\ got'[q] = got[q] /\ reply'[q] = reply[q]
          /\ lock[ProcessOf[q]] = q => lock'[ProcessOf[q]] = q
      BY <1>1, <2>3 DEF IInv, TypeOK
    <3> QED
      BY <2>1, <3>1, OtherRequests
  <2> QED
    BY <2>2, <2>3
<1> QED
  BY <1>2, <1>3, <1>4, <1>5 DEF IInv

-----------------------------------------------------------------------------
LEMMA Lifetimes ==
  ASSUME NEW r \in Requests, NEW d
  PROVE  EffectiveTTL(TTL[r], d) \in Nat /\ EffectiveTTL(TTL[r], d) >= 1
  BY HttpCacheAssumption DEF EffectiveTTL, DefaultTTL

LEMMA StepLooked ==
  ASSUME IInv, NEW r \in Requests, pc[r] \in {"reading", "readingBody"},
         NEW e \in Entry \union {Nothing}, Looked(r, e), UNCHANGED <<world, disk, began>>,
         e # Nothing => Tells(e.doc, e.body) /\ Held(e.doc, e.fetched)
  PROVE  IInv'
<1> USE HttpCacheAssumption
<1>1. UNCHANGED <<now, doc, held, dead, clearing, body, meta, began>> /\ Bytes(body')
  BY DEF world, disk, IInv, TypeOK
<1>2. CASE e # Nothing /\ (IsOffline(r) \/ Fresh(e, r))
  <2> DEFINE answer == Served(e)
  <2>1. Return(r, answer)
    BY <1>2 DEF Looked
  <2>2. answer \in Reply /\ answer.body = e.body /\ answer.doc = e.doc /\ answer.fetched = e.fetched
    BY <1>2 DEF Served, Entry, Reply
  <2>3. ~IsOffline(r) => began[r] < e.fetched + EffectiveTTL(TTL[r], e.doc)
    <3>1. RequestInv(r) /\ began[r] \in Nat /\ now \in Nat /\ e.fetched \in Nat
      BY <1>2 DEF IInv, TypeOK, Times, Entry
    <3>2. EffectiveTTL(TTL[r], e.doc) \in Nat
      BY Lifetimes
    <3>3. ~IsOffline(r) => now < e.fetched + EffectiveTTL(TTL[r], e.doc)
      BY <1>2 DEF Fresh
    <3> QED
      BY <3>1, <3>2, <3>3 DEF RequestInv
  <2> HIDE DEF answer
  <2> QED
    BY <1>1, <1>2, <2>1, <2>2, <2>3, StepReturn
<1>3. CASE ~(e # Nothing /\ (IsOffline(r) \/ Fresh(e, r))) /\ IsOffline(r)
  <2>1. Return(r, Offline)
    BY <1>3 DEF Looked
  <2> QED
    BY <1>1, <2>1, StepReturn
<1>4. CASE ~(e # Nothing /\ (IsOffline(r) \/ Fresh(e, r))) /\ ~IsOffline(r)
  <2>1. /\ cached' = [cached EXCEPT ![r] = e] /\ pc' = [pc EXCEPT ![r] = "fetching"]
        /\ UNCHANGED <<got, lock, reply, tries>>
    BY <1>4 DEF Looked, GoTo
  <2>2. Moves(r, "fetching", e, got[r], tries[r])
    BY <1>1, <2>1 DEF Moves, IInv, TypeOK
  <2>3. got[r] \in Got \union {Nothing} /\ tries[r] \in [attempt: 0..Retries, body: 0..1]
    BY DEF IInv, TypeOK, Got
  <2> QED
    BY <1>1, <2>2, <2>3, StepMoves DEF PCs
<1> QED
  BY <1>2, <1>3, <1>4

LEMMA StepReadMeta == ASSUME IInv, NEW r \in Requests, ReadMeta(r) PROVE IInv'
<1>1. pc[r] = "reading" /\ UNCHANGED <<world, disk, began>>
  BY DEF ReadMeta, Running
<1>2. CASE meta = Nothing
  BY <1>1, <1>2, StepLooked DEF ReadMeta
<1>3. CASE meta # Nothing
  <2>1. meta \in Meta /\ Held(meta.doc, meta.fetched)
    BY <1>3 DEF IInv, MetaInv
  <2>2. Moves(r, "readingBody", meta, got[r], tries[r])
    BY <1>1, <1>3 DEF ReadMeta, GoTo, Moves, world, disk, IInv, TypeOK
  <2>3. got[r] \in Got \union {Nothing} /\ tries[r] \in [attempt: 0..Retries, body: 0..1]
        /\ Bytes(body')
    BY <1>1 DEF IInv, TypeOK, Got, disk
  <2> QED
    BY <2>1, <2>2, <2>3, StepMoves DEF PCs
<1> QED
  BY <1>2, <1>3

LEMMA StepReadBody == ASSUME IInv, NEW r \in Requests, ReadBody(r) PROVE IInv'
<1> DEFINE m == cached[r]
           e == IF Matches(m, body)
                  THEN [doc |-> m.doc, body |-> body, fetched |-> m.fetched, ttl |-> m.ttl]
                  ELSE Nothing
<1>1. pc[r] = "readingBody" /\ UNCHANGED <<world, disk, began>> /\ Looked(r, e)
  BY DEF ReadBody, Running
<1>2. m \in Meta /\ Held(m.doc, m.fetched) /\ Bytes(body)
  BY <1>1 DEF IInv, RequestInv, TypeOK
<1>3. e \in Entry \union {Nothing}
  BY <1>2 DEF Matches, Meta, Entry, Bytes
<1>4. e # Nothing => Tells(e.doc, e.body) /\ Held(e.doc, e.fetched)
  BY <1>2 DEF Matches, Meta, Bytes, Tells
<1> HIDE DEF e
<1> QED
  BY <1>1, <1>3, <1>4, StepLooked

\* What a request was answered is held now, and as fresh as can be.
LEMMA JustFetched ==
  ASSUME IInv, NEW r \in Requests, NEW g \in Got, Held(g.doc, g.fetched), began[r] <= g.fetched
  PROVE  LET answer == Fetched(g)
         IN  /\ answer \in Reply /\ answer.body = answer.doc
             /\ Held(answer.doc, answer.fetched)
             /\ began[r] < answer.fetched + EffectiveTTL(TTL[r], answer.doc)
<1> DEFINE answer == Fetched(g)
<1>1. answer \in Reply /\ answer.body = g.doc /\ answer.doc = g.doc /\ answer.fetched = g.fetched
  BY DEF Fetched, Got, Reply
<1>2. began[r] \in Nat /\ g.fetched \in Nat
  BY HttpCacheAssumption DEF IInv, TypeOK, Times, Got
<1>3. EffectiveTTL(TTL[r], g.doc) \in Nat /\ EffectiveTTL(TTL[r], g.doc) >= 1
  BY Lifetimes
<1> HIDE DEF answer
<1>4. began[r] < answer.fetched + EffectiveTTL(TTL[r], answer.doc)
  BY <1>1, <1>2, <1>3
<1> QED
  BY <1>1, <1>4 DEF answer

LEMMA Now ==
  ASSUME IInv, NEW r \in Requests
  PROVE  LET g == [doc |-> doc, fetched |-> now]
         IN  g \in Got /\ Held(g.doc, g.fetched) /\ began[r] <= g.fetched
  BY HttpCacheAssumption DEF IInv, TypeOK, Times, Got, Held, RequestInv

LEMMA StepAnswered == ASSUME IInv, NEW r \in Requests, Answered(r) PROVE IInv'
<1> DEFINE g == [doc |-> doc, fetched |-> now]
<1>1. pc[r] = "fetching" /\ UNCHANGED <<world, disk, began>>
  BY DEF Answered, Running
<1>2. g \in Got /\ Held(g.doc, g.fetched) /\ began[r] <= g.fetched
  BY Now
<1>3. Bytes(body') /\ UNCHANGED <<now, doc, held, dead, clearing, meta>>
  BY <1>1 DEF IInv, TypeOK, world, disk
<1>4. CASE Status[doc] \in {200, 404}
  <2>1. got' = [got EXCEPT ![r] = g] /\ GoTo(r, "storing") /\ cached' = cached
    BY <1>4 DEF Answered
  <2> HIDE DEF g
  <2>2. Moves(r, "storing", cached[r], g, tries[r])
    BY <1>1, <1>3, <2>1 DEF GoTo, Moves, IInv, TypeOK
  <2>3. cached[r] \in Meta \union Entry \union {Nothing} /\ tries[r] \in [attempt: 0..Retries, body: 0..1]
    BY DEF IInv, TypeOK
  <2> QED
    BY <1>2, <1>3, <2>2, <2>3, StepMoves DEF PCs
<1>5. CASE Status[doc] \notin {200, 404}
  <2> DEFINE answer == Fetched(g)
  <2>1. Return(r, answer)
    BY <1>5 DEF Answered
  <2> HIDE DEF g
  <2>2. answer \in Reply /\ answer.body = answer.doc /\ Held(answer.doc, answer.fetched)
        /\ began[r] < answer.fetched + EffectiveTTL(TTL[r], answer.doc)
    BY <1>2, JustFetched
  <2> HIDE DEF answer
  <2> QED
    BY <1>1, <1>3, <2>1, <2>2, StepReturn DEF Tells
<1> QED
  BY <1>4, <1>5

LEMMA StepNotModified == ASSUME IInv, NEW r \in Requests, NotModified(r) PROVE IInv'
<1> DEFINE g == [doc |-> doc, fetched |-> now]
<1>1. pc[r] = "fetching" /\ UNCHANGED <<world, disk, began>> /\ cached[r] # Nothing /\ cached[r].doc = g.doc
  BY DEF NotModified, Running
<1>2. g \in Got /\ Held(g.doc, g.fetched) /\ began[r] <= g.fetched
  BY Now
<1>3. got' = [got EXCEPT ![r] = g] /\ GoTo(r, "refreshing") /\ cached' = cached
  BY DEF NotModified
<1>4. Bytes(body') /\ UNCHANGED <<now, doc, held, dead, clearing, meta, began>>
  BY <1>1 DEF IInv, TypeOK, world, disk
<1> HIDE DEF g
<1>5. Moves(r, "refreshing", cached[r], g, tries[r])
  BY <1>1, <1>3, <1>4 DEF GoTo, Moves, IInv, TypeOK
<1>6. cached[r] \in Meta \union Entry \union {Nothing} /\ tries[r] \in [attempt: 0..Retries, body: 0..1]
  BY DEF IInv, TypeOK
<1>7. cached[r] \in Entry /\ Tells(cached[r].doc, cached[r].body)
  BY <1>1 DEF IInv, RequestInv
<1> QED
  BY <1>1, <1>2, <1>4, <1>5, <1>6, <1>7, StepMoves DEF PCs

LEMMA StepGivesUp ==
  ASSUME IInv, NEW r \in Requests, pc[r] = "fetching", Return(r, Failure), UNCHANGED <<world, disk, began>>
  PROVE  IInv'
<1>1. Bytes(body') /\ UNCHANGED <<now, doc, held, dead, clearing, meta, began>>
  BY DEF IInv, TypeOK, world, disk
<1> QED
  BY <1>1, StepReturn, HttpCacheAssumption

LEMMA StepFailed ==
  ASSUME IInv, NEW r \in Requests, NEW failure \in {"final", "body", "transport"}, Failed(r, failure)
  PROVE  IInv'
<1> USE HttpCacheAssumption
<1>1. pc[r] = "fetching" /\ UNCHANGED <<world, disk, began>>
  BY DEF Failed, Running
<1>2. CASE GivesUp(r, failure)
  BY <1>1, <1>2, StepGivesUp DEF Failed
<1>3. CASE ~GivesUp(r, failure)
  <2> DEFINE t == [attempt |-> tries[r].attempt + 1, body |-> tries[r].body + (IF failure = "body" THEN 1 ELSE 0)]
  <2>1. tries[r] \in [attempt: 0..Retries, body: 0..1]
    BY DEF IInv, TypeOK
  <2>2. t \in [attempt: 0..Retries, body: 0..1]
    <3>1. tries[r].attempt + 1 \in 0..Retries
      BY <1>3, <2>1 DEF GivesUp
    <3>2. tries[r].body + (IF failure = "body" THEN 1 ELSE 0) \in 0..1
      BY <1>3, <2>1 DEF GivesUp
    <3> QED
      BY <2>1, <3>1, <3>2
  <2>3. tries' = [tries EXCEPT ![r] = t] /\ UNCHANGED <<pc, lock, reply, cached, got>>
    BY <1>3 DEF Failed
  <2> HIDE DEF t
  <2>4. Bytes(body') /\ UNCHANGED <<now, doc, held, dead, clearing, meta, began>>
    BY <1>1 DEF IInv, TypeOK, world, disk
  <2>5. Moves(r, "fetching", cached[r], got[r], t)
    BY <1>1, <2>3, <2>4 DEF Moves, IInv, TypeOK
  <2>6. cached[r] \in Meta \union Entry \union {Nothing} /\ got[r] \in Got \union {Nothing}
    BY DEF IInv, TypeOK, Got
  <2>7. cached[r] # Nothing => cached[r] \in Entry /\ Tells(cached[r].doc, cached[r].body)
    BY <1>1 DEF IInv, RequestInv
  <2> QED
    BY <2>2, <2>4, <2>5, <2>6, <2>7, StepMoves DEF PCs
<1> QED
  BY <1>2, <1>3

LEMMA StepStoreBody == ASSUME IInv, NEW r \in Requests, StoreBody(r) PROVE IInv'
<1>1. pc[r] = "storing" /\ UNCHANGED <<world, meta, began>>
  BY DEF StoreBody, Running
<1>2. got[r] \in Got /\ Held(got[r].doc, got[r].fetched) /\ began[r] <= got[r].fetched
  BY <1>1 DEF IInv, RequestInv
<1>3. UNCHANGED <<now, doc, held, dead, clearing, meta, began>>
  BY <1>1 DEF world
<1>4. CASE body' = got[r].doc /\ GoTo(r, "storingMeta") /\ UNCHANGED <<cached, got>>
  <2>1. Bytes(body')
    BY <1>2, <1>4 DEF Got, Bytes, Seen, Held
  <2>2. Moves(r, "storingMeta", cached[r], got[r], tries[r])
    BY <1>1, <1>3, <1>4 DEF GoTo, Moves, IInv, TypeOK
  <2>3. cached[r] \in Meta \union Entry \union {Nothing} /\ tries[r] \in [attempt: 0..Retries, body: 0..1]
    BY DEF IInv, TypeOK
  <2> QED
    BY <1>2, <2>1, <2>2, <2>3, StepMoves DEF PCs
<1>5. CASE Return(r, Fetched(got[r])) /\ UNCHANGED body
  <2> DEFINE answer == Fetched(got[r])
  <2>1. answer \in Reply /\ answer.body = answer.doc /\ Held(answer.doc, answer.fetched)
        /\ began[r] < answer.fetched + EffectiveTTL(TTL[r], answer.doc)
    BY <1>2, JustFetched
  <2>2. Bytes(body') /\ Return(r, answer)
    BY <1>5 DEF IInv, TypeOK
  <2> HIDE DEF answer
  <2> QED
    BY <1>1, <1>3, <2>1, <2>2, StepReturn DEF Tells
<1> QED
  BY <1>4, <1>5 DEF StoreBody

LEMMA StoredMeta ==
  ASSUME IInv, NEW r \in Requests, NEW g \in Got, Held(g.doc, g.fetched), meta' \in {meta, Stored(g, r)}
  PROVE  meta' = meta \/ (meta' \in Meta /\ Held(meta'.doc, meta'.fetched))
<1>1. EffectiveTTL(TTL[r], g.doc) \in Nat
  BY Lifetimes
<1> QED
  BY <1>1 DEF Stored, Meta, Got

LEMMA StepStoreMeta == ASSUME IInv, NEW r \in Requests, StoreMeta(r) PROVE IInv'
<1> DEFINE answer == Fetched(got[r])
<1>1. /\ pc[r] = "storingMeta" /\ UNCHANGED <<world, body, began>>
      /\ meta' \in {meta, Stored(got[r], r)} /\ Return(r, answer)
  BY DEF StoreMeta, Running
<1>2. got[r] \in Got /\ Held(got[r].doc, got[r].fetched) /\ began[r] <= got[r].fetched
  BY <1>1 DEF IInv, RequestInv
<1>3. UNCHANGED <<now, doc, held, dead, clearing, began>> /\ Bytes(body')
  BY <1>1 DEF world, IInv, TypeOK
<1>4. answer \in Reply /\ answer.body = answer.doc /\ Held(answer.doc, answer.fetched)
      /\ began[r] < answer.fetched + EffectiveTTL(TTL[r], answer.doc)
  BY <1>2, JustFetched
<1>5. meta' = meta \/ (meta' \in Meta /\ Held(meta'.doc, meta'.fetched))
  BY <1>1, <1>2, StoredMeta
<1> HIDE DEF answer
<1> QED
  BY <1>1, <1>3, <1>4, <1>5, StepReturn DEF Tells

LEMMA StepRefreshEntry == ASSUME IInv, NEW r \in Requests, RefreshEntry(r) PROVE IInv'
<1> DEFINE e == [cached[r] EXCEPT !.fetched = got[r].fetched]
           answer == Served(e)
<1>1. /\ pc[r] = "refreshing" /\ UNCHANGED <<world, body, began>>
      /\ meta' \in {meta, Stored(got[r], r)} /\ Return(r, answer)
  BY DEF RefreshEntry, Running
<1>2. /\ got[r] \in Got /\ Held(got[r].doc, got[r].fetched) /\ began[r] <= got[r].fetched
      /\ cached[r] \in Entry /\ cached[r].doc = got[r].doc
      /\ Tells(cached[r].doc, cached[r].body)
  BY <1>1 DEF IInv, RequestInv
<1>3. UNCHANGED <<now, doc, held, dead, clearing, began>> /\ Bytes(body')
  BY <1>1 DEF world, IInv, TypeOK
<1>4. /\ answer \in Reply /\ answer.doc = got[r].doc /\ answer.fetched = got[r].fetched
      /\ Tells(answer.doc, answer.body)
  BY <1>2 DEF Served, Entry, Got, Reply
<1>5. Held(answer.doc, answer.fetched) /\ began[r] < answer.fetched + EffectiveTTL(TTL[r], answer.doc)
  <2>1. LET f == Fetched(got[r])
        IN  began[r] < f.fetched + EffectiveTTL(TTL[r], f.doc)
    BY <1>2, JustFetched
  <2>2. Fetched(got[r]).fetched = got[r].fetched /\ Fetched(got[r]).doc = got[r].doc
    BY DEF Fetched
  <2> HIDE DEF answer
  <2> QED
    BY <1>2, <1>4, <2>1, <2>2
<1>6. meta' = meta \/ (meta' \in Meta /\ Held(meta'.doc, meta'.fetched))
  BY <1>1, <1>2, StoredMeta
<1> HIDE DEF answer
<1> QED
  BY <1>1, <1>3, <1>4, <1>5, <1>6, StepReturn

-----------------------------------------------------------------------------
LEMMA StepIInv == IInv /\ [Next]_vars => IInv'
<1> SUFFICES ASSUME IInv, [Next]_vars PROVE IInv'
  OBVIOUS
<1>1. ASSUME NEW r \in Requests, Step(r) PROVE IInv'
  <2>1. CASE Stops(r)
    BY <2>1, StepGivesUp DEF Stops, Running
  <2> QED
    BY <1>1, <2>1, StepLockKey, StepReadMeta, StepReadBody, StepAnswered, StepNotModified, StepFailed,
       StepStoreBody, StepStoreMeta, StepRefreshEntry DEF Step
<1> QED
  BY <1>1, StepWorld, StepDie DEF Next

LEMMA IInvHolds == Spec => []IInv
  BY InitIInv, StepIInv, PTL DEF Spec

(* Every reachable state of the cache is well typed.                        *)
THEOREM HttpCacheTypeOK == Spec => []TypeOK
<1>1. IInv => TypeOK
  BY DEF IInv
<1> QED
  BY <1>1, IInvHolds, PTL

(* A reply names what the server held when the reply says it did, and its   *)
(* body is that document or one the server once sent of the same length,    *)
(* wherever processes died or the cache was cleared between two renames or  *)
(* two reads (disk.go, readEntry and writeEntry).                           *)
THEOREM HttpCacheHonestReply == Spec => []HonestReply
<1>1. ASSUME IInv, NEW r \in Requests, reply[r] \in Reply
      PROVE  reply[r].doc \in held[reply[r].fetched] /\ Describes(reply[r].doc, reply[r].body)
  <2>1. Honest(r) /\ now \in Times
    BY <1>1 DEF IInv, RequestInv, TypeOK
  <2>2. 0..now \subseteq Times
    BY <2>1, HttpCacheAssumption DEF Times
  <2> QED
    BY <2>1, <2>2 DEF Honest, Held, Tells, Seen, Describes
<1>2. IInv => HonestReply
  BY <1>1 DEF HonestReply
<1> QED
  BY <1>2, IInvHolds, PTL

(* No reply is older than its own request allows, whatever TTL the entry    *)
(* was stored under (client.go, do and effectiveTTL).                       *)
THEOREM HttpCacheBoundedStaleness == Spec => []BoundedStaleness
<1>1. IInv => BoundedStaleness
  <2> SUFFICES ASSUME IInv, NEW r \in Requests, reply[r] \in Reply, ~IsOffline(r)
               PROVE  \E t \in Times : /\ reply[r].doc \in held[t]
                                       /\ Length[reply[r].body] = Length[reply[r].doc]
                                       /\ began[r] < t + EffectiveTTL(TTL[r], reply[r].doc)
    BY DEF BoundedStaleness
  <2>1. reply[r].fetched \in Times
    BY DEF Reply
  <2> QED
    BY <2>1 DEF IInv, RequestInv, Honest, Held, Tells
<1> QED
  BY <1>1, IInvHolds, PTL

(* No way out of a request leaves the entry locked (client.go, do).         *)
THEOREM HttpCacheEntryFreed == Spec => []EntryFreed
<1>1. IInv => EntryFreed
  BY DEF IInv, LockInv, EntryFreed
<1> QED
  BY <1>1, IInvHolds, PTL

=============================================================================
