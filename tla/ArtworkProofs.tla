----------------------------- MODULE ArtworkProofs -----------------------------
(***************************************************************************)
(* The two tasks of the panel's artwork, for any tracks, buffers and size  *)
(* of the cache: the cover on the screen is the one asked for last, every  *)
(* buffer has one owner, a worker that was reported idle stays idle, and   *)
(* a file that has its own name on the card is whole.  The inductive       *)
(* invariant says in addition of every job and answer on its way that it   *)
(* is about the present track unless it carries an older number; for the   *)
(* card, that no rename is next while the temporary file is torn.          *)
(***************************************************************************)
EXTENDS Artwork, SequenceTheorems, TLAPS

(* A job with the present number is about the track asked for. *)
Timely(job) ==
    job.id <= shared.id /\ (job.id = shared.id => job = NoJob \/ job.track = shared.job)

JobsAreTimely ==
    /\ Timely(queue) /\ Timely(worker.job)
    /\ ui.after = "enqueue" => shared.job # Unasked
    /\ worker.pc = "ask" => worker.job.track # None

(* An answer with the present number shows the track asked for. *)
Truthful(answer) ==
    /\ answer.id <= shared.id
    /\ answer.id = shared.id /\ answer.pixels # None => heap[answer.pixels] = shared.job

AnswersAreTruthful ==
    /\ Truthful(shared.result) /\ Truthful(worker.result)
    /\ worker.pc \notin {"store", "publish"} => worker.result = NoAnswer

ScreenIsCurrent == ui.request <= shared.id /\ ShownIsAsked

(* OwnedOnce, owner by owner. *)
Apart(p, q) == p = None \/ p # q
Owned ==
    /\ \A b \in Buffers :
          heap[b] # None <=> b \in {ui.shown, shared.result.pixels, worker.result.pixels}
    /\ Apart(ui.shown, shared.result.pixels) /\ Apart(ui.shown, worker.result.pixels)
    /\ Apart(shared.result.pixels, worker.result.pixels)

Working == worker.pc \in {"mount", "look", "ask", "store"}
PauseIsQuiet ==
    /\ (ui.paused <=> shared.suspended) /\ (ui.idle => ui.paused /\ ~Working)
    /\ shared.busy <=> Working

IInv ==
    TypeOK /\ JobsAreTimely /\ AnswersAreTruthful /\ ScreenIsCurrent /\ Owned /\ PauseIsQuiet

-------------------------------------------------------------------------------
(* Helpers *)

LEMMA Sentinels ==
    /\ None \notin Tracks /\ None \notin Buffers /\ Unasked \notin Tracks \cup {None}
BY ArtworkAssumption DEF None, Unasked

LEMMA FreeType ==
    ASSUME NEW h \in Heaps, NEW pixels
    PROVE  /\ Free(h, pixels) \in Heaps
           /\ \A b \in Buffers : Free(h, pixels)[b] = IF b = pixels THEN None ELSE h[b]
BY DEF Free, Heaps

(* A plan is a sequence of typed operations. *)
LEMMA WriteType ==
    ASSUME NEW file \in {"jpg", "meta"}, NEW track \in Tracks, NEW value \in Values
    PROVE  Write(file, track, value) \in Seq(Ops)
<1>1. /\ Op("open", file, track, None) \in Ops /\ Op("fill", file, track, value) \in Ops
      /\ Op("drop", file, track, None) \in Ops /\ Op("name", file, track, None) \in Ops
  BY DEF Op, Ops, Values
<1> QED BY <1>1 DEF Write

LEMMA RoomType ==
    ASSUME NEW track \in Tracks, NEW room \in Room(track)
    PROVE  room \in Seq(Ops)
<1>1. \A t \in Tracks : Op("try", "jpg", t, None) \in Ops /\ Op("try", "meta", t, None) \in Ops
  BY DEF Op, Ops, Values
<1>2. room = <<>> \/ \E t \in Tracks : room = <<Op("try", "jpg", t, None), Op("try", "meta", t, None)>>
  BY DEF Room, Others
<1>3. \A t \in Tracks : <<Op("try", "jpg", t, None), Op("try", "meta", t, None)>> \in Seq(Ops)
  BY <1>1
<1> QED BY <1>2, <1>3, EmptySeq

LEMMA PlanType ==
    ASSUME NEW track \in Tracks
    PROVE  /\ \A plan \in MissStored(track) : plan \in Seq(Ops)
           /\ \A plan \in CoverStored(track) : plan \in Seq(Ops)
<1>1. Write("jpg", track, "whole") \in Seq(Ops) /\ Write("meta", track, "cover") \in Seq(Ops)
      /\ Write("meta", track, "miss") \in Seq(Ops)
  BY WriteType DEF Values
<1>2. Op("try", "jpg", track, None) \in Ops
  BY DEF Op, Ops, Values
<1>3. ASSUME NEW room \in Room(track)
      PROVE  room \o Write("jpg", track, "whole") \o Write("meta", track, "cover") \in Seq(Ops)
  BY <1>1, RoomType, ConcatProperties
<1>4. (IF HasMeta(track) THEN <<Op("try", "jpg", track, None)>> ELSE <<>>) \in Seq(Ops)
  BY <1>2
<1>5. ASSUME NEW room \in Room(track)
      PROVE  room \o (IF HasMeta(track) THEN <<Op("try", "jpg", track, None)>> ELSE <<>>)
                  \o Write("meta", track, "miss") \in Seq(Ops)
  BY <1>1, <1>4, RoomType, ConcatProperties
<1> QED BY <1>3, <1>5 DEF MissStored, CoverStored

LEMMA WithoutType ==
    ASSUME TypeOK, NEW covers
    PROVE  Without(covers) \in Cards
BY DEF TypeOK, Without, Cards, Values

LEMMA CardType ==
    ASSUME TypeOK, NEW t \in Tracks, NEW file \in {"jpg", "meta"}, NEW value \in Values
    PROVE  [card EXCEPT ![t][file] = value] \in Cards
BY DEF TypeOK, Cards

(* At most one name changes, and takes the temporary file only by a rename. *)
LEMMA AppliedCases ==
    ASSUME NEW op
    PROVE  \/ Applied(op) \in {card, [card EXCEPT ![op.track][op.file] = None]}
           \/ op.do = "name" /\ Applied(op) = [card EXCEPT ![op.track][op.file] = temporary]
<1>1. CASE op.do \in {"drop", "try"}
  BY <1>1 DEF Applied
<1>2. CASE op.do = "name"
  BY <1>2 DEF Applied
<1>3. CASE op.do \notin {"drop", "try", "name"}
  BY <1>3 DEF Applied
<1> QED BY <1>1, <1>2, <1>3

LEMMA AppliedType ==
    ASSUME TypeOK, NEW op \in Ops
    PROVE  Applied(op) \in Cards /\ Filled(op) \in Values
<1>1. Filled(op) \in Values
  BY DEF TypeOK, Filled, Ops, Values
<1>2. op.track \in Tracks /\ op.file \in {"jpg", "meta"} /\ None \in Values /\ temporary \in Values
  BY DEF TypeOK, Ops, Values
<1>3. \E value \in {None, temporary} : Applied(op) \in {card, [card EXCEPT ![op.track][op.file] = value]}
  BY AppliedCases
<1>4. card \in Cards
  BY DEF TypeOK
<1> QED BY <1>1, <1>2, <1>3, <1>4, CardType

LEMMA AfterFailureType ==
    ASSUME NEW op \in Ops, NEW rest \in Seq(Ops)
    PROVE  AfterFailure(op, rest) \in Seq(Ops)
<1>1. Op("remove", op.file, op.track, None) \in Ops
  BY DEF Op, Ops, Values
<1> QED BY <1>1, EmptySeq DEF AfterFailure

-------------------------------------------------------------------------------
LEMMA Initially == Init => IInv
<1> SUFFICES ASSUME Init PROVE IInv
  OBVIOUS
<1>1. /\ NoAnswer \in Answers /\ NoAnswer.id = 0 /\ NoAnswer.pixels = None
      /\ NoJob \in Jobs /\ NoJob.id = 0
  BY DEF NoAnswer, Answer, Answers, Statuses, NoJob, Jobs
<1>2. ui.request = 0 /\ shared.id = 0 /\ queue.id = 0 /\ worker.job.id = 0
  BY <1>1 DEF Init, BlankUi, BlankShared, BlankWorker
<1>3. queue = NoJob /\ worker.job = NoJob /\ worker.pc = "wait" /\ ui.after = None
  BY DEF Init, BlankUi, BlankWorker
<1>4. ui.shown = None /\ shared.result = NoAnswer /\ worker.result = NoAnswer
  BY DEF Init, BlankUi, BlankShared, BlankWorker
<1>5. ~ui.paused /\ ~ui.idle /\ ~shared.suspended /\ ~shared.busy /\ worker.pc = "wait"
  BY DEF Init, BlankUi, BlankShared, BlankWorker
<1>6. \A b \in Buffers : heap[b] = None
  BY DEF Init
<1>7. TypeOK
  <2>1. /\ card \in Cards /\ temporary \in Values /\ heap \in Heaps
        /\ playing = None /\ mounted = FALSE /\ queue \in Jobs
    BY <1>1 DEF Init, Absent, Values, Cards, Heaps
  <2>2. ui \in Uis
    BY DEF Init, BlankUi, Statuses, Uis
  <2>3. shared \in Shares
    BY <1>1 DEF Init, BlankShared, Shares
  <2>4. worker \in Workers
    BY <1>1, EmptySeq DEF Init, BlankWorker, Workers
  <2> QED BY <2>1, <2>2, <2>3, <2>4 DEF TypeOK
<1>8. JobsAreTimely
  BY <1>2, <1>3 DEF JobsAreTimely, Timely, None
<1>9. /\ shared.result.id = 0 /\ shared.result.pixels = None
      /\ worker.result.id = 0 /\ worker.result.pixels = None
  BY <1>1, <1>4
<1>10. AnswersAreTruthful
  BY <1>2, <1>4, <1>9 DEF AnswersAreTruthful, Truthful
<1>11. ScreenIsCurrent
  BY <1>2, <1>4 DEF ScreenIsCurrent, ShownIsAsked
<1>12. Owned
  BY <1>4, <1>6, <1>9, Sentinels DEF Owned, Apart
<1>13. PauseIsQuiet
  BY <1>5 DEF PauseIsQuiet, Working
<1> QED BY <1>7, <1>8, <1>10, <1>11, <1>12, <1>13 DEF IInv

-------------------------------------------------------------------------------
(* One lemma for each action *)

LEMMA PlayStep == ASSUME IInv, NEW track \in Tracks \cup {None}, Play(track) PROVE IInv'
<1> USE DEF IInv, Play
<1>1. TypeOK'
  BY DEF TypeOK
<1>2. JobsAreTimely'
  BY DEF JobsAreTimely, Timely
<1>3. AnswersAreTruthful' /\ ScreenIsCurrent'
  BY DEF AnswersAreTruthful, Truthful, ScreenIsCurrent, ShownIsAsked
<1>4. Owned'
  BY DEF Owned, Apart
<1>5. PauseIsQuiet'
  BY DEF PauseIsQuiet, Working
<1> QED BY <1>1, <1>2, <1>3, <1>4, <1>5

LEMMA AfterLockStep == ASSUME IInv, AfterLock PROVE IInv'
<1>1. NoJob \in Jobs /\ NoJob.id = 0
  BY DEF NoJob, Jobs
<1>2. shared' = shared /\ shared.id \in Nat /\ shared.job \in Tracks \cup {None, Unasked}
  BY DEF IInv, TypeOK, Shares, AfterLock
<1>3. queue' \in Jobs /\ Timely(queue)'
  <2>1. CASE ui.after = "reset"
    <3>1. queue' = NoJob
      BY <2>1 DEF AfterLock
    <3> QED BY <1>1, <1>2, <3>1 DEF Timely
  <2>2. CASE ui.after = "enqueue"
    <3>1. shared.job # Unasked
      BY <2>2 DEF IInv, JobsAreTimely
    <3>2. queue' = [id |-> shared.id, track |-> shared.job]
      BY <2>2 DEF AfterLock
    <3> QED BY <1>2, <3>1, <3>2 DEF Timely, Jobs
  <2> QED BY <2>1, <2>2 DEF AfterLock, IInv, TypeOK, Uis
<1>4. /\ ui' \in Uis /\ ui'.request = ui.request /\ ui'.shown = ui.shown /\ ui'.after = None
      /\ (ui'.paused <=> ui.paused) /\ (ui'.idle <=> ui.idle)
  BY DEF IInv, TypeOK, Uis, AfterLock
<1>5. UNCHANGED <<playing, shared, worker, card, temporary, mounted, heap>>
  BY DEF AfterLock
<1>6. TypeOK'
  BY <1>3, <1>4, <1>5 DEF IInv, TypeOK
<1>7. JobsAreTimely'
  BY <1>3, <1>4, <1>5 DEF IInv, JobsAreTimely, Timely, None
<1>8. AnswersAreTruthful' /\ ScreenIsCurrent'
  BY <1>4, <1>5 DEF IInv, AnswersAreTruthful, Truthful, ScreenIsCurrent, ShownIsAsked
<1>9. Owned'
  BY <1>4, <1>5 DEF IInv, Owned, Apart
<1>10. PauseIsQuiet'
  BY <1>4, <1>5 DEF IInv, PauseIsQuiet, Working
<1> QED BY <1>6, <1>7, <1>8, <1>9, <1>10 DEF IInv

(* The same request again: at most the image of an older one goes. *)
LEMMA KnownStep == ASSUME IInv, Refresh, Known PROVE IInv'
<1>1. ui \in Uis /\ shared \in Shares /\ heap \in Heaps
  BY DEF IInv, TypeOK
<1>2. UNCHANGED <<playing, shared, queue, worker, card, temporary, mounted>>
  BY DEF Refresh
<1>3. /\ ui' \in Uis /\ ui'.request = shared.id /\ ui'.after = None
      /\ (ui'.paused <=> ui.paused) /\ (ui'.idle <=> ui.idle)
  BY <1>1 DEF Refresh, Uis, Shares
<1>4. \/ ui'.shown = ui.shown /\ heap' = heap
      \/ ui'.shown = None /\ heap' = Free(heap, ui.shown)
  BY <1>1 DEF Refresh, Uis
<1>5. /\ heap' \in Heaps
      /\ \/ ui'.shown = ui.shown /\ heap' = heap
         \/ ui'.shown = None /\ \A b \in Buffers : heap'[b] = IF b = ui.shown THEN None ELSE heap[b]
  BY <1>1, <1>4, FreeType
<1>6. TypeOK'
  BY <1>2, <1>3, <1>5 DEF IInv, TypeOK
<1>7. JobsAreTimely'
  BY <1>2, <1>3 DEF IInv, JobsAreTimely, Timely, None
<1>8. AnswersAreTruthful'
  <2>1. ASSUME NEW b \in Buffers, Apart(ui.shown, b) PROVE heap'[b] = heap[b]
    BY <2>1, <1>5, Sentinels DEF Apart
  <2>2. /\ shared.result.pixels \in Buffers \cup {None} /\ worker.result.pixels \in Buffers \cup {None}
    BY DEF IInv, TypeOK, Shares, Workers, Answers
  <2>3. Truthful(shared.result)'
    BY <1>2, <2>1, <2>2 DEF IInv, Owned, AnswersAreTruthful, Truthful
  <2>4. Truthful(worker.result)'
    BY <1>2, <2>1, <2>2 DEF IInv, Owned, AnswersAreTruthful, Truthful
  <2> QED BY <1>2, <2>3, <2>4 DEF IInv, AnswersAreTruthful
<1>9. ScreenIsCurrent'
  BY <1>1, <1>2, <1>3, <1>5 DEF IInv, ScreenIsCurrent, ShownIsAsked, Shares
<1>10. Owned'
  BY <1>1, <1>2, <1>5, Sentinels DEF IInv, Owned, Apart
<1>11. PauseIsQuiet'
  BY <1>2, <1>3 DEF IInv, PauseIsQuiet, Working
<1> QED BY <1>6, <1>7, <1>8, <1>9, <1>10, <1>11 DEF IInv

(* A new request: no job, answer or image on its way is the present one's. *)
LEMMA NewStep == ASSUME IInv, Refresh, ~Known PROVE IInv'
<1>1. ui \in Uis /\ shared \in Shares /\ heap \in Heaps /\ playing \in Tracks \cup {None}
  BY DEF IInv, TypeOK
<1>2. UNCHANGED <<playing, queue, worker, card, temporary, mounted>>
  BY DEF Refresh
<1>3. NoAnswer \in Answers /\ NoAnswer.id = 0 /\ NoAnswer.pixels = None
  BY DEF NoAnswer, Answer, Answers, Statuses
<1>4. /\ shared' \in Shares /\ shared'.id = shared.id + 1 /\ shared'.job = playing
      /\ shared'.result = NoAnswer
      /\ (shared'.suspended <=> shared.suspended) /\ (shared'.busy <=> shared.busy)
  <2>1. shared' = [shared EXCEPT !.id = shared.id + 1, !.job = playing, !.result = NoAnswer]
    BY DEF Refresh, NewJob
  <2>2. shared.id + 1 \in Nat /\ playing \in Tracks \cup {None, Unasked}
    BY <1>1 DEF Shares
  <2>3. shared' \in Shares
    BY <1>1, <1>3, <2>1, <2>2 DEF Shares
  <2> QED BY <1>1, <2>1, <2>3 DEF Shares
<1>5. shared.id + 1 # ui.request
  BY <1>1 DEF IInv, ScreenIsCurrent, Uis, Shares
<1>6. /\ ui' \in Uis /\ ui'.request = shared.id + 1 /\ ui'.shown = None
      /\ (ui'.paused <=> ui.paused) /\ (ui'.idle <=> ui.idle)
      /\ heap' = Free(Free(heap, ui.shown), shared.result.pixels)
  <2>1. ui' = [ui EXCEPT !.request = shared.id + 1, !.label = "finding", !.shown = None,
                         !.after = IF Known \/ shared.suspended THEN None ELSE "enqueue"]
    BY <1>1, <1>5 DEF Refresh, NewJob, Uis
  <2>2. shared.id + 1 \in Nat
    BY <1>1 DEF Shares
  <2>3. heap' = Free(Free(heap, ui.shown), shared.result.pixels)
    BY <1>5 DEF Refresh, NewJob
  <2> QED BY <1>1, <2>1, <2>2, <2>3 DEF Uis
<1>7. /\ heap' \in Heaps
      /\ \A b \in Buffers : heap'[b] = IF b \in {ui.shown, shared.result.pixels} THEN None ELSE heap[b]
  <2> DEFINE cleared == Free(heap, ui.shown)
  <2>1. cleared \in Heaps /\ \A b \in Buffers : cleared[b] = IF b = ui.shown THEN None ELSE heap[b]
    BY <1>1, FreeType
  <2> HIDE DEF cleared
  <2>2. heap' = Free(cleared, shared.result.pixels)
    BY <1>6 DEF cleared
  <2> QED BY <2>1, <2>2, FreeType
<1>8. TypeOK'
  BY <1>2, <1>4, <1>6, <1>7 DEF IInv, TypeOK
<1>9. shared.id \in Nat /\ shared'.job # Unasked
  BY <1>1, <1>4, Sentinels DEF Shares
<1>10. JobsAreTimely'
  <2>1. Timely(queue)'
    BY <1>2, <1>4, <1>9 DEF IInv, TypeOK, Jobs, JobsAreTimely, Timely
  <2>2. worker.job.id \in Nat
    BY DEF IInv, TypeOK, Workers, Jobs
  <2>3. Timely(worker.job)'
    BY <1>2, <1>4, <1>9, <2>2 DEF IInv, JobsAreTimely, Timely
  <2> QED BY <1>2, <1>9, <2>1, <2>3 DEF IInv, JobsAreTimely
<1>11. AnswersAreTruthful'
  <2>1. worker.result.id \in Nat
    BY DEF IInv, TypeOK, Workers, Answers
  <2>2. Truthful(shared.result)'
    BY <1>3, <1>4, <1>9 DEF Truthful
  <2>3. Truthful(worker.result)'
    BY <1>2, <1>4, <1>9, <2>1 DEF IInv, AnswersAreTruthful, Truthful
  <2> QED BY <1>2, <2>2, <2>3 DEF IInv, AnswersAreTruthful
<1>12. ScreenIsCurrent'
  BY <1>4, <1>6, <1>9 DEF ScreenIsCurrent, ShownIsAsked
<1>13. Owned'
  BY <1>2, <1>3, <1>4, <1>6, <1>7, Sentinels DEF IInv, Owned, Apart
<1>14. PauseIsQuiet'
  BY <1>2, <1>4, <1>6 DEF IInv, PauseIsQuiet, Working
<1> QED BY <1>8, <1>10, <1>11, <1>12, <1>13, <1>14 DEF IInv

LEMMA NoneType ==
    /\ NoAnswer \in Answers /\ NoAnswer.id = 0 /\ NoAnswer.pixels = None
    /\ NoJob \in Jobs /\ NoJob.id = 0
BY DEF NoAnswer, Answer, Answers, Statuses, NoJob, Jobs

(* The result is taken for the screen, or one of the two or both are dropped. *)
LEMMA PollStep == ASSUME IInv, Poll PROVE IInv'
<1> DEFINE r == shared.result
<1>1. ui \in Uis /\ shared \in Shares /\ heap \in Heaps /\ r \in Answers
  BY DEF IInv, TypeOK, Shares
<1>2. UNCHANGED <<playing, queue, worker, card, temporary, mounted>>
  BY DEF Poll
<1>3. /\ shared' \in Shares /\ shared'.id = shared.id /\ shared'.job = shared.job
      /\ shared'.result = NoAnswer
      /\ (shared'.suspended <=> shared.suspended) /\ (shared'.busy <=> shared.busy)
  <2>1. shared' = [shared EXCEPT !.result = NoAnswer]
    BY DEF Poll
  <2> QED BY <1>1, <2>1, NoneType DEF Shares
<1>4. /\ ui' \in Uis /\ ui'.request = ui.request /\ ui'.after = ui.after
      /\ (ui'.paused <=> ui.paused) /\ (ui'.idle <=> ui.idle)
      /\ \/ ui'.shown = r.pixels /\ r.id = shared.id /\ heap' = Free(heap, ui.shown)
         \/ ui'.shown = None /\ heap' = Free(Free(heap, ui.shown), r.pixels)
         \/ ui'.shown = ui.shown /\ heap' = Free(heap, r.pixels)
  <2>1. CASE ~(Current(r.id) /\ r.id = ui.request)
    BY <1>1, <2>1 DEF Poll
  <2>2. CASE Current(r.id) /\ r.id = ui.request /\ r.status = "ready"
    <3>1. ui' = [ui EXCEPT !.label = r.status, !.shown = r.pixels] /\ heap' = Free(heap, ui.shown)
      BY <2>2 DEF Poll
    <3> QED BY <1>1, <2>2, <3>1 DEF Uis, Answers, Current
  <2>3. CASE Current(r.id) /\ r.id = ui.request /\ r.status # "ready"
    <3>1. /\ ui' = [ui EXCEPT !.label = r.status, !.shown = None]
          /\ heap' = Free(Free(heap, ui.shown), r.pixels)
      BY <2>3 DEF Poll
    <3> QED BY <1>1, <3>1 DEF Uis, Answers
  <2> QED BY <2>1, <2>2, <2>3
<1>5. /\ heap' \in Heaps
      /\ \/ /\ ui'.shown = r.pixels /\ r.id = shared.id
            /\ \A b \in Buffers : heap'[b] = IF b = ui.shown THEN None ELSE heap[b]
         \/ /\ ui'.shown = None
            /\ \A b \in Buffers : heap'[b] = IF b \in {ui.shown, r.pixels} THEN None ELSE heap[b]
         \/ /\ ui'.shown = ui.shown
            /\ \A b \in Buffers : heap'[b] = IF b = r.pixels THEN None ELSE heap[b]
  <2> DEFINE cleared == Free(heap, ui.shown)
  <2>1. cleared \in Heaps /\ \A b \in Buffers : cleared[b] = IF b = ui.shown THEN None ELSE heap[b]
    BY <1>1, FreeType
  <2>2. \/ ui'.shown = r.pixels /\ r.id = shared.id /\ heap' = cleared
        \/ ui'.shown = None /\ heap' = Free(cleared, r.pixels)
        \/ ui'.shown = ui.shown /\ heap' = Free(heap, r.pixels)
    BY <1>4
  <2> HIDE DEF cleared, r
  <2> QED BY <1>1, <2>1, <2>2, FreeType
<1>6. TypeOK'
  BY <1>2, <1>3, <1>4, <1>5 DEF IInv, TypeOK
<1>7. JobsAreTimely'
  BY <1>2, <1>3, <1>4 DEF IInv, JobsAreTimely, Timely
<1>8. r.pixels \in Buffers \cup {None} /\ worker.result.pixels \in Buffers \cup {None}
      /\ ui.shown \in Buffers \cup {None} /\ shared.id \in Nat
  BY <1>1 DEF IInv, TypeOK, Workers, Answers, Uis, Shares
<1>9. AnswersAreTruthful'
  <2>1. Truthful(shared.result)'
    BY <1>3, <1>8, NoneType DEF Truthful
  <2>2. worker.result.pixels # None => heap'[worker.result.pixels] = heap[worker.result.pixels]
    BY <1>5, <1>8 DEF IInv, Owned, Apart
  <2>3. Truthful(worker.result)'
    BY <1>2, <1>3, <2>2 DEF IInv, AnswersAreTruthful, Truthful
  <2> QED BY <1>2, <2>1, <2>3 DEF IInv, AnswersAreTruthful
<1>10. ScreenIsCurrent'
  <2>1. ui'.shown # None => ui'.shown \in {r.pixels, ui.shown} /\ heap'[ui'.shown] = heap[ui'.shown]
    BY <1>5, <1>8 DEF IInv, Owned, Apart
  <2>2. ui'.shown # None /\ ui'.shown # ui.shown => ui'.shown = r.pixels /\ r.id = shared.id
    BY <1>5
  <2> QED BY <1>3, <1>4, <2>1, <2>2 DEF IInv, ScreenIsCurrent, ShownIsAsked, AnswersAreTruthful, Truthful
<1>11. Owned'
  BY <1>2, <1>3, <1>5, <1>8, NoneType, Sentinels DEF IInv, Owned, Apart
<1>12. PauseIsQuiet'
  BY <1>2, <1>3, <1>4 DEF IInv, PauseIsQuiet, Working
<1> QED BY <1>6, <1>7, <1>9, <1>10, <1>11, <1>12 DEF IInv

LEMMA PauseStep == ASSUME IInv, Pause PROVE IInv'
<1>1. ui \in Uis /\ shared \in Shares /\ heap \in Heaps
  BY DEF IInv, TypeOK
<1>2. UNCHANGED <<playing, queue, worker, card, temporary, mounted>>
  BY DEF Pause
<1>3. /\ shared' \in Shares /\ shared'.id = shared.id /\ shared'.job = shared.job
      /\ shared'.result = NoAnswer /\ shared'.suspended /\ (shared'.busy <=> shared.busy)
  <2>1. shared' = [shared EXCEPT !.suspended = TRUE, !.result = NoAnswer]
    BY DEF Pause
  <2> QED BY <1>1, <2>1, NoneType DEF Shares
<1>4. /\ ui' \in Uis /\ ui'.request = ui.request /\ ui'.after = "reset" /\ ui'.shown = ui.shown
      /\ ui'.paused /\ (ui'.idle <=> ~shared.busy)
  <2>1. ui' = [ui EXCEPT !.paused = TRUE, !.idle = ~shared.busy, !.after = "reset"]
    BY DEF Pause
  <2> QED BY <1>1, <2>1 DEF Uis
<1>5. heap' \in Heaps /\ \A b \in Buffers : heap'[b] = IF b = shared.result.pixels THEN None ELSE heap[b]
  <2>1. heap' = Free(heap, shared.result.pixels)
    BY DEF Pause
  <2> QED BY <1>1, <2>1, FreeType
<1>6. TypeOK'
  BY <1>2, <1>3, <1>4, <1>5 DEF IInv, TypeOK
<1>7. JobsAreTimely'
  BY <1>2, <1>3, <1>4 DEF IInv, JobsAreTimely, Timely
<1>8. worker.result.pixels \in Buffers \cup {None} /\ ui.shown \in Buffers \cup {None} /\ shared.id \in Nat
  BY <1>1 DEF IInv, TypeOK, Workers, Answers, Uis, Shares
<1>9. AnswersAreTruthful'
  <2>1. Truthful(shared.result)'
    BY <1>3, <1>8, NoneType DEF Truthful
  <2>2. worker.result.pixels # None => heap'[worker.result.pixels] = heap[worker.result.pixels]
    BY <1>5, <1>8 DEF IInv, Owned, Apart
  <2>3. Truthful(worker.result)'
    BY <1>2, <1>3, <2>2 DEF IInv, AnswersAreTruthful, Truthful
  <2> QED BY <1>2, <2>1, <2>3 DEF IInv, AnswersAreTruthful
<1>10. ScreenIsCurrent'
  <2>1. ui.shown # None => heap'[ui.shown] = heap[ui.shown]
    BY <1>5, <1>8 DEF IInv, Owned, Apart
  <2> QED BY <1>3, <1>4, <2>1 DEF IInv, ScreenIsCurrent, ShownIsAsked
<1>11. Owned'
  BY <1>2, <1>3, <1>4, <1>5, <1>8, NoneType, Sentinels DEF IInv, Owned, Apart
<1>12. PauseIsQuiet'
  BY <1>2, <1>3, <1>4 DEF IInv, PauseIsQuiet, Working
<1> QED BY <1>6, <1>7, <1>9, <1>10, <1>11, <1>12 DEF IInv

(* Resuming outdates every job and answer from before. *)
LEMMA ResumeStep == ASSUME IInv, Resume PROVE IInv'
<1>1. ui \in Uis /\ shared \in Shares
  BY DEF IInv, TypeOK
<1>2. UNCHANGED <<playing, queue, worker, card, temporary, mounted, heap>>
  BY DEF Resume
<1>3. /\ shared' \in Shares /\ shared'.id = shared.id + 1 /\ shared'.job = Unasked
      /\ shared'.result = shared.result /\ ~shared'.suspended /\ (shared'.busy <=> shared.busy)
  <2>1. shared' = [shared EXCEPT !.suspended = FALSE, !.id = shared.id + 1, !.job = Unasked]
    BY DEF Resume
  <2>2. shared.id + 1 \in Nat
    BY <1>1 DEF Shares
  <2>3. shared' \in Shares
    BY <1>1, <2>1, <2>2 DEF Shares
  <2> QED BY <1>1, <2>1, <2>3 DEF Shares
<1>4. /\ ui' \in Uis /\ ui'.request = ui.request /\ ui'.after = None /\ ui'.shown = ui.shown
      /\ ~ui'.paused /\ ~ui'.idle
  <2>1. ui' = [ui EXCEPT !.paused = FALSE, !.idle = FALSE] /\ ui.after = None
    BY DEF Resume
  <2> QED BY <1>1, <2>1 DEF Uis
<1>5. TypeOK'
  BY <1>2, <1>3, <1>4 DEF IInv, TypeOK
<1>6. shared.id \in Nat /\ ui.request \in Nat /\ queue.id \in Nat /\ worker.job.id \in Nat
      /\ shared.result.id \in Nat /\ worker.result.id \in Nat
  BY DEF IInv, TypeOK, Shares, Uis, Workers, Jobs, Answers
<1>7. Timely(queue)' /\ Timely(worker.job)'
  BY <1>2, <1>3, <1>6 DEF IInv, JobsAreTimely, Timely
<1>8. JobsAreTimely'
  BY <1>2, <1>4, <1>7 DEF IInv, JobsAreTimely, None
<1>9. AnswersAreTruthful'
  BY <1>2, <1>3, <1>6 DEF IInv, AnswersAreTruthful, Truthful
<1>10. ScreenIsCurrent'
  BY <1>3, <1>4, <1>6 DEF IInv, ScreenIsCurrent, ShownIsAsked
<1>11. Owned'
  BY <1>2, <1>3, <1>4 DEF IInv, Owned, Apart
<1>12. PauseIsQuiet'
  BY <1>2, <1>3, <1>4 DEF IInv, PauseIsQuiet, Working
<1> QED BY <1>5, <1>8, <1>9, <1>10, <1>11, <1>12 DEF IInv

-------------------------------------------------------------------------------
(* The worker *)

(* What a step of the worker leaves alone when it touches no buffer. *)
LEMMA WorkerStep ==
    ASSUME IInv, UNCHANGED <<playing, ui, mounted, heap>>, card' \in Cards, temporary' \in Values,
           shared' = shared, queue' \in {queue, NoJob}, worker' \in Workers,
           worker'.job \in {worker.job, queue, NoJob}, worker'.result = worker.result,
           worker'.pc = "ask" => worker'.job.track # None,
           worker'.pc \notin {"store", "publish"} => worker.result = NoAnswer,
           Working <=> Working'
    PROVE  IInv'
<1>1. NoJob \in Jobs /\ NoJob.id = 0 /\ shared.id \in Nat
  BY NoneType DEF IInv, TypeOK, Shares
<1>2. TypeOK'
  BY <1>1 DEF IInv, TypeOK
<1>3. Timely(queue)' /\ Timely(worker.job)'
  BY <1>1 DEF IInv, JobsAreTimely, Timely
<1>4. JobsAreTimely'
  BY <1>3 DEF IInv, JobsAreTimely
<1>5. AnswersAreTruthful' /\ ScreenIsCurrent'
  BY DEF IInv, AnswersAreTruthful, Truthful, ScreenIsCurrent, ShownIsAsked
<1>6. Owned'
  BY DEF IInv, Owned, Apart
<1>7. PauseIsQuiet'
  BY DEF IInv, PauseIsQuiet
<1> QED BY <1>2, <1>4, <1>5, <1>6, <1>7 DEF IInv

LEMMA ReceiveStep == ASSUME IInv, Receive PROVE IInv'
<1>1. worker \in Workers /\ queue \in Jobs
  BY DEF IInv, TypeOK
<1>2. worker' = [worker EXCEPT !.pc = "claim", !.job = queue] /\ worker.pc = "wait"
  BY DEF Receive
<1>3. /\ worker' \in Workers /\ worker'.pc = "claim" /\ worker'.job = queue /\ worker'.result = worker.result
  BY <1>1, <1>2 DEF Workers
<1>4. ~Working /\ ~Working' /\ worker.result = NoAnswer
  BY <1>2, <1>3 DEF Working, IInv, AnswersAreTruthful
<1> QED BY <1>1, <1>3, <1>4, WorkerStep DEF Receive, IInv, TypeOK

LEMMA RetryStep == ASSUME IInv, Retry PROVE IInv'
<1>1. worker \in Workers
  BY DEF IInv, TypeOK
<1>2. worker' = [worker EXCEPT !.pc = "claim"] /\ worker.pc = "wait"
  BY DEF Retry
<1>3. /\ worker' \in Workers /\ worker'.pc = "claim" /\ worker'.job = worker.job
      /\ worker'.result = worker.result
  BY <1>1, <1>2 DEF Workers
<1>4. ~Working /\ ~Working' /\ worker.result = NoAnswer
  BY <1>2, <1>3 DEF Working, IInv, AnswersAreTruthful
<1> QED BY <1>1, <1>3, <1>4, WorkerStep DEF Retry, IInv, TypeOK

LEMMA StoreStep == ASSUME IInv, Store PROVE IInv'
<1>1. worker \in Workers /\ worker.plan \in Seq(Ops) /\ worker.plan # <<>>
  BY DEF IInv, TypeOK, Workers, Store
<1>2. Head(worker.plan) \in Ops /\ Tail(worker.plan) \in Seq(Ops) /\ <<>> \in Seq(Ops)
  BY <1>1, HeadTailProperties, EmptySeq
<1>3. \E rest \in Seq(Ops) : worker' = [worker EXCEPT !.plan = rest]
  BY <1>2, AfterFailureType DEF Store
<1>4. /\ worker' \in Workers /\ worker'.pc = worker.pc /\ worker'.job = worker.job
      /\ worker'.result = worker.result
  BY <1>1, <1>3 DEF Workers
<1>5. card' \in Cards /\ temporary' \in Values
  <2>1. \/ card' = Applied(Head(worker.plan)) /\ temporary' = Filled(Head(worker.plan))
        \/ card' = card /\ temporary' = temporary
    BY DEF Store
  <2> QED BY <1>2, <2>1, AppliedType DEF IInv, TypeOK
<1>6. (Working <=> Working') /\ worker.pc = "store"
  BY <1>4 DEF Working, Store
<1> QED BY <1>4, <1>5, <1>6, WorkerStep DEF Store

LEMMA ClaimStep == ASSUME IInv, Claim PROVE IInv'
<1>1. /\ worker \in Workers /\ shared \in Shares /\ worker.pc = "claim"
      /\ UNCHANGED <<playing, ui, queue, card, temporary, mounted, heap>>
  BY DEF IInv, TypeOK, Claim
<1>2. worker.result = NoAnswer /\ ~Working
  BY <1>1 DEF IInv, AnswersAreTruthful, Working
<1>3. CASE ~Current(worker.job.id)
  <2>1. shared' = shared /\ worker' = [worker EXCEPT !.pc = "wait", !.retry = FALSE, !.job = NoJob]
    BY <1>3 DEF Claim
  <2>2. /\ worker' \in Workers /\ worker'.pc = "wait" /\ worker'.job = NoJob /\ worker'.result = worker.result
    BY <1>1, <2>1, NoneType DEF Workers
  <2>3. ~Working'
    BY <2>2 DEF Working
  <2> QED BY <1>1, <1>2, <2>1, <2>2, <2>3, WorkerStep DEF IInv, TypeOK
<1>4. CASE Current(worker.job.id)
  <2>1. shared' = [shared EXCEPT !.busy = TRUE] /\ worker' = [worker EXCEPT !.pc = "mount"]
    BY <1>4 DEF Claim
  <2>2. /\ shared' \in Shares /\ shared'.id = shared.id /\ shared'.job = shared.job /\ shared'.busy
        /\ shared'.result = shared.result /\ (shared'.suspended <=> shared.suspended)
    BY <1>1, <2>1 DEF Shares
  <2>3. /\ worker' \in Workers /\ worker'.pc = "mount" /\ worker'.job = worker.job
        /\ worker'.result = worker.result
    BY <1>1, <2>1 DEF Workers
  <2>4. TypeOK'
    BY <1>1, <2>2, <2>3 DEF IInv, TypeOK
  <2>5. JobsAreTimely' /\ AnswersAreTruthful' /\ ScreenIsCurrent'
    BY <1>1, <1>2, <2>2, <2>3
       DEF IInv, JobsAreTimely, Timely, AnswersAreTruthful, Truthful, ScreenIsCurrent, ShownIsAsked
  <2>6. Owned'
    BY <1>1, <2>2, <2>3 DEF IInv, Owned, Apart
  <2>7. ~shared.suspended
    BY <1>4 DEF Current
  <2>8. PauseIsQuiet'
    BY <1>1, <2>2, <2>3, <2>7 DEF IInv, PauseIsQuiet, Working
  <2> QED BY <2>4, <2>5, <2>6, <2>8 DEF IInv
<1> QED BY <1>3, <1>4

(* An answer about the worker's job, in a buffer of its own. *)
LEMMA DecidedStep ==
    ASSUME IInv, worker.pc \in {"look", "ask"},
           UNCHANGED <<playing, ui, shared, queue, card, temporary, mounted>>,
           NEW status \in Statuses, NEW pixels \in Buffers \cup {None}, NEW plan \in Seq(Ops),
           pixels # None => heap[pixels] = None /\ worker.job.track # None,
           Decided(status, pixels, plan)
    PROVE  IInv'
<1> DEFINE answer == Answer(worker.job.id, status, pixels)
<1>1. worker \in Workers /\ heap \in Heaps /\ worker.job \in Jobs /\ shared.id \in Nat
  BY DEF IInv, TypeOK, Workers, Shares
<1>2. answer \in Answers /\ answer.id = worker.job.id /\ answer.pixels = pixels
  BY <1>1 DEF Answer, Answers, Jobs
<1>3. worker' = [worker EXCEPT !.pc = "store", !.plan = plan, !.result = answer]
  BY DEF Decided
<1> HIDE DEF answer
<1>4. /\ worker' \in Workers /\ worker'.pc = "store" /\ worker'.job = worker.job
      /\ worker'.result = answer
  BY <1>1, <1>2, <1>3 DEF Workers
<1>5. heap' = IF pixels = None THEN heap ELSE [heap EXCEPT ![pixels] = worker.job.track]
  BY DEF Decided
<1>6. /\ heap' \in Heaps
      /\ \A b \in Buffers : heap'[b] = IF b = pixels THEN worker.job.track ELSE heap[b]
  BY <1>1, <1>5, Sentinels DEF Heaps, Jobs
<1>7. worker.result = NoAnswer /\ worker.result.pixels = None
  BY NoneType DEF IInv, AnswersAreTruthful
<1>8. ui.shown \in Buffers \cup {None} /\ shared.result.pixels \in Buffers \cup {None}
  BY DEF IInv, TypeOK, Uis, Shares, Answers
<1>9. TypeOK'
  BY <1>4, <1>6 DEF IInv, TypeOK
<1>10. JobsAreTimely'
  BY <1>4 DEF IInv, JobsAreTimely, Timely
<1>11. \A b \in {ui.shown, shared.result.pixels} : b # None => b # pixels /\ heap'[b] = heap[b]
  BY <1>6, <1>8 DEF IInv, Owned
<1>12. AnswersAreTruthful'
  <2>1. Truthful(shared.result)'
    BY <1>11 DEF IInv, AnswersAreTruthful, Truthful
  <2>2. pixels # None => heap'[pixels] = worker.job.track /\ worker.job # NoJob
    BY <1>6 DEF NoJob
  <2>3. Truthful(worker.result)'
    BY <1>2, <1>4, <2>2 DEF IInv, JobsAreTimely, Timely, Truthful
  <2> QED BY <1>4, <2>1, <2>3 DEF AnswersAreTruthful
<1>13. ScreenIsCurrent'
  BY <1>11 DEF IInv, ScreenIsCurrent, ShownIsAsked
<1>14. Owned'
  BY <1>2, <1>4, <1>6, <1>7, <1>8, <1>11, Sentinels DEF IInv, Owned, Apart
<1>15. PauseIsQuiet'
  BY <1>4 DEF IInv, PauseIsQuiet, Working
<1> QED BY <1>9, <1>10, <1>12, <1>13, <1>14, <1>15 DEF IInv

LEMMA MountStep == ASSUME IInv, Mount PROVE IInv'
<1>1. worker.pc = "mount" /\ UNCHANGED <<playing, ui, shared, queue, heap>>
  BY DEF Mount
<1>2. worker \in Workers /\ worker' = [worker EXCEPT !.pc = "look"]
  BY DEF Mount, IInv, TypeOK
<1>3. /\ worker' \in Workers /\ worker'.pc = "look" /\ worker'.job = worker.job
      /\ worker'.result = worker.result
  BY <1>2 DEF Workers
<1>4. card' \in Cards /\ temporary' \in Values /\ mounted' \in BOOLEAN
  <2>1. CASE UNCHANGED <<mounted, card, temporary>>
    BY <2>1 DEF IInv, TypeOK
  <2>2. CASE /\ mounted' = TRUE /\ \E covers \in SUBSET Unvouched : card' = Without(covers)
             /\ temporary' \in {temporary, None}
    BY <2>2, WithoutType DEF IInv, TypeOK, Values
  <2> QED BY <2>1, <2>2 DEF Mount
<1>5. TypeOK'
  BY <1>1, <1>3, <1>4 DEF IInv, TypeOK
<1>6. JobsAreTimely' /\ AnswersAreTruthful' /\ ScreenIsCurrent'
  BY <1>1, <1>3
     DEF IInv, JobsAreTimely, Timely, AnswersAreTruthful, Truthful, ScreenIsCurrent, ShownIsAsked
<1>7. Owned' /\ PauseIsQuiet'
  BY <1>1, <1>3 DEF IInv, Owned, Apart, PauseIsQuiet, Working
<1> QED BY <1>5, <1>6, <1>7 DEF IInv

LEMMA LookStep == ASSUME IInv, Look PROVE IInv'
<1> DEFINE asked == worker' = [worker EXCEPT !.pc = "ask"] /\ heap' = heap
<1>1. worker.pc = "look" /\ UNCHANGED <<playing, ui, shared, queue, card, temporary, mounted>>
  BY DEF Look
<1>2. worker \in Workers /\ worker.job.track \in Tracks \cup {None}
  BY DEF IInv, TypeOK, Workers, Jobs
<1>3. CASE Decided("no match", None, <<>>)
  BY <1>1, <1>3, EmptySeq, DecidedStep DEF Statuses
<1>4. ASSUME NEW b \in Buffers, heap[b] = None, worker.job.track # None,
             NEW plan \in {<<>>, Write("meta", worker.job.track, "cover")}, Decided("ready", b, plan)
      PROVE  IInv'
  <2>1. plan \in Seq(Ops)
    BY <1>2, <1>4, EmptySeq, WriteType DEF Values
  <2> QED BY <1>1, <1>4, <2>1, DecidedStep DEF Statuses
<1>5. CASE asked /\ worker.job.track # None
  <2>1. /\ worker' \in Workers /\ worker'.pc = "ask" /\ worker'.job = worker.job
        /\ worker'.result = worker.result
    BY <1>2, <1>5 DEF Workers
  <2>2. TypeOK'
    BY <1>1, <1>5, <2>1 DEF IInv, TypeOK
  <2>3. JobsAreTimely' /\ AnswersAreTruthful' /\ ScreenIsCurrent'
    BY <1>1, <1>5, <2>1
       DEF IInv, JobsAreTimely, Timely, AnswersAreTruthful, Truthful, ScreenIsCurrent, ShownIsAsked
  <2>4. Owned'
    BY <1>1, <1>5, <2>1 DEF IInv, Owned, Apart
  <2>5. PauseIsQuiet'
    BY <1>1, <2>1 DEF IInv, PauseIsQuiet, Working
  <2> QED BY <2>2, <2>3, <2>4, <2>5 DEF IInv
<1>6. \/ Decided("no match", None, <<>>)
      \/ \E b \in Buffers, plan \in {<<>>, Write("meta", worker.job.track, "cover")} :
            heap[b] = None /\ worker.job.track # None /\ Decided("ready", b, plan)
      \/ asked /\ worker.job.track # None
  BY DEF Look
<1> QED BY <1>3, <1>4, <1>5, <1>6

LEMMA AskStep == ASSUME IInv, Ask PROVE IInv'
<1>1. worker.pc = "ask" /\ UNCHANGED <<playing, ui, shared, queue, card, temporary, mounted>>
  BY DEF Ask
<1>2. worker.job.track \in Tracks
  BY <1>1 DEF IInv, TypeOK, Workers, Jobs, JobsAreTimely
<1>4. \E status \in Statuses, pixels \in Buffers \cup {None}, plan \in Seq(Ops) :
         (pixels # None => heap[pixels] = None) /\ Decided(status, pixels, plan)
  <2> DEFINE plans(stored) == IF mounted THEN stored ELSE {<<>>}
             track == worker.job.track
  <2>1. <<>> \in Seq(Ops) /\ {"retry", "invalid", "no trust", "no match", "ready"} \subseteq Statuses
    BY EmptySeq DEF Statuses
  <2>2. \A plan \in plans(MissStored(track)) \cup plans(CoverStored(track)) : plan \in Seq(Ops)
    BY <1>2, <2>1, PlanType
  <2>3. \/ Decided("retry", None, <<>>)
        \/ \E status \in {"invalid", "no trust"} : Decided(status, None, <<>>)
        \/ \E plan \in plans(MissStored(track)) : Decided("no match", None, plan)
        \/ \E b \in {x \in Buffers : heap[x] = None} :
              \/ \E plan \in plans(CoverStored(track)) : Decided("ready", b, plan)
              \/ Decided("ready", b, <<>>)
    BY DEF Ask
  <2> HIDE DEF plans, track
  <2> QED BY <2>1, <2>2, <2>3
<1> QED BY <1>1, <1>2, <1>4, DecidedStep, Sentinels

LEMMA DoneStep == ASSUME IInv, Done PROVE IInv'
<1>1. worker \in Workers /\ shared \in Shares /\ worker.pc = "store"
      /\ UNCHANGED <<playing, ui, queue, card, temporary, mounted, heap>>
  BY DEF IInv, TypeOK, Done
<1>2. PICK retry \in BOOLEAN, job \in {worker.job, NoJob} :
         worker' = [worker EXCEPT !.pc = "publish", !.retry = retry, !.job = job]
  BY DEF Done
<1>3. /\ worker' \in Workers /\ worker'.pc = "publish" /\ worker'.job \in {worker.job, NoJob}
      /\ worker'.result = worker.result
  <2>1. job \in Jobs
    BY <1>1, NoneType DEF Workers
  <2>2. worker' \in Workers
    BY <1>1, <1>2, <2>1 DEF Workers
  <2> QED BY <1>1, <1>2, <2>2 DEF Workers
<1>4. /\ shared' \in Shares /\ shared'.id = shared.id /\ shared'.job = shared.job /\ ~shared'.busy
      /\ shared'.result = shared.result /\ (shared'.suspended <=> shared.suspended)
  <2>1. shared' = [shared EXCEPT !.busy = FALSE]
    BY DEF Done
  <2> QED BY <1>1, <2>1 DEF Shares
<1>5. TypeOK'
  BY <1>1, <1>3, <1>4 DEF IInv, TypeOK
<1>6. shared.id \in Nat
  BY <1>1 DEF Shares
<1>7. JobsAreTimely'
  BY <1>1, <1>3, <1>4, <1>6, NoneType DEF IInv, JobsAreTimely, Timely
<1>8. AnswersAreTruthful' /\ ScreenIsCurrent'
  BY <1>1, <1>3, <1>4 DEF IInv, AnswersAreTruthful, Truthful, ScreenIsCurrent, ShownIsAsked
<1>9. Owned'
  BY <1>1, <1>3, <1>4 DEF IInv, Owned, Apart
<1>10. PauseIsQuiet'
  BY <1>1, <1>3, <1>4 DEF IInv, PauseIsQuiet, Working
<1> QED BY <1>5, <1>7, <1>8, <1>9, <1>10 DEF IInv

LEMMA PublishStep == ASSUME IInv, Publish PROVE IInv'
<1> DEFINE w == worker.result
<1>1. worker \in Workers /\ shared \in Shares /\ heap \in Heaps /\ w \in Answers /\ worker.pc = "publish"
      /\ UNCHANGED <<playing, ui, queue, card, temporary, mounted>>
  BY DEF IInv, TypeOK, Workers, Publish
<1>2. /\ worker' \in Workers /\ worker'.pc = "wait" /\ worker'.job = worker.job
      /\ worker'.result = NoAnswer
  <2>1. worker' = [worker EXCEPT !.pc = "wait", !.result = NoAnswer]
    BY DEF Publish
  <2> QED BY <1>1, <2>1, NoneType DEF Workers
<1>3. /\ shared' \in Shares /\ shared'.id = shared.id /\ shared'.job = shared.job
      /\ (shared'.busy <=> shared.busy) /\ (shared'.suspended <=> shared.suspended)
      /\ \/ shared'.result = w /\ heap' = Free(heap, shared.result.pixels)
         \/ shared'.result = shared.result /\ heap' = Free(heap, w.pixels)
  <2>1. CASE Current(w.id)
    <3>1. shared' = [shared EXCEPT !.result = w] /\ heap' = Free(heap, shared.result.pixels)
      BY <2>1 DEF Publish
    <3> QED BY <1>1, <3>1 DEF Shares
  <2>2. CASE ~Current(w.id)
    BY <1>1, <2>2 DEF Publish
  <2> QED BY <2>1, <2>2
<1>4. /\ heap' \in Heaps
      /\ \/ /\ shared'.result = w
            /\ \A b \in Buffers : heap'[b] = IF b = shared.result.pixels THEN None ELSE heap[b]
         \/ /\ shared'.result = shared.result
            /\ \A b \in Buffers : heap'[b] = IF b = w.pixels THEN None ELSE heap[b]
  <2> HIDE DEF w
  <2> QED BY <1>1, <1>3, FreeType
<1>5. TypeOK'
  BY <1>1, <1>2, <1>3, <1>4 DEF IInv, TypeOK
<1>6. JobsAreTimely'
  BY <1>1, <1>2, <1>3 DEF IInv, JobsAreTimely, Timely
<1>7. w.pixels \in Buffers \cup {None} /\ shared.result.pixels \in Buffers \cup {None}
      /\ ui.shown \in Buffers \cup {None} /\ shared.id \in Nat
  BY <1>1 DEF IInv, TypeOK, Answers, Uis, Shares
<1>8. AnswersAreTruthful'
  <2>1. shared'.result.pixels # None => heap'[shared'.result.pixels] = heap[shared'.result.pixels]
    BY <1>4, <1>7 DEF IInv, Owned, Apart
  <2>2. Truthful(shared.result)'
    BY <1>3, <2>1 DEF IInv, AnswersAreTruthful, Truthful
  <2>3. Truthful(worker.result)'
    BY <1>2, <1>3, <1>7, NoneType DEF Truthful
  <2> QED BY <1>2, <2>2, <2>3 DEF AnswersAreTruthful
<1>9. ScreenIsCurrent'
  <2>1. ui.shown # None => heap'[ui.shown] = heap[ui.shown]
    BY <1>4, <1>7 DEF IInv, Owned, Apart
  <2> QED BY <1>1, <1>3, <2>1 DEF IInv, ScreenIsCurrent, ShownIsAsked
<1>10. Owned'
  BY <1>1, <1>2, <1>4, <1>7, NoneType, Sentinels DEF IInv, Owned, Apart
<1>11. PauseIsQuiet'
  BY <1>1, <1>2, <1>3 DEF IInv, PauseIsQuiet, Working
<1> QED BY <1>5, <1>6, <1>8, <1>9, <1>10, <1>11 DEF IInv

(* A reset leaves what Init has, but the card and what plays. *)
LEMMA ResetStep == ASSUME IInv, Reset PROVE IInv'
<1>1. /\ ui' \in Uis /\ ui'.request = 0 /\ ui'.shown = None /\ ui'.after = None /\ ~ui'.paused /\ ~ui'.idle
  <2>1. ui' = BlankUi
    BY DEF Reset
  <2> QED BY <2>1 DEF BlankUi, Uis, Statuses
<1>2. /\ shared' \in Shares /\ shared'.id = 0 /\ shared'.result = NoAnswer
      /\ ~shared'.suspended /\ ~shared'.busy
  <2>1. shared' = BlankShared
    BY DEF Reset
  <2> QED BY <2>1, NoneType DEF BlankShared, Shares
<1>3. /\ worker' \in Workers /\ worker'.pc = "wait" /\ worker'.job = NoJob /\ worker'.result = NoAnswer
  <2>1. worker' = BlankWorker
    BY DEF Reset
  <2> QED BY <2>1, NoneType, EmptySeq DEF BlankWorker, Workers
<1>4. heap' \in Heaps /\ \A b \in Buffers : heap'[b] = None
  BY DEF Reset, Heaps
<1>5. queue' = NoJob /\ playing' = playing /\ card' = card /\ temporary' = temporary /\ mounted' = FALSE
  BY DEF Reset
<1>6. TypeOK'
  BY <1>1, <1>2, <1>3, <1>4, <1>5, NoneType DEF IInv, TypeOK
<1>7. JobsAreTimely'
  BY <1>1, <1>2, <1>3, <1>5, NoneType DEF JobsAreTimely, Timely, None
<1>8. AnswersAreTruthful' /\ ScreenIsCurrent'
  BY <1>1, <1>2, <1>3, NoneType DEF AnswersAreTruthful, Truthful, ScreenIsCurrent, ShownIsAsked
<1>9. Owned'
  BY <1>1, <1>2, <1>3, <1>4, NoneType, Sentinels DEF Owned, Apart
<1>10. PauseIsQuiet'
  BY <1>1, <1>2, <1>3 DEF PauseIsQuiet, Working
<1> QED BY <1>6, <1>7, <1>8, <1>9, <1>10 DEF IInv

-------------------------------------------------------------------------------
(* Theorems *)

(* The inductive invariant holds in every reachable state. *)
THEOREM Invariance == Spec => []IInv
<1>1. IInv /\ [Next]_vars => IInv'
  <2> SUFFICES ASSUME IInv, [Next]_vars PROVE IInv'
    OBVIOUS
  <2>1. CASE Next
    <3>1. CASE \E track \in Tracks \cup {None} : Play(track)
      BY <3>1, PlayStep
    <3>2. CASE Refresh
      BY <3>2, KnownStep, NewStep
    <3>3. CASE Work
      BY <3>3, ReceiveStep, RetryStep, ClaimStep, MountStep, LookStep, AskStep, StoreStep, DoneStep,
         PublishStep DEF Work
    <3> QED
      BY <2>1, <3>1, <3>2, <3>3, AfterLockStep, PollStep, PauseStep, ResumeStep, ResetStep DEF Next
  <2>2. CASE UNCHANGED vars
    <3>1. UNCHANGED <<playing, ui, shared, queue, worker, card, temporary, mounted, heap>>
      BY <2>2 DEF vars
    <3>2. TypeOK'
      BY <3>1 DEF IInv, TypeOK
    <3>3. JobsAreTimely' /\ AnswersAreTruthful' /\ ScreenIsCurrent'
      BY <3>1 DEF IInv, JobsAreTimely, Timely, AnswersAreTruthful, Truthful, ScreenIsCurrent, ShownIsAsked
    <3>4. Owned' /\ PauseIsQuiet'
      BY <3>1 DEF IInv, Owned, Apart, PauseIsQuiet, Working
    <3> QED BY <3>2, <3>3, <3>4 DEF IInv
  <2> QED BY <2>1, <2>2
<1> QED BY <1>1, Initially, PTL DEF Spec

(* Every variable of the two tasks, the queue and the card keeps its type. *)
THEOREM TypeCorrect == Spec => []TypeOK
<1>1. IInv => TypeOK
  BY DEF IInv
<1> QED BY <1>1, Invariance, PTL

(* The image on the screen is that of the track asked for last (poll() in
   artwork.cpp takes an answer by its number only).                       *)
THEOREM ShownSafe == Spec => []ShownIsAsked
<1>1. IInv => ShownIsAsked
  BY DEF IInv, ScreenIsCurrent
<1> QED BY <1>1, Invariance, PTL

(* A buffer of pixels is held by exactly one of the screen, the waiting
   result and the worker, or it is free.                                  *)
THEOREM OwnershipSafe == Spec => []OwnedOnce
<1>1. ASSUME IInv PROVE OwnedOnce
  <2> DEFINE owners == <<ui.shown, shared.result.pixels, worker.result.pixels>>
  <2>1. owners[1] = ui.shown /\ owners[2] = shared.result.pixels /\ owners[3] = worker.result.pixels
    OBVIOUS
  <2>2. \A i \in 1..3 : i = 1 \/ i = 2 \/ i = 3
    OBVIOUS
  <2>3. \A i \in 1..3 : owners[i] \in Buffers \cup {None}
    BY <1>1, <2>1, <2>2 DEF IInv, TypeOK, Uis, Shares, Workers, Answers
  <2>4. {owners[i] : i \in 1..3} = {ui.shown, shared.result.pixels, worker.result.pixels}
    BY <2>1, <2>2
  <2>5. {b \in Buffers : heap[b] # None} = {owners[i] : i \in 1..3} \ {None}
    BY <1>1, <2>3, <2>4, Sentinels DEF IInv, Owned
  <2>6. \A i, j \in 1..3 : i # j => owners[i] = None \/ owners[i] # owners[j]
    BY <1>1, <2>1, <2>2 DEF IInv, Owned, Apart
  <2> QED BY <2>5, <2>6 DEF OwnedOnce
<1> QED BY <1>1, Invariance, PTL

(* After artwork_prepare_sleep() answered true the worker is still. *)
THEOREM PauseSafe == Spec => []QuietWhilePaused
<1>1. IInv => QuietWhilePaused
  BY DEF IInv, PauseIsQuiet, Working, QuietWhilePaused
<1> QED BY <1>1, Invariance, PTL

-------------------------------------------------------------------------------
(* The card *)

(* What is left of a plan renames a temporary file only after it has filled  *)
(* it; what was filled already is not torn.                                  *)
NamesWhole(plan, held) ==
    \A i \in 1..Len(plan) :
        /\ plan[i].do = "fill" => plan[i].value # "torn"
        /\ plan[i].do = "name" =>
              /\ i > 1 => plan[i - 1].do = "drop"
              /\ i > 2 => plan[i - 2].do = "fill"
              /\ i <= 2 => held # "torn"

CardIsWhole == NoTornCover /\ NamesWhole(worker.plan, temporary)

(* A plan that has not begun: every rename comes after its write. *)
Fresh(plan) ==
    \A i \in 1..Len(plan) :
        /\ plan[i].do = "fill" => plan[i].value # "torn"
        /\ plan[i].do = "name" => i > 2 /\ plan[i - 1].do = "drop" /\ plan[i - 2].do = "fill"

LEMMA FreshIsWhole ==
    ASSUME NEW plan \in Seq(Ops), Fresh(plan), NEW held
    PROVE  NamesWhole(plan, held)
<1>1. \A i \in 1..Len(plan) : i > 2 => ~(i <= 2) /\ i > 1
  OBVIOUS
<1> QED BY <1>1 DEF Fresh, NamesWhole

LEMMA FreshConcat ==
    ASSUME NEW p \in Seq(Ops), NEW q \in Seq(Ops), Fresh(p), Fresh(q)
    PROVE  p \o q \in Seq(Ops) /\ Fresh(p \o q)
<1> DEFINE both == p \o q
<1>1. /\ both \in Seq(Ops) /\ Len(both) = Len(p) + Len(q)
      /\ \A i \in 1 .. Len(p) + Len(q) : both[i] = IF i <= Len(p) THEN p[i] ELSE q[i - Len(p)]
  BY ConcatProperties
<1>2. Len(p) \in Nat /\ Len(q) \in Nat
  BY LenProperties
<1> HIDE DEF both
<1>3. ASSUME NEW i \in 1..Len(both)
      PROVE  /\ both[i].do = "fill" => both[i].value # "torn"
             /\ both[i].do = "name" => i > 2 /\ both[i - 1].do = "drop" /\ both[i - 2].do = "fill"
  <2>1. CASE i <= Len(p)
    <3>1. i \in 1..Len(p) /\ both[i] = p[i]
      BY <1>1, <1>2, <2>1
    <3>2. i > 2 => both[i - 1] = p[i - 1] /\ both[i - 2] = p[i - 2]
      <4>1. i > 2 => /\ i - 1 \in 1 .. Len(p) + Len(q) /\ i - 1 <= Len(p)
                     /\ i - 2 \in 1 .. Len(p) + Len(q) /\ i - 2 <= Len(p)
        BY <1>1, <1>2, <2>1
      <4> QED BY <1>1, <4>1
    <3> QED BY <3>1, <3>2 DEF Fresh
  <2>2. CASE i > Len(p)
    <3> DEFINE j == i - Len(p)
    <3>1. j \in 1..Len(q) /\ both[i] = q[j] /\ i - 1 - Len(p) = j - 1 /\ i - 2 - Len(p) = j - 2
      BY <1>1, <1>2, <2>2
    <3>2. j > 2 => i > 2 /\ both[i - 1] = q[j - 1] /\ both[i - 2] = q[j - 2]
      <4>1. j > 2 => /\ i - 1 \in 1 .. Len(p) + Len(q) /\ ~(i - 1 <= Len(p)) /\ i > 2
                     /\ i - 2 \in 1 .. Len(p) + Len(q) /\ ~(i - 2 <= Len(p))
        BY <1>1, <1>2, <2>2
      <4>2. j > 2 => both[i - 1] = q[i - 1 - Len(p)] /\ both[i - 2] = q[i - 2 - Len(p)]
        BY <1>1, <4>1
      <4> QED BY <3>1, <4>1, <4>2
    <3> HIDE DEF j
    <3> QED BY <3>1, <3>2 DEF Fresh
  <2> QED BY <1>1, <1>2, <2>1, <2>2
<1>4. Fresh(both)
  BY <1>3 DEF Fresh
<1> QED BY <1>1, <1>4 DEF both

LEMMA FreshWrite ==
    ASSUME NEW file \in {"jpg", "meta"}, NEW track \in Tracks, NEW value \in Values \ {"torn"}
    PROVE  Write(file, track, value) \in Seq(Ops) /\ Fresh(Write(file, track, value))
<1> DEFINE w == Write(file, track, value)
<1>1. /\ w = <<Op("open", file, track, None), Op("fill", file, track, value),
               Op("drop", file, track, None), Op("name", file, track, None)>>
      /\ Len(w) = 4
  BY DEF Write
<1>2. /\ w[1].do = "open" /\ w[2].do = "fill" /\ w[3].do = "drop" /\ w[4].do = "name"
      /\ w[2].value = value
  BY <1>1 DEF Op
<1>3. w \in Seq(Ops)
  BY WriteType
<1> HIDE DEF w
<1>4. \A i \in 1..4 : i = 1 \/ i = 2 \/ i = 3 \/ i = 4
  OBVIOUS
<1>5. ASSUME NEW i \in 1..4
      PROVE  /\ w[i].do = "fill" => w[i].value # "torn"
             /\ w[i].do = "name" => i > 2 /\ w[i - 1].do = "drop" /\ w[i - 2].do = "fill"
  <2>1. w[i].do = "name" => i = 4
    BY <1>2, <1>4
  <2>2. w[i].do = "fill" => i = 2
    BY <1>2, <1>4
  <2>3. 4 > 2 /\ 4 - 1 = 3 /\ 4 - 2 = 2
    OBVIOUS
  <2> QED BY <1>2, <2>1, <2>2, <2>3
<1>6. Fresh(w)
  BY <1>1, <1>5 DEF Fresh
<1> QED BY <1>3, <1>6 DEF w

(* Evictions and removals neither fill nor rename. *)
LEMMA FreshTries ==
    ASSUME NEW plan \in Seq(Ops), \A i \in 1..Len(plan) : plan[i].do = "try"
    PROVE  Fresh(plan)
BY DEF Fresh

LEMMA FreshEmpty == <<>> \in Seq(Ops) /\ Fresh(<<>>)
<1>1. Len(<<>>) = 0 /\ 1..0 = {}
  OBVIOUS
<1> QED BY <1>1, EmptySeq DEF Fresh

LEMMA FreshRoom ==
    ASSUME NEW track \in Tracks, NEW room \in Room(track)
    PROVE  room \in Seq(Ops) /\ Fresh(room)
<1>1. CASE room = <<>>
  BY <1>1, FreshEmpty
<1>2. ASSUME NEW t \in Tracks, room = <<Op("try", "jpg", t, None), Op("try", "meta", t, None)>>
      PROVE  room \in Seq(Ops) /\ Fresh(room)
  <2>1. room \in Seq(Ops)
    BY RoomType
  <2>2. Len(room) = 2 /\ room[1].do = "try" /\ room[2].do = "try"
    BY <1>2 DEF Op
  <2>3. \A i \in 1..2 : i = 1 \/ i = 2
    OBVIOUS
  <2>4. \A i \in 1..Len(room) : room[i].do = "try"
    BY <2>2, <2>3
  <2> QED BY <2>1, <2>4, FreshTries
<1>3. room = <<>> \/ \E t \in Tracks : room = <<Op("try", "jpg", t, None), Op("try", "meta", t, None)>>
  BY DEF Room, Others
<1> QED BY <1>1, <1>2, <1>3

LEMMA FreshStored ==
    ASSUME NEW track \in Tracks
    PROVE  \A plan \in MissStored(track) \cup CoverStored(track) : plan \in Seq(Ops) /\ Fresh(plan)
<1> DEFINE removed == IF HasMeta(track) THEN <<Op("try", "jpg", track, None)>> ELSE <<>>
           jpg == Write("jpg", track, "whole")
           cover == Write("meta", track, "cover")
           miss == Write("meta", track, "miss")
<1>1. /\ jpg \in Seq(Ops) /\ Fresh(jpg) /\ cover \in Seq(Ops) /\ Fresh(cover)
      /\ miss \in Seq(Ops) /\ Fresh(miss)
  BY FreshWrite DEF Values
<1>2. removed \in Seq(Ops) /\ Fresh(removed)
  <2>1. CASE HasMeta(track)
    <3>1. removed = <<Op("try", "jpg", track, None)>> /\ Op("try", "jpg", track, None) \in Ops
      BY <2>1 DEF Op, Ops, Values
    <3>2. removed \in Seq(Ops) /\ Len(removed) = 1 /\ removed[1].do = "try"
      BY <3>1 DEF Op
    <3>3. \A i \in 1..1 : i = 1
      OBVIOUS
    <3>4. \A i \in 1..Len(removed) : removed[i].do = "try"
      BY <3>2, <3>3
    <3> QED BY <3>2, <3>4, FreshTries
  <2>2. CASE ~HasMeta(track)
    BY <2>2, FreshEmpty
  <2> QED BY <2>1, <2>2
<1>3. /\ MissStored(track) = {room \o removed \o miss : room \in Room(track)}
      /\ CoverStored(track) = {room \o jpg \o cover : room \in Room(track)}
  BY DEF MissStored, CoverStored
<1> HIDE DEF removed, jpg, cover, miss
<1>4. ASSUME NEW room \in Room(track)
      PROVE  /\ room \o removed \o miss \in Seq(Ops) /\ Fresh(room \o removed \o miss)
             /\ room \o jpg \o cover \in Seq(Ops) /\ Fresh(room \o jpg \o cover)
  <2>1. room \in Seq(Ops) /\ Fresh(room)
    BY FreshRoom
  <2>2. /\ room \o removed \in Seq(Ops) /\ Fresh(room \o removed)
        /\ room \o jpg \in Seq(Ops) /\ Fresh(room \o jpg)
    BY <1>1, <1>2, <2>1, FreshConcat
  <2> QED BY <1>1, <2>2, FreshConcat
<1> QED BY <1>3, <1>4

(* What a worker decides to store has not begun. *)
LEMMA DecidedWhole ==
    ASSUME TypeOK, CardIsWhole, UNCHANGED <<card, temporary>>,
           NEW status, NEW pixels, NEW plan \in Seq(Ops), Fresh(plan), Decided(status, pixels, plan)
    PROVE  CardIsWhole'
<1>1. worker'.plan = plan
  BY DEF TypeOK, Workers, Decided
<1>2. NamesWhole(worker.plan, temporary)'
  BY <1>1, FreshIsWhole
<1> QED BY <1>2 DEF CardIsWhole, NoTornCover

LEMMA LookWhole == ASSUME IInv, CardIsWhole, Look PROVE CardIsWhole'
<1>1. worker \in Workers /\ worker.job.track \in Tracks \cup {None} /\ TypeOK
  BY DEF IInv, TypeOK, Workers, Jobs
<1>2. UNCHANGED <<card, temporary>>
  BY DEF Look
<1>3. CASE worker' = [worker EXCEPT !.pc = "ask"]
  <2>1. worker'.plan = worker.plan
    BY <1>1, <1>3 DEF Workers
  <2> QED BY <1>2, <2>1 DEF CardIsWhole, NoTornCover, NamesWhole
<1>4. \/ Decided("no match", None, <<>>)
      \/ /\ worker.job.track # None
         /\ \E b \in Buffers, plan \in {<<>>, Write("meta", worker.job.track, "cover")} :
               Decided("ready", b, plan)
      \/ worker' = [worker EXCEPT !.pc = "ask"]
  BY DEF Look
<1>5. worker.job.track # None =>
         \A plan \in {<<>>, Write("meta", worker.job.track, "cover")} : plan \in Seq(Ops) /\ Fresh(plan)
  BY <1>1, FreshEmpty, FreshWrite DEF Values
<1> QED BY <1>1, <1>2, <1>3, <1>4, <1>5, FreshEmpty, DecidedWhole

LEMMA AskWhole == ASSUME IInv, CardIsWhole, Ask PROVE CardIsWhole'
<1> DEFINE plans(stored) == IF mounted THEN stored ELSE {<<>>}
           track == worker.job.track
<1>1. worker.job.track \in Tracks /\ TypeOK
  BY DEF Ask, IInv, TypeOK, Workers, Jobs, JobsAreTimely
<1>2. UNCHANGED <<card, temporary>>
  BY DEF Ask
<1>3. \/ Decided("retry", None, <<>>)
      \/ \E status \in {"invalid", "no trust"} : Decided(status, None, <<>>)
      \/ \E plan \in plans(MissStored(track)) : Decided("no match", None, plan)
      \/ \E b \in {x \in Buffers : heap[x] = None} :
            \/ \E plan \in plans(CoverStored(track)) : Decided("ready", b, plan)
            \/ Decided("ready", b, <<>>)
  BY DEF Ask
<1>4. \A plan \in plans(MissStored(track)) \cup plans(CoverStored(track)) : plan \in Seq(Ops) /\ Fresh(plan)
  BY <1>1, FreshEmpty, FreshStored
<1> HIDE DEF plans, track
<1> QED BY <1>1, <1>2, <1>3, <1>4, FreshEmpty, DecidedWhole

LEMMA MountWhole == ASSUME IInv, CardIsWhole, Mount PROVE CardIsWhole'
<1>1. worker'.plan = worker.plan
  BY DEF Mount, IInv, TypeOK, Workers
<1>2. temporary' \in {temporary, None}
  BY DEF Mount
<1>3. NamesWhole(worker.plan, temporary)'
  BY <1>1, <1>2 DEF CardIsWhole, NamesWhole, None
<1>4. \A t \in Tracks : card'[t].jpg \in {card[t].jpg, None} /\ card'[t].meta = card[t].meta
  <2>1. \A covers : \A t \in Tracks :
           Without(covers)[t].jpg \in {card[t].jpg, None} /\ Without(covers)[t].meta = card[t].meta
    BY DEF IInv, TypeOK, Cards, Without
  <2>2. CASE UNCHANGED <<mounted, card, temporary>>
    BY <2>2
  <2>3. CASE \E covers \in SUBSET Unvouched : card' = Without(covers)
    <3>1. PICK covers \in SUBSET Unvouched : card' = Without(covers)
      BY <2>3
    <3> QED BY <2>1, <3>1
  <2> QED BY <2>2, <2>3 DEF Mount
<1>5. NoTornCover'
  BY <1>4 DEF CardIsWhole, NoTornCover, None
<1> QED BY <1>3, <1>5 DEF CardIsWhole

(* One operation less: the temporary file is torn only while no rename of   *)
(* the plan is close.                                                       *)
LEMMA StoreWhole == ASSUME IInv, CardIsWhole, Store PROVE CardIsWhole'
<1> DEFINE plan == worker.plan
           op == Head(plan)
           rest == Tail(plan)
<1>1. worker \in Workers /\ plan \in Seq(Ops) /\ plan # <<>> /\ TypeOK
  BY DEF IInv, TypeOK, Workers, Store
<1>2. /\ op \in Ops /\ op = plan[1] /\ 1 \in 1..Len(plan) /\ rest \in Seq(Ops)
      /\ Len(rest) = Len(plan) - 1 /\ Len(plan) \in Nat
      /\ \A i \in 1..Len(rest) : rest[i] = plan[i + 1] /\ i + 1 \in 1..Len(plan)
  BY <1>1, HeadTailProperties
<1>3. NoTornCover /\ NamesWhole(plan, temporary)
  BY DEF CardIsWhole
<1>4. \/ card' = Applied(op) /\ temporary' = Filled(op) /\ worker' = [worker EXCEPT !.plan = rest]
      \/ UNCHANGED <<card, temporary>> /\ worker' = [worker EXCEPT !.plan = AfterFailure(op, rest)]
  BY DEF Store
<1>5. worker'.plan = rest \/ worker'.plan = AfterFailure(op, rest)
  BY <1>1, <1>4 DEF Workers
<1> HIDE DEF plan, op, rest
<1>6. ASSUME NEW i \in 1..Len(rest)
      PROVE  /\ rest[i].do = "fill" => rest[i].value # "torn"
             /\ rest[i].do = "name" =>
                   /\ i > 1 => rest[i - 1].do = "drop"
                   /\ i > 2 => rest[i - 2].do = "fill"
                   /\ i = 2 => op.do = "fill" /\ op.value # "torn"
                   /\ i = 1 => op.do = "drop" /\ temporary # "torn"
  <2> DEFINE j == i + 1
  <2>1. rest[i] = plan[j] /\ j \in 1..Len(plan) /\ i \in Nat /\ j - 1 = i /\ j > 1
    BY <1>2
  <2>2. /\ plan[j].do = "fill" => plan[j].value # "torn"
        /\ plan[j].do = "name" => /\ plan[j - 1].do = "drop"
                                  /\ j > 2 => plan[j - 2].do = "fill"
                                  /\ j <= 2 => temporary # "torn"
    BY <1>3, <2>1 DEF NamesWhole
  <2>3. i > 1 => /\ i - 1 \in 1..Len(rest) /\ (i - 1) + 1 = j - 1 /\ j > 2
    BY <1>2, <2>1
  <2>4. i > 1 => rest[i - 1] = plan[j - 1] /\ rest[i - 1].do = plan[j - 1].do
    BY <1>2, <2>3
  <2>5. i > 2 => i - 2 \in 1..Len(rest) /\ (i - 2) + 1 = j - 2
    BY <1>2, <2>1
  <2>6. i > 2 => rest[i - 2] = plan[j - 2]
    BY <1>2, <2>5
  <2>7. i = 2 => j - 2 = 1 /\ plan[1].do = plan[j - 2].do
    BY <2>1
  <2>8. plan[1].do = "fill" => plan[1].value # "torn"
    BY <1>2, <1>3 DEF NamesWhole
  <2>9. i = 1 => j - 1 = 1 /\ j <= 2
    BY <2>1
  <2>10. i > 2 => i > 1
    BY <2>1
  <2>11. i = 2 => j > 2
    BY <2>1
  <2> HIDE DEF j
  <2> QED BY <1>2, <2>1, <2>2, <2>3, <2>4, <2>6, <2>7, <2>8, <2>9, <2>10, <2>11
<1>7. ASSUME card' = Applied(op), temporary' = Filled(op), worker'.plan = rest
      PROVE  CardIsWhole'
  <2>1. op.do = "name" => temporary # "torn"
    BY <1>2, <1>3 DEF NamesWhole
  <2>2. card \in Cards /\ op.track \in Tracks /\ op.file \in {"jpg", "meta"}
    BY <1>1, <1>2 DEF TypeOK, Ops
  <2>3. PICK value : value # "torn" /\ Applied(op) \in {card, [card EXCEPT ![op.track][op.file] = value]}
    BY <2>1, AppliedCases DEF None
  <2>4. \A t \in Tracks : LET file == [card EXCEPT ![op.track][op.file] = value][t]
                        IN  "torn" \notin {file.jpg, file.meta}
    BY <1>3, <2>2, <2>3 DEF NoTornCover, Cards
  <2>5. NoTornCover'
    BY <1>3, <1>7, <2>3, <2>4 DEF NoTornCover
  <2>6. op.do = "fill" => Filled(op) = op.value
    BY DEF Filled
  <2>7. op.do = "drop" => Filled(op) = temporary
    BY DEF Filled
  <2>8. NamesWhole(rest, Filled(op))
    <3> SUFFICES ASSUME NEW i \in 1..Len(rest)
                 PROVE  /\ rest[i].do = "fill" => rest[i].value # "torn"
                        /\ rest[i].do = "name" => /\ i > 1 => rest[i - 1].do = "drop"
                                                  /\ i > 2 => rest[i - 2].do = "fill"
                                                  /\ i <= 2 => Filled(op) # "torn"
      BY DEF NamesWhole
    <3>1. i <= 2 => i = 1 \/ i = 2
      OBVIOUS
    <3> QED BY <1>6, <2>6, <2>7, <3>1
  <2> QED BY <1>7, <2>5, <2>8 DEF CardIsWhole
<1>8. ASSUME UNCHANGED <<card, temporary>>, worker'.plan = AfterFailure(op, rest)
      PROVE  CardIsWhole'
  <2>1. NamesWhole(AfterFailure(op, rest), temporary)
    <3>1. CASE op.do = "try"
      <4>1. AfterFailure(op, rest) = rest
        BY <3>1 DEF AfterFailure
      <4>2. \A i \in 1..Len(rest) : i <= 2 => i = 1 \/ i = 2
        OBVIOUS
      <4> QED BY <1>6, <3>1, <4>1, <4>2 DEF NamesWhole
    <3>2. CASE op.do = "fill"
      <4> DEFINE p == <<Op("remove", op.file, op.track, None)>>
      <4>1. AfterFailure(op, rest) = p /\ Len(p) = 1 /\ p[1].do = "remove"
        BY <3>2 DEF AfterFailure, Op
      <4>2. \A i \in 1..1 : i = 1
        OBVIOUS
      <4> HIDE DEF p
      <4> QED BY <4>1, <4>2 DEF NamesWhole
    <3>3. CASE op.do \notin {"try", "fill"}
      <4>1. AfterFailure(op, rest) = <<>>
        BY <3>3 DEF AfterFailure
      <4> QED BY <4>1, FreshEmpty, FreshIsWhole
    <3> QED BY <3>1, <3>2, <3>3
  <2> QED BY <1>3, <1>8, <2>1 DEF CardIsWhole, NoTornCover
<1> QED BY <1>1, <1>4, <1>7, <1>8 DEF Workers

(* Every other step leaves the card and the plan alone, or forgets the plan. *)
LEMMA OtherWhole ==
    ASSUME IInv, CardIsWhole, [Next]_vars, ~Mount, ~Look, ~Ask, ~Store
    PROVE  CardIsWhole'
<1>1. worker \in Workers
  BY DEF IInv, TypeOK
<1>2. CASE Reset
  <2>1. worker'.plan = <<>> /\ card' = card
    BY <1>2 DEF Reset, BlankWorker
  <2>2. NamesWhole(worker.plan, temporary)'
    BY <2>1, FreshEmpty, FreshIsWhole
  <2> QED BY <2>1, <2>2 DEF CardIsWhole, NoTornCover
<1>3. CASE ~Reset
  <2>1. UNCHANGED <<card, temporary>>
    BY <1>3 DEF Next, Work, vars, Play, Refresh, AfterLock, Poll, Pause, Resume, Receive, Retry, Claim,
       Done, Publish
  <2>2. worker'.plan = worker.plan
    <3>1. CASE Receive \/ Retry \/ Claim \/ Done \/ Publish
      BY <1>1, <3>1 DEF Workers, Receive, Retry, Claim, Done, Publish
    <3>2. CASE ~(Receive \/ Retry \/ Claim \/ Done \/ Publish)
      <4>1. worker' = worker
        BY <1>3, <3>2 DEF Next, Work, vars, Play, Refresh, AfterLock, Poll, Pause, Resume
      <4> QED BY <4>1
    <3> QED BY <3>1, <3>2
  <2> QED BY <2>1, <2>2 DEF CardIsWhole, NoTornCover
<1> QED BY <1>2, <1>3

(* A power failure between any two file operations, and a write that was cut
   short, leave no torn file under its own name (write_text(), store_cover()
   and sd_init() of artwork.cpp).                                          *)
THEOREM CoverSafe == Spec => []NoTornCover
<1>1. Init => CardIsWhole
  <2> SUFFICES ASSUME Init PROVE CardIsWhole
    OBVIOUS
  <2>1. worker.plan = <<>> /\ \A t \in Tracks : card[t].jpg = None /\ card[t].meta = None
    BY DEF Init, BlankWorker, Absent
  <2>2. NoTornCover
    BY <2>1 DEF NoTornCover, None
  <2>3. NamesWhole(worker.plan, temporary)
    BY <2>1, FreshEmpty, FreshIsWhole
  <2> QED BY <2>2, <2>3 DEF CardIsWhole
<1>2. IInv /\ CardIsWhole /\ [Next]_vars => CardIsWhole'
  BY MountWhole, LookWhole, AskWhole, StoreWhole, OtherWhole
<1>3. CardIsWhole => NoTornCover
  BY DEF CardIsWhole
<1> QED BY <1>1, <1>2, <1>3, Invariance, PTL DEF Spec
===============================================================================
