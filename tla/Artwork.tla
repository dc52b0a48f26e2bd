-------------------------------- MODULE Artwork --------------------------------
(***************************************************************************)
(* The panel's artwork worker (artwork.cpp) and the user interface that    *)
(* asks it for covers (main.cpp): two FreeRTOS tasks, a one-slot queue, a  *)
(* result under a spin lock, and a cache of covers on the SD card that a   *)
(* reset may cut off between any two file operations.                      *)
(*   - A step is a critical section, a queue call or a file operation.     *)
(*   - A cover is known by its track (one cache key per track), a buffer   *)
(*     of pixels by its name; what the network answers is any outcome.     *)
(*   - What the file system reports written is on the card when the file   *)
(*     is closed; neither the flush nor the close says more.               *)
(*   - The worker pause is taken by sleep and by a credential export.      *)
(***************************************************************************)
EXTENDS Naturals, FiniteSets, Sequences

CONSTANTS
    Tracks,     \* what plays, one cache key each
    Buffers,    \* allocations of pixels
    Entries,    \* CACHE_ENTRIES
    MaxId       \* bound on the request numbers

ASSUME ArtworkAssumption ==
    /\ Entries \in Nat \ {0} /\ MaxId \in Nat
    /\ "none" \notin Tracks \cup Buffers /\ "no job" \notin Tracks

VARIABLES
    playing,    \* the track the snapshots name, None when no cover is asked for
    ui,         \* the main task: its request, its label and image, its pause
    shared,     \* under result_mux
    queue,      \* the one job queued
    worker,     \* the artwork task
    card,       \* the files of each key
    temporary,  \* what the temporary file opened last holds
    mounted,    \* sd_ready
    heap        \* what each allocated buffer shows

vars == <<playing, ui, shared, queue, worker, card, temporary, mounted, heap>>

None == "none"
Unasked == "no job"     \* no job is known: have_job is false
Absent == [jpg |-> None, meta |-> None]
NoJob == [id |-> 0, track |-> None]
Answer(id, status, pixels) == [id |-> id, status |-> status, pixels |-> pixels]
NoAnswer == Answer(0, None, None)

BlankUi == [request |-> 0, label |-> None, shown |-> None, after |-> None, paused |-> FALSE, idle |-> FALSE]
BlankShared == [id |-> 0, job |-> Unasked, result |-> NoAnswer, suspended |-> FALSE, busy |-> FALSE]
BlankWorker == [pc |-> "wait", job |-> NoJob, retry |-> FALSE, result |-> NoAnswer, plan |-> <<>>]

Init ==
    /\ playing = None /\ ui = BlankUi /\ shared = BlankShared /\ queue = NoJob
    /\ worker = BlankWorker /\ mounted = FALSE /\ heap = [b \in Buffers |-> None]
    /\ card = [t \in Tracks |-> Absent] /\ temporary = None

Current(id) == id = shared.id /\ ~shared.suspended
Free(h, pixels) == [b \in Buffers |-> IF b = pixels THEN None ELSE h[b]]

-------------------------------------------------------------------------------
(* The main task.  What it does after leaving the lock is a step of its own. *)

Play(track) ==
    /\ shared.id + 3 <= MaxId /\ track # playing
    /\ playing' = track
    /\ UNCHANGED <<ui, shared, queue, worker, card, temporary, mounted, heap>>

(* artwork_request() of what plays, asked for again every 250 ms. *)
Known == shared.job = playing

(* Mutation: the new request has the number of the one before it. *)
SameNumber == [id |-> shared.id, track |-> playing]
NewJob == [id |-> shared.id + 1, track |-> playing]

Refresh ==
    /\ ui.after = None
    /\ LET id == IF Known THEN shared.id ELSE NewJob.id
           changed == id # ui.request
           cleared == IF changed THEN Free(heap, ui.shown) ELSE heap
       IN  /\ ui' = [ui EXCEPT !.request = id, !.label = IF changed THEN "finding" ELSE @,
                               !.shown = IF changed THEN None ELSE @,
                               !.after = IF Known \/ shared.suspended THEN None ELSE "enqueue"]
           /\ shared' = IF Known THEN shared
                        ELSE [shared EXCEPT !.id = id, !.job = playing, !.result = NoAnswer]
           /\ heap' = IF Known THEN cleared ELSE Free(cleared, shared.result.pixels)
    /\ UNCHANGED <<playing, queue, worker, card, temporary, mounted>>

AfterLock ==
    /\ ui.after # None
    /\ queue' = IF ui.after = "reset" THEN NoJob ELSE [id |-> shared.id, track |-> shared.job]
    /\ ui' = [ui EXCEPT !.after = None]
    /\ UNCHANGED <<playing, shared, worker, card, temporary, mounted, heap>>

Poll ==
    /\ ui.after = None /\ shared.result # NoAnswer
    /\ LET r == shared.result
           taken == Current(r.id) /\ r.id = ui.request
           ready == taken /\ r.status = "ready"
       IN  /\ shared' = [shared EXCEPT !.result = NoAnswer]
           /\ ui' = IF taken THEN [ui EXCEPT !.label = r.status, !.shown = IF ready THEN r.pixels ELSE None]
                    ELSE ui
           /\ heap' = IF ready THEN Free(heap, ui.shown)
                      ELSE Free(IF taken THEN Free(heap, ui.shown) ELSE heap, r.pixels)
    /\ UNCHANGED <<playing, queue, worker, card, temporary, mounted>>

(* Mutation: the result that waits is dropped and its pixels are not. *)
PauseLeaks ==
    /\ ui.after = None /\ ~ui.idle /\ (ui.paused \/ shared.id + 3 <= MaxId)
    /\ shared' = [shared EXCEPT !.suspended = TRUE, !.result = NoAnswer]
    /\ heap' = heap
    /\ ui' = [ui EXCEPT !.paused = TRUE, !.idle = ~shared.busy, !.after = "reset"]
    /\ UNCHANGED <<playing, queue, worker, card, temporary, mounted>>

(* artwork_prepare_sleep(), asked until it answers that the worker is idle. *)
Pause ==
    /\ ui.after = None /\ ~ui.idle /\ (ui.paused \/ shared.id + 3 <= MaxId)
    /\ shared' = [shared EXCEPT !.suspended = TRUE, !.result = NoAnswer]
    /\ heap' = Free(heap, shared.result.pixels)
    /\ ui' = [ui EXCEPT !.paused = TRUE, !.idle = ~shared.busy, !.after = "reset"]
    /\ UNCHANGED <<playing, queue, worker, card, temporary, mounted>>

(* Mutation: the job asked for before the pause is taken for known. *)
ResumeKnown ==
    /\ ui.after = None /\ ui.paused
    /\ shared' = [shared EXCEPT !.suspended = FALSE, !.id = @ + 1]
    /\ ui' = [ui EXCEPT !.paused = FALSE, !.idle = FALSE]
    /\ UNCHANGED <<playing, queue, worker, card, temporary, mounted, heap>>
Resume ==
    /\ ui.after = None /\ ui.paused
    /\ shared' = [shared EXCEPT !.suspended = FALSE, !.id = @ + 1, !.job = Unasked]
    /\ ui' = [ui EXCEPT !.paused = FALSE, !.idle = FALSE]
    /\ UNCHANGED <<playing, queue, worker, card, temporary, mounted, heap>>

-------------------------------------------------------------------------------
(* The card.  A file is written under a temporary name, torn until all of   *)
(* it is there, and takes its own name then; FAT renames only to a name     *)
(* that is free.  Only the temporary file opened last is of account: one    *)
(* that was left is cut when it is opened again.                            *)

Op(do, file, track, value) == [do |-> do, file |-> file, track |-> track, value |-> value]
Write(file, track, value) ==
    <<Op("open", file, track, None), Op("fill", file, track, value),
      Op("drop", file, track, None), Op("name", file, track, None)>>

(* What an operation makes of the temporary file and of the card.           *)
Filled(op) ==
    CASE op.do = "open"              -> "torn"
      [] op.do = "fill"              -> op.value
      [] op.do \in {"name", "remove"} -> None
      [] OTHER                       -> temporary
Applied(op) ==
    CASE op.do \in {"drop", "try"} -> [card EXCEPT ![op.track][op.file] = None]
      [] op.do = "name"            -> [card EXCEPT ![op.track][op.file] = temporary]
      [] OTHER                     -> card

(* What is left to do when an operation fails.  Nobody looks at the outcome *)
(* of an eviction or a removal; what a short write left is removed.         *)
(* Mutation: nobody looks whether all of a file was written either.         *)
Unchecked(op, rest) == IF op.do \in {"try", "fill"} THEN rest ELSE <<>>
AfterFailure(op, rest) ==
    CASE op.do = "try"  -> rest
      [] op.do = "fill" -> <<Op("remove", op.file, op.track, None)>>
      [] OTHER          -> <<>>

HasMeta(track) == card[track].meta \in {"cover", "miss"}
Others(track) == {t \in Tracks \ {track} : HasMeta(t)}

Room(track) ==
    IF Cardinality(Others(track)) + 1 > Entries
    THEN {<<Op("try", "jpg", t, None), Op("try", "meta", t, None)>> : t \in Others(track)}
    ELSE {<<>>}

CoverStored(track) == {room \o Write("jpg", track, "whole") \o Write("meta", track, "cover") : room \in Room(track)}
MissStored(track) ==
    {room \o (IF HasMeta(track) THEN <<Op("try", "jpg", track, None)>> ELSE <<>>)
          \o Write("meta", track, "miss") : room \in Room(track)}

(* Mounting removes what a reset left unfinished, as far as it can. *)
Unvouched == {t \in Tracks : card[t].meta # "cover"}
Without(covers) == [t \in Tracks |-> [card[t] EXCEPT !.jpg = IF t \in covers THEN None ELSE @]]

-------------------------------------------------------------------------------
(* The worker task *)

Receive ==
    /\ worker.pc = "wait" /\ queue # NoJob
    /\ worker' = [worker EXCEPT !.pc = "claim", !.job = queue]
    /\ queue' = NoJob
    /\ UNCHANGED <<playing, ui, shared, card, temporary, mounted, heap>>

Retry ==
    /\ worker.pc = "wait" /\ queue = NoJob /\ worker.retry /\ Current(worker.job.id)
    /\ worker' = [worker EXCEPT !.pc = "claim"]
    /\ UNCHANGED <<playing, ui, shared, queue, card, temporary, mounted, heap>>

Claim ==
    /\ worker.pc = "claim"
    /\ IF Current(worker.job.id)
       THEN shared' = [shared EXCEPT !.busy = TRUE] /\ worker' = [worker EXCEPT !.pc = "mount"]
       ELSE shared' = shared /\ worker' = [worker EXCEPT !.pc = "wait", !.retry = FALSE, !.job = NoJob]
    /\ UNCHANGED <<playing, ui, queue, card, temporary, mounted, heap>>

Decided(status, pixels, plan) ==
    /\ worker' = [worker EXCEPT !.pc = "store", !.plan = plan,
                                !.result = Answer(worker.job.id, status, pixels)]
    /\ heap' = IF pixels = None THEN heap ELSE [heap EXCEPT ![pixels] = worker.job.track]

HasCover(track) == card[track].meta = "cover" /\ card[track].jpg = "whole"

(* The card is mounted if it can be, as soon as a job is processed. *)
Mount ==
    /\ worker.pc = "mount"
    /\ worker' = [worker EXCEPT !.pc = "look"]
    /\ \/ UNCHANGED <<mounted, card, temporary>>
       \/ /\ ~mounted /\ mounted' = TRUE
          /\ \E covers \in SUBSET Unvouched : card' = Without(covers)
          /\ temporary' \in {temporary, None}
    /\ UNCHANGED <<playing, ui, shared, queue, heap>>

(* A miss is known until it is too old; a cover that cannot be read, decoded *)
(* or allocated is asked for like one that is not there.                     *)
Look ==
    /\ worker.pc = "look"
    /\ LET track == worker.job.track
       IN  \/ track = None /\ Decided("no match", None, <<>>)
           \/ track # None /\ mounted /\ card[track].meta = "miss" /\ Decided("no match", None, <<>>)
           \/ /\ track # None /\ mounted /\ HasCover(track)
              /\ \E b \in {x \in Buffers : heap[x] = None} :
                    \E plan \in {<<>>, Write("meta", track, "cover")} : Decided("ready", b, plan)
           \/ track # None /\ worker' = [worker EXCEPT !.pc = "ask"] /\ heap' = heap
    /\ UNCHANGED <<playing, ui, shared, queue, card, temporary, mounted>>

Ask ==
    /\ worker.pc = "ask"
    /\ LET track == worker.job.track
           plans(stored) == IF mounted THEN stored ELSE {<<>>}
       IN  \/ Decided("retry", None, <<>>)
           \/ \E status \in {"invalid", "no trust"} : Decided(status, None, <<>>)
           \/ \E plan \in plans(MissStored(track)) : Decided("no match", None, plan)
           \/ \E b \in {x \in Buffers : heap[x] = None} :
                 \/ Current(worker.job.id) /\ \E plan \in plans(CoverStored(track)) : Decided("ready", b, plan)
                 \/ Decided("ready", b, <<>>)
    /\ UNCHANGED <<playing, ui, shared, queue, card, temporary, mounted>>

(* One file operation, done or failed. *)
Store ==
    /\ worker.pc = "store" /\ worker.plan # <<>>
    /\ LET op == Head(worker.plan)
           rest == Tail(worker.plan)
       IN  \/ /\ card' = Applied(op) /\ temporary' = Filled(op)
              /\ worker' = [worker EXCEPT !.plan = rest]
           \/ /\ UNCHANGED <<card, temporary>>
              /\ worker' = [worker EXCEPT !.plan = AfterFailure(op, rest)]
    /\ UNCHANGED <<playing, ui, shared, queue, mounted, heap>>

Done ==
    /\ worker.pc = "store" /\ worker.plan = <<>>
    /\ shared' = [shared EXCEPT !.busy = FALSE]
    /\ worker' = [worker EXCEPT !.pc = "publish", !.retry = (worker.result.status = "retry"),
                                !.job = IF worker.result.status = "retry" THEN @ ELSE NoJob]
    /\ UNCHANGED <<playing, ui, queue, card, temporary, mounted, heap>>

Publish ==
    /\ worker.pc = "publish"
    /\ IF Current(worker.result.id)
       THEN /\ shared' = [shared EXCEPT !.result = worker.result]
            /\ heap' = Free(heap, shared.result.pixels)
       ELSE /\ shared' = shared
            /\ heap' = Free(heap, worker.result.pixels)
    /\ worker' = [worker EXCEPT !.pc = "wait", !.result = NoAnswer]
    /\ UNCHANGED <<playing, ui, queue, card, temporary, mounted>>

Reset ==
    /\ ui' = BlankUi /\ shared' = BlankShared /\ queue' = NoJob /\ worker' = BlankWorker
    /\ mounted' = FALSE /\ heap' = [b \in Buffers |-> None]
    /\ UNCHANGED <<playing, card, temporary>>

Work == Receive \/ Retry \/ Claim \/ Mount \/ Look \/ Ask \/ Store \/ Done \/ Publish

Next ==
    \/ \E track \in Tracks \cup {None} : Play(track)
    \/ Refresh \/ AfterLock \/ Poll \/ Pause \/ Resume
    \/ Work
    \/ Reset

Spec == Init /\ [][Next]_vars

(* Both tasks run; a pause may last and a reset may come at any time. *)
FairSpec == Spec /\ WF_vars(Refresh \/ AfterLock \/ Poll) /\ WF_vars(Work)
-------------------------------------------------------------------------------
(* Properties *)

Statuses == {None, "ready", "no match", "retry", "invalid", "no trust"}
Jobs == [id : Nat, track : Tracks \cup {None}]
Answers == [id : Nat, status : Statuses, pixels : Buffers \cup {None}]
Values == {None, "torn", "whole", "cover", "miss"}
Ops == [do : {"open", "fill", "remove", "drop", "try", "name"}, file : {"jpg", "meta"}, track : Tracks,
        value : Values]

Uis == [request : Nat, label : Statuses \cup {"finding"}, shown : Buffers \cup {None},
        after : {None, "enqueue", "reset"}, paused : BOOLEAN, idle : BOOLEAN]
Shares == [id : Nat, job : Tracks \cup {None, Unasked}, result : Answers, suspended : BOOLEAN, busy : BOOLEAN]
Workers == [pc : {"wait", "claim", "mount", "look", "ask", "store", "publish"}, job : Jobs, retry : BOOLEAN,
            result : Answers, plan : Seq(Ops)]
Cards == [Tracks -> [jpg : Values, meta : Values]]
Heaps == [Buffers -> Tracks \cup {None}]

(* Type invariant. *)
TypeOK ==
    /\ playing \in Tracks \cup {None} /\ ui \in Uis /\ shared \in Shares /\ queue \in Jobs
    /\ worker \in Workers /\ card \in Cards /\ temporary \in Values /\ mounted \in BOOLEAN /\ heap \in Heaps

(* The cover on the screen is the one of the track that was asked for last, *)
(* however late the answers to the requests before it arrive.               *)
ShownIsAsked ==
    ui.shown # None /\ shared.job # Unasked => heap[ui.shown] = shared.job

(* Every buffer of pixels has one owner: the screen, the waiting result or  *)
(* the worker.  None is lost and none released while another holds it.      *)
OwnedOnce ==
    LET owners == <<ui.shown, shared.result.pixels, worker.result.pixels>>
    IN  /\ {b \in Buffers : heap[b] # None} = {owners[i] : i \in 1..3} \ {None}
        /\ \A i, j \in 1..3 : i # j => owners[i] = None \/ owners[i] # owners[j]

(* Once the pause has answered that the worker is idle, it touches neither  *)
(* the card nor the network until it is resumed.                            *)
QuietWhilePaused == ui.idle => worker.pc \notin {"mount", "look", "ask", "store"}

(* Whenever the power fails and whichever write was short, a file that has  *)
(* its own name is whole: what is torn keeps its temporary name.            *)
NoTornCover == \A t \in Tracks : "torn" \notin {card[t].jpg, card[t].meta}

(* A request the user waits for is answered, superseded or paused: a job is *)
(* lost neither in the queue nor by a pause.                                *)
Answered == ui.label = "finding" ~> ui.label # "finding" \/ shared.suspended
===============================================================================
