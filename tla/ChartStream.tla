----------------------------- MODULE ChartStream -----------------------------
(***************************************************************************)
(* One chart stream: canonical events and checkpoints of a coordinator     *)
(* (ui/services/chart_stream_coordinator.py) travel through the bounded    *)
(* queue of a primary consumer to a browser; the consumer's tracker        *)
(* (ui/services/chart_stream_payload_tracker.py) remembers what was sent.  *)
(*                                                                         *)
(* A bar is represented by the generation that wrote it, so a newer        *)
(* revision is a larger number.  The order of a queue is the order of      *)
(* stream_seq.  The live tail of the provider also has provisional         *)
(* previews.                                                               *)
(***************************************************************************)
EXTENDS Naturals, Sequences, FiniteSets, SequencesExt

CONSTANTS Newest,         \* slots are 1..Newest, the last one is live
          TailFrom,       \* first slot of the recovery tail
          LiveFrom,       \* first slot of the live tail a provider reports
          QueueSize,      \* CHART_STREAM_CONSUMER_QUEUE_SIZE
          LogSize,        \* _MAX_CHART_UPDATE_EVENTS_PER_KEY
          MaxGeneration,  \* bound on the canonical generation
          UnknownOutcomes,\* whether commits may end with an unknown outcome
          Unsent          \* not sent, not in the frame

ASSUME ChartStreamAssumption ==
    /\ {Newest, QueueSize, LogSize, MaxGeneration} \subseteq Nat \ {0}
    /\ {TailFrom, LiveFrom} \subseteq 1..Newest
    /\ UnknownOutcomes \in BOOLEAN

Slots == 1..Newest
Preview == 0                       \* content of a provisional bar
Contents == 0..MaxGeneration
ASSUME UnsentIsNoContent == Unsent \notin Contents
Payloads == [Slots -> Contents \cup {Unsent}]
NoBars == [t \in Slots |-> Unsent]

VARIABLES
    bars,       \* canonical bars in storage
    gen,        \* canonical generation of the scope
    log,        \* the event queue of the scope
    cursor,     \* _canonical_generation of the coordinator
    task,       \* the checkpoint task
    followup,   \* the checkpoint key is in _checkpoint_followups
    due,        \* _next_checkpoint_at has passed
    queue,      \* the consumer's queue
    invalid,    \* _invalidated_timestamps of the tracker
    sent,       \* _sent_payloads of the tracker
    shown,      \* what the browser shows
    stamp,      \* the canonical revision of the frame each shown bar came with
    reported,   \* newest revision handed to the coordinator by an event (history)
    outrun      \* slots whose last delivered bar is older than reported (history)

storageVars == <<bars, gen, log>>
checkpointVars == <<task, followup, due>>
consumerVars == <<queue, invalid, sent, shown, stamp>>
historyVars == <<reported, outrun>>
streamVars == <<storageVars, cursor, checkpointVars, consumerVars, historyVars>>

Frames == [kind : {"heartbeat", "status", "bars"}, recovery : BOOLEAN,
           revision : Contents, bars : Payloads]

Idle == [stage |-> "none", required |-> {}, generation |-> 0, bars |-> NoBars]

StreamTypeOK ==
    /\ bars \in [Slots -> Contents]
    /\ gen \in 1..MaxGeneration
    /\ log \in Seq([generation : 1..MaxGeneration, bars : Payloads])
    /\ Len(log) <= LogSize
    /\ cursor \in 1..MaxGeneration
    /\ task \in [stage : {"none", "loading", "loaded", "conflict", "failed"},
                 required : SUBSET Slots, generation : Contents, bars : Payloads]
    /\ followup \in BOOLEAN
    /\ due \in BOOLEAN
    /\ queue \in Seq(Frames)
    /\ Len(queue) <= QueueSize
    /\ invalid \subseteq Slots
    /\ sent \in Payloads
    /\ shown \in [Slots -> Contents]
    /\ stamp \in [Slots -> Contents]
    /\ reported \in [Slots -> Contents]
    /\ outrun \subseteq Slots

\* The browser has loaded all bars over HTTP, which any frame may replace, and
\* subscribes from its newest bar; add_consumer forces the first checkpoint.
StreamInit ==
    /\ bars = [t \in Slots |-> 1] /\ gen = 1
    /\ log = <<>> /\ cursor = 1
    /\ task = [Idle EXCEPT !.stage = "loading"]
    /\ followup = FALSE /\ due = FALSE
    /\ queue = <<>>
    /\ invalid = {}
    /\ sent = NoBars
    /\ shown = [t \in Slots |-> 1]
    /\ stamp = [t \in Slots |-> 0]
    /\ reported = [t \in Slots |-> 1]
    /\ outrun = {}

-----------------------------------------------------------------------------
(* Canonical writers *)

\* The queue keeps the newest events.
Record(content) ==
    LET all == Append(log, [generation |-> gen + 1, bars |-> content])
    IN  log' = IF Len(all) > LogSize THEN Tail(all) ELSE all

\* A commit changes the bars S and publishes them with the next generation.
Commit(S) ==
    /\ gen < MaxGeneration
    /\ gen' = gen + 1
    /\ bars' = [t \in Slots |-> IF t \in S THEN gen + 1 ELSE bars[t]]
    /\ Record([t \in Slots |-> IF t \in S THEN gen + 1 ELSE Unsent])
    /\ UNCHANGED <<cursor, checkpointVars, consumerVars, historyVars>>

\* A commit whose outcome nobody knows: the bars S have changed, the event names
\* none (invalidate_chart_bars_write).
UnknownCommit(S) ==
    /\ UnknownOutcomes
    /\ gen < MaxGeneration
    /\ gen' = gen + 1
    /\ bars' = [t \in Slots |-> IF t \in S THEN gen + 1 ELSE bars[t]]
    /\ Record(NoBars)
    /\ UNCHANGED <<cursor, checkpointVars, consumerVars, historyVars>>

-----------------------------------------------------------------------------
(* The tracker *)

\* last_sent_ts: the browser's newest bar is the live slot, and frames only
\* move it forward.
LastSent == Newest

\* payload_is_new_or_changed for content c of slot t; a preview is compared after
\* it was resolved, and two previews always differ.
IsNewOrChanged(iv, t, c) ==
    \/ t \in iv
    \/ sent[t] /= Unsent /\ (IF c = Preview THEN sent[t] = Preview ELSE sent[t] /= c)
    \/ sent[t] = Unsent /\ t >= LastSent

\* _replace_bar_payload: a confirmed bar wins over a preview.
Resolve(old, new) == IF new = Preview /\ old /= Unsent THEN old ELSE new

-----------------------------------------------------------------------------
(* The consumer's queue *)

FramePriority(f) ==
    CASE f.kind = "heartbeat" -> 0
      [] f.kind = "status" -> 5
      [] f.kind = "bars" ->
           LET content == {f.bars[t] : t \in Slots} \ {Unsent}
           IN  IF f.revision > 0 /\ content /= {Preview} THEN 4
               ELSE IF f.recovery THEN 2 ELSE 3

\* compact_chart_consumer_queue: the oldest frame of the lowest priority goes.
Compact(q) ==
    IF Len(q) <= QueueSize THEN q
    ELSE LET first == CHOOSE i \in DOMAIN q :
                        /\ \A j \in DOMAIN q : FramePriority(q[i]) <= FramePriority(q[j])
                        /\ \A j \in 1..(i - 1) : FramePriority(q[j]) > FramePriority(q[i])
         IN  RemoveAt(q, first)

Publish(q, f) == Compact(Append(q, f))

BarsFrame(content, recovery, revision) ==
    [kind |-> "bars", recovery |-> recovery, revision |-> revision, bars |-> content]

\* The accepted part of a batch, given the invalidated slots.
Accepted(iv, content) ==
    [t \in Slots |-> IF content[t] /= Unsent /\ IsNewOrChanged(iv, t, content[t])
                     THEN Resolve(sent[t], content[t]) ELSE Unsent]

\* _publish_bar_payloads: an empty batch is sent only as a recovery.
PublishBars(q, iv, content, recovery, revision) ==
    IF Accepted(iv, content) = NoBars /\ ~recovery THEN q
    ELSE Publish(q, BarsFrame(Accepted(iv, content), recovery, revision))

-----------------------------------------------------------------------------
(* Checkpoints *)

\* Mutant of StartCheckpoint: only the tail is asked for.
MutantStartCheckpoint(iv) ==
    task' = [Idle EXCEPT !.stage = "loading"]

\* A checkpoint task starts with the timestamps that are invalidated now.
StartCheckpoint(iv) ==
    task' = [Idle EXCEPT !.stage = "loading", !.required = iv]

\* _schedule_checkpoint with force, after the invalidations iv.
ForceCheckpoint(iv) ==
    IF task.stage /= "none"
    THEN followup' = TRUE /\ UNCHANGED <<task, due>>
    ELSE StartCheckpoint(iv) /\ due' = FALSE /\ UNCHANGED followup

\* The loop of run() schedules the checkpoint whose time has come.
ScheduleDue ==
    /\ due
    /\ task.stage = "none"
    /\ StartCheckpoint(invalid)
    /\ due' = FALSE
    /\ UNCHANGED <<storageVars, cursor, followup, consumerVars, historyVars>>

\* The maintenance cadence of 30 seconds.
CadencePasses ==
    /\ ~due
    /\ task.stage = "none"
    /\ due' = TRUE
    /\ UNCHANGED <<storageVars, cursor, task, followup, consumerVars, historyVars>>

\* The load reads one generation: the tail and the required slots.
Load ==
    /\ task.stage = "loading"
    /\ task' = [task EXCEPT !.stage = "loaded",
                            !.generation = gen,
                            !.bars = [t \in Slots |->
                                        IF t >= TailFrom \/ t \in task.required
                                        THEN bars[t] ELSE Unsent]]
    /\ UNCHANGED <<storageVars, cursor, followup, due, consumerVars, historyVars>>

\* The load meets a writer that does not settle, or storage fails.
LoadFails ==
    /\ task.stage = "loading"
    /\ \E how \in {"conflict", "failed"} : task' = [task EXCEPT !.stage = how]
    /\ UNCHANGED <<storageVars, cursor, followup, due, consumerVars, historyVars>>

Current == task.stage = "loaded" /\ task.generation = gen

\* The followup of a checkpoint that has been taken off the table.
Follow ==
    IF followup THEN StartCheckpoint(invalid) /\ due' = FALSE
                ELSE task' = Idle /\ UNCHANGED due

\* Mutant of FlushCurrent: a recovery is remembered when it is queued.
MutantFlushCurrent ==
    /\ Current
    /\ queue' = PublishBars(queue, invalid, task.bars, TRUE, task.generation)
    /\ sent' = [t \in Slots |-> IF task.bars[t] = Unsent THEN sent[t] ELSE task.bars[t]]
    /\ Follow
    /\ followup' = FALSE
    /\ UNCHANGED <<storageVars, cursor, invalid, shown, stamp, historyVars>>

\* _flush_checkpoints: a current checkpoint is published.
FlushCurrent ==
    /\ Current
    /\ queue' = PublishBars(queue, invalid, task.bars, TRUE, task.generation)
    /\ Follow
    /\ followup' = FALSE
    /\ UNCHANGED <<storageVars, cursor, invalid, sent, shown, stamp, historyVars>>

\* A checkpoint that a commit overtook waits for the cadence; its followup is
\* dropped.
FlushStale ==
    /\ task.stage = "conflict" \/ (task.stage = "loaded" /\ ~Current)
    /\ task' = Idle
    /\ due' = FALSE
    /\ followup' = FALSE
    /\ UNCHANGED <<storageVars, cursor, consumerVars, historyVars>>

\* A failed checkpoint is reported to the browser.
FlushFailed ==
    /\ task.stage = "failed"
    /\ queue' = Publish(queue, [kind |-> "status", recovery |-> FALSE,
                                revision |-> 0, bars |-> NoBars])
    /\ Follow
    /\ followup' = FALSE
    /\ UNCHANGED <<storageVars, cursor, invalid, sent, shown, stamp, historyVars>>

-----------------------------------------------------------------------------
(* Events, previews and heartbeats *)

\* The positions of the events the coordinator has not handled.
NewEvents == {i \in DOMAIN log : log[i].generation > cursor}

Named(e) == {t \in Slots : e.bars[t] /= Unsent}

\* The slots of an event are invalidated in the tracker.
Invalidated(iv, e) == iv \cup Named(e)

\* One event: its slots are invalidated and its bars published.
Handled(acc, e) ==
    LET iv == Invalidated(acc.invalid, e)
    IN  IF e.generation <= cursor THEN acc
        ELSE [invalid |-> iv,
              queue |-> IF Named(e) = {} THEN acc.queue
                        ELSE PublishBars(acc.queue, iv, e.bars, FALSE, e.generation),
              \* the first forced checkpoint starts with what is known then
              first |-> IF acc.first = Unsent THEN iv ELSE acc.first]

AllHandled ==
    FoldLeft(Handled, [invalid |-> invalid, queue |-> queue, first |-> Unsent], log)

\* What the newest event that names slot t says of it.
Latest(t) ==
    LET seen == {i \in NewEvents : t \in Named(log[i])}
    IN  IF seen = {} THEN reported[t]
        ELSE log[CHOOSE i \in seen : \A j \in seen : j <= i].bars[t]

\* _handle_canonical_events: the bars of every event are invalidated and
\* published, and a checkpoint is forced, also when events are missing or name
\* no bars.
HandleEvents ==
    /\ gen > cursor
    /\ cursor' = gen
    /\ invalid' = AllHandled.invalid
    /\ queue' = AllHandled.queue
    /\ LET overflow == \A i \in NewEvents : log[i].generation > cursor + 1
           forced == Cardinality(NewEvents) + (IF overflow THEN 1 ELSE 0)
           known == IF overflow THEN invalid ELSE AllHandled.first
       IN  IF task.stage = "none" /\ forced > 1
           THEN StartCheckpoint(known) /\ due' = FALSE /\ followup' = TRUE
           ELSE ForceCheckpoint(known)
    /\ reported' = [t \in Slots |-> Latest(t)]
    /\ outrun' = {t \in outrun : \A i \in NewEvents : t \notin Named(log[i])}
    /\ UNCHANGED <<storageVars, sent, shown, stamp>>

\* The provider's report of its live tail.
LiveTail == [t \in Slots |-> IF t >= LiveFrom THEN Preview ELSE Unsent]

\* _handle_provider_bars: previews of the whole live tail; a slot that is
\* invalidated goes out with the bar that was sent before, under the current
\* canonical revision.
ProviderPreview ==
    /\ queue' = PublishBars(queue, invalid, LiveTail, FALSE, cursor)
    /\ UNCHANGED <<storageVars, cursor, checkpointVars, invalid, sent, shown, stamp, historyVars>>

Heartbeat ==
    /\ queue' = Publish(queue, [kind |-> "heartbeat", recovery |-> FALSE,
                                revision |-> 0, bars |-> NoBars])
    /\ UNCHANGED <<storageVars, cursor, checkpointVars, invalid, sent, shown, stamp, historyVars>>

\* resolveStreamBar: a preview never replaces a confirmed bar, and a confirmed
\* bar is replaced by that of any frame of no older canonical revision.  Frames
\* of one socket come in the order of stream_seq.
Takes(f, t) == f.bars[t] \notin {Unsent, Preview} /\ f.revision >= stamp[t]

\* The browser merges a frame.
Applied(f) ==
    /\ shown' = [t \in Slots |-> IF Takes(f, t) THEN f.bars[t] ELSE shown[t]]
    /\ stamp' = [t \in Slots |-> IF Takes(f, t) THEN f.revision ELSE stamp[t]]

\* The tracker remembers a frame.
Remembered(content) ==
    sent' = [t \in Slots |-> IF content[t] = Unsent THEN sent[t]
                             ELSE Resolve(sent[t], content[t])]

\* Whether the newest delivery of a slot was behind the events.
Outran(content) ==
    outrun' = {t \in Slots : IF content[t] = Unsent THEN t \in outrun
                             ELSE content[t] < reported[t]}

\* Mutant of Send: an acknowledgement settles every invalidation.
MutantSend ==
    /\ queue /= <<>>
    /\ LET frame == Head(queue)
       IN  Applied(frame) /\ Remembered(frame.bars) /\ Outran(frame.bars)
    /\ invalid' = {}
    /\ queue' = Tail(queue)
    /\ UNCHANGED <<storageVars, cursor, checkpointVars, reported>>

\* run_chart_stream: a frame is sent and only then remembered.
Send ==
    /\ queue /= <<>>
    /\ LET frame == Head(queue)
       IN  /\ Applied(frame) /\ Remembered(frame.bars) /\ Outran(frame.bars)
           /\ invalid' = {t \in invalid : frame.bars[t] = Unsent}
    /\ queue' = Tail(queue)
    /\ UNCHANGED <<storageVars, cursor, checkpointVars, reported>>

CoordinatorStep ==
    \/ ScheduleDue \/ CadencePasses \/ FlushCurrent \/ FlushStale \/ FlushFailed
    \/ HandleEvents

StreamNext ==
    \/ \E S \in SUBSET Slots \ {{}} : Commit(S) \/ UnknownCommit(S)
    \/ CoordinatorStep
    \/ Load \/ LoadFails
    \/ ProviderPreview \/ Heartbeat
    \/ Send

StreamSpec == StreamInit /\ [][StreamNext]_streamVars

\* The coordinator's loop and the socket go on and the cadence passes.  Storage
\* errors and unsettled writers are transient, and a socket is slow only for a
\* while: a frame with bars that is at the head of the queue again and again is
\* sent.
FairStreamSpec ==
    /\ StreamSpec
    /\ WF_streamVars(ScheduleDue) /\ WF_streamVars(CadencePasses)
    /\ WF_streamVars(FlushCurrent) /\ WF_streamVars(FlushStale) /\ WF_streamVars(FlushFailed)
    /\ WF_streamVars(HandleEvents)
    /\ WF_streamVars(Send)
    /\ SF_streamVars(Send /\ Head(queue).bars /= NoBars)
    /\ WF_streamVars(Load)
    /\ <>[][~LoadFails]_streamVars

-----------------------------------------------------------------------------
(* Properties *)

\* A revision that an event reported and the browser does not show is not
\* forgotten: its slot stays invalidated until a frame with it has been sent, however
\* often frames are dropped from the queue, and although a later frame may take the
\* browser back.  The one exception is a slot that was last delivered with a bar
\* older than what had been reported by then: an older frame settled the newer
\* invalidation, or a provider frame repeated the bar sent before under the current
\* canonical revision (neither the tracker nor the browser compares the bars).
NothingForgotten ==
    \A t \in Slots : shown[t] < reported[t] => t \in invalid \/ t \in outrun

\* The browser never shows a bar older than the tracker takes for sent: a frame that
\* takes the browser back takes the tracker back as well, and a frame the browser
\* drops as older is no news over what it shows.
SentWasShown ==
    \A t \in Slots : sent[t] /= Unsent => sent[t] <= shown[t]

\* The browser catches up with all reported revisions again and again, although
\* frames are dropped from the queue, checkpoints fail or are overtaken, and their
\* followups are dropped; the exception is the one of NothingForgotten.
ReportedIsShown ==
    []<>(\A t \in Slots : shown[t] >= reported[t] \/ t \in outrun)
=============================================================================
