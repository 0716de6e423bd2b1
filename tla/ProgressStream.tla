--------------------------- MODULE ProgressStream ---------------------------
(***************************************************************************)
(* The progress stream of /api/generate/files (app/server.py): the          *)
(* generator runs in a worker thread and puts its events on an asyncio      *)
(* queue, the event loop sends them to the client.                          *)
(*                                                                         *)
(* Queue.put_nowait called from another thread schedules the waiting reader *)
(* on the loop but does not wake it: a loop that sleeps in its selector     *)
(* runs the reader only once something else wakes it.  The end of the       *)
(* thread does (to_thread hands its result over thread-safely).             *)
(***************************************************************************)
EXTENDS Naturals, Sequences, SequencesExt

CONSTANTS Events,       \* how many progress events a generation may emit
          Wakes,        \* bound: times another request or timer wakes the loop
          None

ProgressEvent(n) == [kind |-> "progress", n |-> n]

(* None, the end marker, is no event. *)
StreamAssumption ==
  /\ Events \in Nat /\ Wakes \in Nat
  /\ \A n \in 1..Events : ProgressEvent(n) # None
  /\ \A how \in {"manifest", "error"} : [kind |-> how, n |-> 0] # None

VARIABLES thread,       \* "runs", "returned" or "raised"
          emitted,      \* progress events emitted so far
          queue,
          worker,       \* the coroutine awaiting the thread: "awaits", "ended"
          handed,       \* the thread's result has been handed to the loop
          reader,       \* "checks", "found", "empty", "waits", "ended", "gone"
          scheduled,    \* the reader's resumption is on the loop's ready list
          loop,         \* "runs" or "sleeps" (in its selector)
          sent,         \* what the client was sent, in order
          wakes

vars == <<thread, emitted, queue, worker, handed, reader, scheduled, loop, sent, wakes>>

Init ==
  /\ thread = "runs" /\ emitted = 0 /\ queue = <<>>
  /\ worker = "awaits" /\ handed = FALSE
  /\ reader = "checks" /\ scheduled = FALSE /\ loop = "runs"
  /\ sent = <<>> /\ wakes = 0

FinalEvent == [kind |-> IF thread = "returned" THEN "manifest" ELSE "error", n |-> 0]

(* Mutation: the newest event is put in front. *)
PutOnFront(items) ==
  /\ queue' = items \o queue
  /\ scheduled' = (scheduled \/ reader = "waits")

(* put_nowait: append, and schedule the getter that waits *)
PutOn(items) ==
  /\ queue' = queue \o items
  /\ scheduled' = (scheduled \/ reader = "waits")

(* on_progress, in the worker thread: no wake of the loop *)
EmitProgress ==
  /\ thread = "runs" /\ emitted < Events
  /\ emitted' = emitted + 1
  /\ PutOn(<<ProgressEvent(emitted')>>)
  /\ UNCHANGED <<thread, worker, handed, reader, loop, sent, wakes>>

(* Mutation: the thread's end is as silent as its events. *)
EndThreadSilently ==
  /\ thread = "runs"
  /\ thread' \in {"returned", "raised"}
  /\ handed' = TRUE
  /\ UNCHANGED <<emitted, queue, worker, reader, scheduled, loop, sent, wakes>>

(* generate_project returns or raises: call_soon_threadsafe wakes the loop *)
EndThread ==
  /\ thread = "runs"
  /\ thread' \in {"returned", "raised"}
  /\ handed' = TRUE /\ loop' = "runs"
  /\ UNCHANGED <<emitted, queue, worker, reader, scheduled, sent, wakes>>

(* Between the check and the wait, or the check and the taking, only the thread can step in: *)
(* the loop runs no other coroutine there.                                                   *)
Taking == reader \in {"empty", "found"}

(* worker(): the final event, then the end marker *)
ResumeWorker ==
  /\ loop = "runs" /\ worker = "awaits" /\ handed /\ ~Taking
  /\ worker' = "ended"
  /\ PutOn(<<FinalEvent, None>>)
  /\ UNCHANGED <<thread, emitted, handed, reader, loop, sent, wakes>>

(* Queue.get of event_stream: look whether it is empty, ... *)
CheckQueue ==
  /\ loop = "runs" /\ reader = "checks"
  /\ reader' = IF queue = <<>> THEN "empty" ELSE "found"
  /\ UNCHANGED <<thread, emitted, queue, worker, handed, scheduled, loop, sent, wakes>>

(* ... wait for a getter to be resolved (what was put in between is not noticed), ... *)
WaitForItem ==
  /\ loop = "runs" /\ reader = "empty"
  /\ reader' = "waits"
  /\ UNCHANGED <<thread, emitted, queue, worker, handed, scheduled, loop, sent, wakes>>

ResumeReader ==
  /\ loop = "runs" /\ reader = "waits" /\ scheduled
  /\ scheduled' = FALSE /\ reader' = "checks"
  /\ UNCHANGED <<thread, emitted, queue, worker, handed, loop, sent, wakes>>

(* ... or take the item: sent to the client, or the end *)
TakeItem ==
  /\ loop = "runs" /\ reader = "found"
  /\ queue' = Tail(queue)
  /\ IF Head(queue) = None
     THEN reader' = "ended" /\ UNCHANGED sent
     ELSE reader' = "checks" /\ sent' = Append(sent, Head(queue))
  /\ UNCHANGED <<thread, emitted, worker, handed, scheduled, loop, wakes>>

(* nothing on the ready list: the loop sleeps *)
SelectorSleeps ==
  /\ loop = "runs"
  /\ ~(worker = "awaits" /\ handed)
  /\ reader \in {"ended", "gone"} \/ (reader = "waits" /\ ~scheduled)
  /\ loop' = "sleeps"
  /\ UNCHANGED <<thread, emitted, queue, worker, handed, reader, scheduled, sent, wakes>>

(* external: another request, or a timer *)
OtherWake ==
  /\ loop = "sleeps" /\ wakes < Wakes
  /\ loop' = "runs" /\ wakes' = wakes + 1
  /\ UNCHANGED <<thread, emitted, queue, worker, handed, reader, scheduled, sent>>

(* external: the client closes the connection; the generation goes on without it *)
Disconnect ==
  /\ loop = "runs" /\ reader \notin {"ended", "gone"} /\ ~Taking
  /\ reader' = "gone" /\ scheduled' = FALSE
  /\ UNCHANGED <<thread, emitted, queue, worker, handed, loop, sent, wakes>>

LoopStep ==
  ResumeWorker \/ CheckQueue \/ WaitForItem \/ ResumeReader \/ TakeItem \/ SelectorSleeps

Next == EmitProgress \/ EndThread \/ LoopStep \/ OtherWake \/ Disconnect

(* The loop runs what is ready.  A thread may take as long as a model takes to answer, *)
(* and need never end: it is fair only in EndingSpec.                                  *)
Spec == Init /\ [][Next]_vars /\ WF_vars(LoopStep)
EndingSpec == Spec /\ WF_vars(EndThread)

-----------------------------------------------------------------------------
Progress == [i \in 1..emitted |-> ProgressEvent(i)]
Final == <<FinalEvent>>

(* The client sees the events in the order they happened, none twice and none missing, and    *)
(* the final event after all of them.                                                         *)
SentInOrder ==
  /\ IsPrefix(sent, IF worker = "ended" THEN Progress \o Final ELSE Progress)
  /\ reader = "ended" => sent = Progress \o Final

(* If the generation ends, a client that stays is sent everything and the stream is closed:   *)
(* no event is lost in the window between the reader's check and its wait.                    *)
StreamsEnd == <>(reader \in {"ended", "gone"})

(* An event that was emitted reaches a client that stays, while the generation still runs     *)
(* (server.py:239, live progress).  Fails: nothing wakes the loop for it.                     *)
ProgressIsLive ==
  \A n \in 1..Events : emitted >= n ~> Len(sent) >= n \/ reader = "gone"
=============================================================================
