------------------------------- MODULE EventLoop -------------------------------
(***************************************************************************)
(* The wayland event loop on kqueue, as                                    *)
(* ports/graphics/wayland/dragonfly/patch-src_event-loop.c makes it.       *)
(*                                                                         *)
(* Linux gives every source a file descriptor of its own; here the timers  *)
(* share one EVFILT_TIMER knote, armed for the earliest of them, and all   *)
(* sources of one signal share one EVFILT_SIGNAL knote, which names one of *)
(* them.  A dispatch takes a batch of events from the kernel, calls the    *)
(* timers that are due and then the sources the events name, and frees     *)
(* last what was removed meanwhile: the callbacks, like the program around *)
(* the loop, add, change and remove any source at any moment, also one     *)
(* whose event is still in the batch.                                      *)
(*                                                                         *)
(* All of it is one thread.  A call of the program or of a callback is one *)
(* step; the clock goes on by itself, and between two readings of it.      *)
(***************************************************************************)
EXTENDS Integers, Sequences, SequencesExt, FiniteSetsExt

CONSTANTS
    Timer,          \* the timer sources
    Watcher,        \* the signal sources
    Number,         \* Number[w]: the signal that w watches
    File,           \* the file descriptor sources
    MaxNow,         \* bound: the clock
    MaxDelay,       \* bound: the delays timers are given
    MaxOp           \* bound: how many calls the program makes

ASSUME NumberAssumption == Number \in [Watcher -> Nat]
ASSUME LoopAssumption ==
    MaxNow \in Nat /\ MaxDelay \in Nat /\ MaxOp \in Nat

Source == Timer \cup Watcher \cup File
None == "none"
Lost == "lost"      \* where the links of a source lead that left its list

ASSUME SourceAssumption ==
    /\ Timer \cap Watcher = {} /\ Timer \cap File = {} /\ Watcher \cap File = {}
    /\ None \notin Source /\ Lost \notin Source

Signal == {Number[w] : w \in Watcher}
Filter == {"read", "write"}
Off == 0

\* What the kernel returns: the filter, its ident, and the source in udata.
Event == ({"signal"} \X Signal \X Watcher) \cup (Filter \X File \X File)

VARIABLES
    now,        \* CLOCK_MONOTONIC, in ticks of the kernel's timer
    state,      \* state[s]: free, live, or removed and not yet freed
    deadline,   \* deadline[t]: t's place in the heap, or Off
    knote,      \* when the EVFILT_TIMER knote fires, or Off
    signals,    \* signal_list
    udata,      \* udata[n]: the source the knote of signal n names, or None
    filters,    \* filters[f]: the knotes of f
    pc,         \* where wl_event_loop_dispatch is
    batch,      \* ev: events not yet dispatched, <<kind, ident, udata>>
    due,        \* the timers taken off the heap to be called
    pos, next,  \* sig and tmp of wl_list_for_each_safe
    number,     \* signal_number
    ops,        \* how many calls the program made
    expected,   \* history: the watchers there when the signal event came up
    heard,      \* history: those called for it
    stuck       \* history: has a set_timer failed, and none worked since?

heap == <<deadline, knote, stuck>>
lists == <<state, signals, udata, filters>>
program == <<now, deadline, knote, stuck, state, signals, udata, filters, ops>>
loop == <<pc, batch, due, pos, next, number, expected, heard>>
vars == <<now, state, deadline, knote, signals, udata, filters, pc, batch, due,
          pos, next, number, ops, expected, heard, stuck>>

TypeOK ==
    /\ now \in 0..MaxNow
    /\ state \in [Source -> {"free", "live", "removed"}]
    /\ deadline \in [Timer -> 0..MaxNow]
    /\ knote \in 0..MaxNow
    /\ signals \in Seq(Watcher) /\ IsInjective(signals)
    /\ ToSet(signals) = {w \in Watcher : state[w] = "live"}
    /\ udata \in [Signal -> Watcher \cup {None}]
    /\ filters \in [File -> SUBSET Filter]
    /\ pc \in {"wait", "timers", "calls", "events", "signal", "crashed"}
    /\ batch \subseteq Event
    /\ due \subseteq Timer
    /\ {pos, next} \subseteq Watcher \cup {None, Lost}
    /\ number \in Signal \cup {Off}
    /\ ops \in 0..MaxOp
    /\ expected \subseteq Watcher /\ heard \subseteq Watcher
    /\ stuck \in BOOLEAN

Init ==
    /\ now = 0
    /\ state = [s \in Source |-> "free"]
    /\ deadline = [t \in Timer |-> Off]
    /\ knote = Off
    /\ signals = <<>>
    /\ udata = [n \in Signal |-> None]
    /\ filters = [f \in File |-> {}]
    /\ pc = "wait"
    /\ batch = {} /\ due = {}
    /\ pos = None /\ next = None /\ number = Off
    /\ ops = 0
    /\ expected = {} /\ heard = {}
    /\ stuck = FALSE

Active(d) == {t \in Timer : d[t] # Off}
Earliest(d) == Min({d[t] : t \in Active(d)})

-----------------------------------------------------------------------------
(* The calls of the program and of the callbacks. *)

\* The clock between two readings.
Passes == now' \in {now, now + 1} \cap 0..MaxNow

\* set_timer fails, and arms nothing, when the deadline is already there.
SetTimer(d) ==
    IF now' < d THEN knote' = d /\ stuck' = FALSE
                ELSE knote' = knote /\ stuck' = TRUE

ClearTimer == knote' = Off /\ stuck' = FALSE

\* wl_event_source_timer_update: heap_sift takes t to the root when it is the
\* earliest; among equals either may be there.
Arm(t, d) ==
    /\ state[t] = "live"
    /\ Passes
    /\ now + d <= MaxNow
    /\ deadline' = [deadline EXCEPT ![t] = now + d]
    /\ \/ now + d = Earliest(deadline') /\ SetTimer(now + d)
       \/ /\ \E u \in Active(deadline') \ {t} : deadline'[u] <= now + d
          /\ UNCHANGED <<knote, stuck>>
    /\ UNCHANGED lists

\* Mutant: the knote is disarmed with the timer it was armed for.
Disarm_Clears(t) ==
    /\ deadline' = [deadline EXCEPT ![t] = Off]
    /\ IF deadline[t] # Off /\ deadline[t] = Earliest(deadline)
         THEN ClearTimer ELSE UNCHANGED <<knote, stuck>>

Disarm(t) ==
    /\ deadline' = [deadline EXCEPT ![t] = Off]
    /\ IF Active(deadline') = {} THEN ClearTimer ELSE UNCHANGED <<knote, stuck>>

Stop(t) == state[t] = "live" /\ Disarm(t) /\ UNCHANGED <<now, lists>>

AddTimer(t) ==
    /\ state[t] = "free"
    /\ state' = [state EXCEPT ![t] = "live"]
    /\ UNCHANGED <<now, heap, signals, udata, filters>>

\* EV_ADD of a knote that is there renames it.
AddWatcher(w) ==
    /\ state[w] = "free"
    /\ state' = [state EXCEPT ![w] = "live"]
    /\ signals' = <<w>> \o signals
    /\ udata' = [udata EXCEPT ![Number[w]] = w]
    /\ UNCHANGED <<now, heap, filters>>

AddFile(f, mask) ==
    /\ state[f] = "free"
    /\ state' = [state EXCEPT ![f] = "live"]
    /\ filters' = [filters EXCEPT ![f] = mask]
    /\ UNCHANGED <<now, heap, signals, udata>>

\* wl_event_source_fd_update adds filters and takes none away.
Update(f, mask) ==
    /\ state[f] = "live"
    /\ filters' = [filters EXCEPT ![f] = @ \cup mask]
    /\ UNCHANGED <<now, heap, state, signals, udata>>

\* Mutant: the source is freed at once.
Removed_Frees(s) == state' = [state EXCEPT ![s] = "free"]

\* On to destroy_list.
Removed(s) == state' = [state EXCEPT ![s] = "removed"]

RemoveTimer(t) ==
    /\ state[t] = "live"
    /\ Disarm(t)
    /\ Removed(t)
    /\ UNCHANGED <<now, signals, udata, filters>>

\* Mutant: the knote stays with the source that is removed.
Survivor_Keeps(w) ==
    IF \E i \in DOMAIN signals' : Number[signals'[i]] = Number[w]
      THEN udata[Number[w]] ELSE None

\* The first other source of the same signal.
Survivor(w) ==
    LET others == {i \in DOMAIN signals' : Number[signals'[i]] = Number[w]}
    IN  IF others = {} THEN None ELSE signals'[Min(others)]

RemoveWatcher(w) ==
    /\ state[w] = "live"
    /\ \E i \in DOMAIN signals : signals[i] = w /\ signals' = RemoveAt(signals, i)
    /\ udata' = [udata EXCEPT ![Number[w]] = Survivor(w)]
    /\ Removed(w)
    /\ UNCHANGED <<now, heap, filters>>

RemoveFile(f) ==
    /\ state[f] = "live"
    /\ filters' = [filters EXCEPT ![f] = {}]
    /\ Removed(f)
    /\ UNCHANGED <<now, heap, signals, udata>>

Op ==
    /\ ops < MaxOp
    /\ ops' = ops + 1
    /\ \/ \E t \in Timer : \/ AddTimer(t) \/ RemoveTimer(t) \/ Stop(t)
                           \/ \E d \in 1..MaxDelay : Arm(t, d)
       \/ \E w \in Watcher : AddWatcher(w) \/ RemoveWatcher(w)
       \/ \E f \in File : \/ RemoveFile(f)
                          \/ \E mask \in SUBSET Filter : AddFile(f, mask) \/ Update(f, mask)

\* A callback makes a call of its own, or none.
Callback == Op \/ UNCHANGED program

-----------------------------------------------------------------------------
(* wl_event_loop_dispatch *)

\* Between two dispatches the program does as it likes.
Program == pc = "wait" /\ Op /\ UNCHANGED loop

Tick ==
    /\ now < MaxNow
    /\ now' = now + 1
    /\ UNCHANGED <<heap, lists, ops, loop>>

\* The kernel's timer may fire a tick early.
TimerReady == knote # Off /\ now + 1 >= knote

Events ==
    {<<"signal", n, udata[n]>> : n \in {m \in Signal : udata[m] # None}}
      \cup {<<e[2], e[1], e[1]>> : e \in {g \in File \X Filter : g[2] \in filters[g[1]]}}

\* kevent returns: any files may be ready, any signal may have come, or the
\* timeout is over.  A one-shot knote is gone when it has fired.
Wait(events, fired) ==
    /\ pc = "wait"
    /\ events \subseteq Events
    /\ fired => TimerReady
    /\ batch' = events
    /\ knote' = IF fired THEN Off ELSE knote
    /\ pc' = IF fired \/ (Active(deadline) # {} /\ Earliest(deadline) <= now)
               THEN "timers" ELSE "events"
    /\ UNCHANGED <<now, deadline, stuck, lists, ops, due, pos, next, number,
                   expected, heard>>

\* Mutant: the timer is not set again.
DispatchTimers_NoRearm ==
    /\ pc = "timers"
    /\ \E root \in {t \in Active(deadline) : deadline[t] = Earliest(deadline)} :
          due' = {root} \cup {t \in Active(deadline) : deadline[t] <= now}
    /\ deadline' = [t \in Timer |-> IF t \in due' THEN Off ELSE deadline[t]]
    /\ pc' = "calls"
    /\ UNCHANGED <<now, knote, stuck, lists, ops, batch, pos, next, number,
                   expected, heard>>

\* wl_timer_heap_dispatch: the root in any case, and all that are due.  When the
\* knote cannot be set for the next one, the dispatch ends there: what it took
\* off the heap is not called, what was in the batch is not looked at.
DispatchTimers ==
    /\ pc = "timers"
    /\ Passes
    /\ \E root \in {t \in Active(deadline) : deadline[t] = Earliest(deadline)} :
          LET ready == {root} \cup {t \in Active(deadline) : deadline[t] <= now}
              rest == [t \in Timer |-> IF t \in ready THEN Off ELSE deadline[t]]
          IN  /\ deadline' = rest
              /\ IF Active(rest) = {} THEN ClearTimer ELSE SetTimer(Earliest(rest))
              /\ IF stuck'
                   THEN pc' = "wait" /\ batch' = {} /\ UNCHANGED due
                   ELSE pc' = "calls" /\ due' = ready /\ UNCHANGED batch
    /\ UNCHANGED <<lists, ops, pos, next, number, expected, heard>>

\* A timer that was removed meanwhile is not called.
CallTimer(t) ==
    /\ pc = "calls"
    /\ t \in due
    /\ due' = due \ {t}
    /\ IF state[t] = "live" THEN Callback ELSE UNCHANGED program
    /\ UNCHANGED <<pc, batch, pos, next, number, expected, heard>>

TimersCalled ==
    /\ pc = "calls"
    /\ due = {}
    /\ pc' = "events"
    /\ UNCHANGED <<program, batch, due, pos, next, number, expected, heard>>

FileEvent(e) ==
    /\ pc = "events"
    /\ e \in batch /\ e[1] \in Filter
    /\ batch' = batch \ {e}
    /\ IF state[e[3]] = "live" THEN Callback ELSE UNCHANGED program
    /\ UNCHANGED <<pc, due, pos, next, number, expected, heard>>

After(list, w) ==
    LET i == CHOOSE j \in DOMAIN list : list[j] = w
    IN  IF i = Len(list) THEN None ELSE list[i + 1]

Watching(n) == {w \in Watcher : state[w] = "live" /\ Number[w] = n}

\* Nothing is called when the source that the event names is removed.
SignalEvent(e) ==
    /\ pc = "events"
    /\ e \in batch /\ e[1] = "signal"
    /\ batch' = batch \ {e}
    /\ IF state[e[3]] # "live"
         THEN UNCHANGED <<pc, pos, next, number, expected, heard>>
         ELSE /\ pc' = "signal"
              /\ pos' = Head(signals)
              /\ next' = After(signals, Head(signals))
              /\ number' = e[2]
              /\ expected' = Watching(e[2])
              /\ heard' = {}
    /\ UNCHANGED <<program, due>>

\* On to tmp, whose successor is read after the callback: when the callback
\* removed tmp, wl_list_remove has cleared its links, and the step after that
\* reads the list through them.
Advance ==
    /\ pos' = next
    /\ next' = IF next \notin Watcher THEN next
               ELSE IF state'[next] = "live" THEN After(signals', next) ELSE Lost
    /\ pc' = IF next = Lost THEN "crashed" ELSE pc

\* Mutant: only the source that the event names is called.
SignalCall_Named ==
    /\ pc = "signal"
    /\ pos # None
    /\ IF udata[number] = pos /\ state[pos] = "live"
         THEN Callback /\ heard' = heard \cup {pos}
         ELSE UNCHANGED <<program, heard>>
    /\ Advance
    /\ UNCHANGED <<batch, due, number, expected>>

\* A source of another signal and one that was removed are passed over.
SignalCall ==
    /\ pc = "signal"
    /\ pos # None
    /\ IF Number[pos] = number /\ state[pos] = "live"
         THEN Callback /\ heard' = heard \cup {pos}
         ELSE UNCHANGED <<program, heard>>
    /\ Advance
    /\ UNCHANGED <<batch, due, number, expected>>

SignalDone ==
    /\ pc = "signal"
    /\ pos = None
    /\ pc' = "events"
    /\ number' = Off
    /\ UNCHANGED <<program, batch, due, pos, next, expected, heard>>

\* wl_event_loop_process_destroy_list
Destroy ==
    /\ pc = "events"
    /\ batch = {}
    /\ state' = [s \in Source |-> IF state[s] = "removed" THEN "free" ELSE state[s]]
    /\ pc' = "wait"
    /\ UNCHANGED <<now, heap, signals, udata, filters, ops, batch, due, pos, next,
                   number, expected, heard>>

Dispatch ==
    \/ DispatchTimers \/ TimersCalled \/ SignalCall \/ SignalDone \/ Destroy
    \/ \E t \in Timer : CallTimer(t)
    \/ \E e \in batch : FileEvent(e) \/ SignalEvent(e)

Next ==
    \/ Program \/ Tick \/ Dispatch
    \/ \E events \in SUBSET Events, fired \in BOOLEAN : Wait(events, fired)

Spec == Init /\ [][Next]_vars

\* The clock goes on, a dispatch comes to its end, and the program dispatches
\* again with no timeout: kevent returns when the timer fires.
Fairness ==
    /\ WF_vars(Tick)
    /\ WF_vars(Dispatch)
    /\ SF_vars(\E events \in SUBSET Events : Wait(events, TRUE))

FairSpec == Spec /\ Fairness

-----------------------------------------------------------------------------
(* Properties. *)

\* Nothing that the loop still goes by is freed memory: the sources in the batch
\* of events, the timers to be called, and the two ends of the signal loop, also
\* where a callback removed them (destroy_list).
NoUseAfterFree ==
    /\ TypeOK
    /\ \A e \in batch : state[e[3]] # "free"
    /\ \A t \in due : state[t] # "free"
    /\ {pos, next} \cap {w \in Watcher : state[w] = "free"} = {}

\* The knote of a signal is there as long as a source watches it, and names one
\* that does ("repoint its udata at a surviving source").
KnoteNamesLive ==
    \A n \in Signal :
      IF Watching(n) = {} THEN udata[n] = None ELSE udata[n] \in Watching(n)

\* While the loop waits, the one knote will fire in time for the earliest timer,
\* wherever timers are armed, moved, stopped, removed and called in between;
\* unless the last set_timer found that the deadline was already there.
TimerIsArmed ==
    pc = "wait" /\ Active(deadline) # {} /\ ~stuck
      => knote # Off /\ knote <= Earliest(deadline)

\* When a loop over the sources of a signal comes to its end, it has called each
\* source of the signal that was there when it began and still is, wherever the
\* callbacks added and removed others ("Dispatch every source registered for this
\* signal number").  SafeRemoval and DispatchedWhenFired are about the loops that
\* come to no end and those that are not begun.
SignalReachesAll ==
    pc = "signal" /\ pos = None => expected \cap Watching(number) \subseteq heard

\* A timer that is armed is called, stopped or moved in the end, when nobody but
\* the timers wakes the loop; unless set_timer failed, or the loop crashed.
TimersComeDue ==
    \A t \in Timer :
      deadline[t] # Off ~> deadline[t] = Off \/ stuck \/ pc = "crashed"

\* What the comment at the signal loop says: "The _safe variant allows a callback
\* to remove signal sources during iteration."  Violated, so in no .cfg, as are the
\* two that follow: see README.
SafeRemoval == pc # "crashed"

\* What the comment at signal_link says: "the loop tracks every source itself and
\* dispatches them all when the signal fires".  The loop over the sources begins
\* for an event of a signal that has any.
DispatchedWhenFired ==
    [][\A e \in batch \ batch' :
          pc = "events" /\ e[1] = "signal" /\ Watching(e[2]) # {}
            => pc' = "signal"]_vars

\* What the comment in wl_timer_heap_dispatch says: "This function is only entered
\* when the timer armed for the earliest (root) deadline has fired, so the root is
\* due even if `now` reads marginally short."  What is taken to be called was due
\* by now, give or take the tick.
OnlyDueAreCalled ==
    [][\A t \in due' \ due : deadline[t] <= now' + 1]_vars
=============================================================================
