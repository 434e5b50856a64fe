----------------------------- MODULE EventThread -----------------------------
(***************************************************************************)
(* Event threads: Thread and MessageQueue (lib_bsp/eventservice/event) with *)
(* the select loop of NetworkService they sleep in.  Handlers run on a      *)
(* thread's stack; a handler may post to a thread, post with a delay, clear  *)
(* a thread's queues of some messages or send, which blocks until the other  *)
(* thread has run the handler and may meanwhile run handlers sent to the     *)
(* blocked thread.  A socket event runs a handler inside Wait.               *)
(*                                                                          *)
(* A frame of a stack is an activation of Get, ReceiveSends, a handler,     *)
(* Post, or Send, with the place it has reached.  crit_ is never held       *)
(* between two steps.  Time is the 32-bit millisecond clock modulo TimeMod. *)
(***************************************************************************)
EXTENDS Integers, Sequences, FiniteSets, SequencesExt

CONSTANTS Thread,     \* event threads
          MaxMsgs,    \* bound: messages posted or sent
          MaxIo,      \* bound: socket events
          TimeMod,    \* values of the millisecond clock, 2^32
          StartTime,  \* the clock at the beginning
          MaxTicks,   \* bound: ticks of the clock
          Delays,     \* delays handlers use
          Ops,        \* what handlers do: "post", "delay", "send", "clear"
          Quits       \* threads that may be told to stop

ASSUME MsgBounds == MaxMsgs \in Nat /\ MaxIo \in Nat /\ MaxTicks \in Nat
ASSUME TimeAssumption == TimeMod \in Nat \ {0} /\ StartTime \in 0..(TimeMod - 1)
ASSUME DelaysAssumption == Delays \subseteq 0..((TimeMod - 1) \div 2)
ASSUME OpsAssumption == Ops \subseteq {"post", "delay", "send", "clear"} /\ Quits \subseteq Thread

Msgs == 1..MaxMsgs
NoMsg == 0
Never == -1

VARIABLES
  msgq_,       \* thread -> posted messages
  dmsgq_,      \* thread -> delayed messages, soonest first
  sendlist_,   \* thread -> sent messages
  has_sends_, fStop_,
  signaled_,   \* thread -> signal_wakeup_ of its socket server is set
  fWait_,      \* thread -> Wait is to go on
  msCurrent,   \* thread -> the clock as Get last read it
  wakeAt,      \* thread -> ticks at which its select times out
  ticks,       \* clock ticks so far
  stack,       \* thread -> frames, the running one last; empty when it has exited
  sender,      \* message -> the thread that posted or sent it, as a set
  ready,       \* message -> the sender's flag on its stack
  refused,     \* messages refused because the thread was stopping
  cleared,     \* messages taken out of their queue by Clear
  handled,     \* message -> times its handler was started
  returned,    \* sends that returned
  nmsgs, ios

queueVars == <<msgq_, dmsgq_>>
sendVars == <<sendlist_, has_sends_>>
waitVars == <<fWait_, msCurrent, wakeAt>>
msgVars == <<sender, ready, refused, handled, returned, cleared, nmsgs>>
vars == <<queueVars, sendVars, fStop_, signaled_, waitVars, ticks, stack, msgVars, ios>>

---------------------------------------------------------------------------
(* The clock and the stacks.                                               *)

Time == (StartTime + ticks) % TimeMod

TimeIsLater(earlier, later) ==
  LET diff == (later - earlier) % TimeMod IN diff > 0 /\ 2 * diff < TimeMod

Frame == [op : {"get", "receive", "handle", "post", "delay", "send"},
          at : {"enter", "serve", "pull", "stop", "wait", "select", "take", "done", "run",
                "check", "push", "wake", "loop"},
          msg : Msgs \cup {NoMsg}, to : Thread, trigger : 0..(TimeMod - 1),
          waited : BOOLEAN]

NewFrame(op, at, m, u) ==
  [op |-> op, at |-> at, msg |-> m, to |-> u, trigger |-> 0, waited |-> FALSE]

Running(t) == stack[t] # <<>>
Top(t) == stack[t][Len(stack[t])]
At(t, op, at) == Running(t) /\ Top(t).op = op /\ Top(t).at = at

Goto(s, at) == [s EXCEPT ![Len(s)].at = at]

\* A handler activation of m on top of s.
Call(s, m, t) == Append(s, NewFrame("handle", "run", m, t))

Step(t, s) == stack' = [stack EXCEPT ![t] = s]

Wake(T) == signaled_' = [t \in Thread |-> signaled_[t] \/ t \in T]

Started(m) == handled' = [handled EXCEPT ![m] = @ + 1]

TypeOK ==
  /\ msgq_ \in [Thread -> Seq(Msgs)]
  /\ dmsgq_ \in [Thread -> Seq([trigger : 0..(TimeMod - 1), msg : Msgs])]
  /\ sendlist_ \in [Thread -> Seq(Msgs)]
  /\ has_sends_ \in [Thread -> BOOLEAN]
  /\ fStop_ \in [Thread -> BOOLEAN]
  /\ signaled_ \in [Thread -> BOOLEAN]
  /\ fWait_ \in [Thread -> BOOLEAN]
  /\ msCurrent \in [Thread -> 0..(TimeMod - 1)]
  /\ wakeAt \in [Thread -> Int]
  /\ ticks \in 0..MaxTicks
  /\ stack \in [Thread -> Seq(Frame)]
  /\ sender \in [Msgs -> SUBSET Thread]
  /\ ready \in [Msgs -> BOOLEAN]
  /\ refused \subseteq Msgs
  /\ handled \in [Msgs -> 0..1]
  /\ returned \subseteq Msgs
  /\ cleared \subseteq Msgs
  /\ nmsgs \in 0..MaxMsgs
  /\ ios \in 0..MaxIo

Init ==
  /\ msgq_ = [t \in Thread |-> <<>>]
  /\ dmsgq_ = [t \in Thread |-> <<>>]
  /\ sendlist_ = [t \in Thread |-> <<>>]
  /\ has_sends_ = [t \in Thread |-> FALSE]
  /\ fStop_ = [t \in Thread |-> FALSE]
  /\ signaled_ = [t \in Thread |-> FALSE]
  /\ fWait_ = [t \in Thread |-> FALSE]
  /\ msCurrent = [t \in Thread |-> StartTime]
  /\ wakeAt = [t \in Thread |-> Never]
  /\ ticks = 0
  /\ stack = [t \in Thread |-> <<NewFrame("get", "enter", NoMsg, t)>>]
  /\ sender = [m \in Msgs |-> {}]
  /\ ready = [m \in Msgs |-> FALSE]
  /\ refused = {}
  /\ handled = [m \in Msgs |-> 0]
  /\ returned = {} /\ cleared = {}
  /\ nmsgs = 0 /\ ios = 0

---------------------------------------------------------------------------
(* Get and ReceiveSends.                                                   *)

GetEnter(t) ==
  /\ At(t, "get", "enter")
  /\ msCurrent' = [msCurrent EXCEPT ![t] = Time]
  /\ Step(t, Goto(stack[t], "serve"))
  /\ UNCHANGED <<queueVars, sendVars, fStop_, signaled_, fWait_, wakeAt, ticks, msgVars, ios>>

\* Get and Send call ReceiveSends, which reads has_sends_ without the lock.
ReceiveSends(t) ==
  /\ Running(t) /\ Top(t).at = "serve"
  /\ LET s == Goto(stack[t], IF Top(t).op = "get" THEN "pull" ELSE "wait")
     IN Step(t, IF has_sends_[t] THEN Append(s, NewFrame("receive", "take", NoMsg, t)) ELSE s)
  /\ UNCHANGED <<queueVars, sendVars, fStop_, signaled_, waitVars, ticks, msgVars, ios>>

\* How many delayed messages the first pass moves: it stops at the first one that is
\* not due.
Due(t) == Cardinality({i \in 1..Len(dmsgq_[t]) :
                         \A j \in 1..i : ~TimeIsLater(msCurrent[t], dmsgq_[t][j].trigger)})

\* The locked part of Get: move what is due, then take the first message or find out how
\* long to wait.  Dispatch runs its handler.
GetPull(t) ==
  /\ At(t, "get", "pull")
  /\ LET n == Due(t)
         q == msgq_[t] \o [i \in 1..n |-> dmsgq_[t][i].msg]
         rest == SubSeq(dmsgq_[t], n + 1, Len(dmsgq_[t]))
     IN /\ dmsgq_' = [dmsgq_ EXCEPT ![t] = rest]
        /\ IF q # <<>>
           THEN /\ msgq_' = [msgq_ EXCEPT ![t] = Tail(q)]
                /\ Step(t, Call(Goto(stack[t], "enter"), Head(q), t))
                /\ Started(Head(q))
                /\ UNCHANGED wakeAt
           ELSE /\ wakeAt' = [wakeAt EXCEPT ![t] =
                                IF rest = <<>> THEN Never
                                ELSE (rest[1].trigger - msCurrent[t]) % TimeMod]
                /\ Step(t, Goto(stack[t], "stop"))
                /\ UNCHANGED <<msgq_, handled>>
  /\ UNCHANGED <<sendVars, fStop_, signaled_, fWait_, msCurrent, ticks, sender, ready,
                 refused, returned, cleared, nmsgs, ios>>

\* fStop_ ends the thread; otherwise it sleeps, for the delay found under the lock.
GetStop(t) ==
  /\ At(t, "get", "stop")
  /\ IF fStop_[t]
     THEN Step(t, <<>>) /\ UNCHANGED <<fWait_, wakeAt>>
     ELSE /\ Step(t, Goto(stack[t], "select"))
          /\ fWait_' = [fWait_ EXCEPT ![t] = TRUE]
          /\ wakeAt' = [wakeAt EXCEPT ![t] = IF @ = Never THEN @ ELSE ticks + @]
  /\ UNCHANGED <<queueVars, sendVars, signaled_, fStop_, msCurrent, ticks, msgVars, ios>>

\* Mutant: the message stays on the list while its handler runs.
ReceiveTake_keeps(t) ==
  /\ At(t, "receive", "take")
  /\ IF sendlist_[t] # <<>>
     THEN LET m == Head(sendlist_[t])
          IN /\ Step(t, Call([stack[t] EXCEPT ![Len(stack[t])].at = "done",
                                              ![Len(stack[t])].msg = m], m, t))
             /\ Started(m)
             /\ UNCHANGED sendVars
     ELSE /\ has_sends_' = [has_sends_ EXCEPT ![t] = FALSE]
          /\ Step(t, Front(stack[t]))
          /\ UNCHANGED <<sendlist_, handled>>
  /\ UNCHANGED <<queueVars, fStop_, signaled_, waitVars, ticks, sender, ready, refused,
                 returned, cleared, nmsgs, ios>>

\* Mutant: the sender is told before the handler runs.
ReceiveTake_early(t) ==
  /\ At(t, "receive", "take")
  /\ IF sendlist_[t] # <<>>
     THEN LET m == Head(sendlist_[t])
          IN /\ sendlist_' = [sendlist_ EXCEPT ![t] = Tail(@)]
             /\ Step(t, Call([stack[t] EXCEPT ![Len(stack[t])].at = "done",
                                              ![Len(stack[t])].msg = m], m, t))
             /\ Started(m)
             /\ ready' = [ready EXCEPT ![m] = TRUE]
             /\ UNCHANGED has_sends_
     ELSE /\ has_sends_' = [has_sends_ EXCEPT ![t] = FALSE]
          /\ Step(t, Front(stack[t]))
          /\ UNCHANGED <<sendlist_, handled, ready>>
  /\ UNCHANGED <<queueVars, fStop_, signaled_, waitVars, ticks, sender, refused,
                 returned, cleared, nmsgs, ios>>

\* The next sent message, or the end of ReceiveSends.
ReceiveTake(t) ==
  /\ At(t, "receive", "take")
  /\ IF sendlist_[t] # <<>>
     THEN LET m == Head(sendlist_[t])
          IN /\ sendlist_' = [sendlist_ EXCEPT ![t] = Tail(@)]
             /\ Step(t, Call([stack[t] EXCEPT ![Len(stack[t])].at = "done",
                                              ![Len(stack[t])].msg = m], m, t))
             /\ Started(m)
             /\ UNCHANGED has_sends_
     ELSE /\ has_sends_' = [has_sends_ EXCEPT ![t] = FALSE]
          /\ Step(t, Front(stack[t]))
          /\ UNCHANGED <<sendlist_, handled>>
  /\ UNCHANGED <<queueVars, fStop_, signaled_, waitVars, ticks, sender, ready, refused,
                 returned, cleared, nmsgs, ios>>

ReceiveDone(t) ==
  /\ At(t, "receive", "done")
  /\ ready' = [ready EXCEPT ![Top(t).msg] = TRUE]
  /\ Wake(sender[Top(t).msg])
  /\ Step(t, Goto(stack[t], "take"))
  /\ UNCHANGED <<queueVars, sendVars, fStop_, waitVars, ticks, sender, refused, handled,
                 returned, cleared, nmsgs, ios>>

---------------------------------------------------------------------------
(* NetworkService::Wait.  process_io is ignored: a thread that waits in    *)
(* Send serves its sockets as well.                                        *)

InSelect(t) == Running(t) /\ Top(t).at = "select"

\* Back from Wait, to the loop of Get or of Send.
AfterWait(s) ==
  IF s[Len(s)].op = "get" THEN Goto(s, "enter")
  ELSE [s EXCEPT ![Len(s)].at = "loop", ![Len(s)].waited = TRUE]

WaitWoken(t) ==
  /\ InSelect(t)
  /\ signaled_[t] \/ ~fWait_[t]
  /\ signaled_' = [signaled_ EXCEPT ![t] = @ /\ ~fWait_[t]]
  /\ fWait_' = [fWait_ EXCEPT ![t] = FALSE]
  /\ Step(t, AfterWait(stack[t]))
  /\ UNCHANGED <<queueVars, sendVars, fStop_, msCurrent, wakeAt, ticks, msgVars, ios>>

WaitTimeout(t) ==
  /\ InSelect(t) /\ Top(t).op = "get" /\ fWait_[t] /\ ~signaled_[t]
  /\ wakeAt[t] # Never /\ wakeAt[t] <= ticks
  /\ Step(t, AfterWait(stack[t]))
  /\ UNCHANGED <<queueVars, sendVars, fStop_, signaled_, waitVars, ticks, msgVars, ios>>

\* A socket is ready; a wake-up that is there too is taken first.
WaitIo(t) ==
  /\ InSelect(t) /\ fWait_[t]
  /\ ios < MaxIo
  /\ ios' = ios + 1
  /\ signaled_' = [signaled_ EXCEPT ![t] = FALSE]
  /\ fWait_' = [fWait_ EXCEPT ![t] = ~signaled_[t]]
  /\ Step(t, Call(stack[t], NoMsg, t))
  /\ UNCHANGED <<queueVars, sendVars, fStop_, msCurrent, wakeAt, ticks, msgVars>>

---------------------------------------------------------------------------
(* What a handler does: Post, PostDelayed, Send and return.                *)

InHandler(t) == At(t, "handle", "run")

HandlerCalls(t, op, u, d) ==
  /\ InHandler(t)
  /\ nmsgs < MaxMsgs
  /\ nmsgs' = nmsgs + 1
  /\ sender' = [sender EXCEPT ![nmsgs + 1] = {t}]
  /\ Step(t, Append(stack[t], [NewFrame(op, "check", nmsgs + 1, u)
                                 EXCEPT !.trigger = (Time + d) % TimeMod]))
  /\ UNCHANGED <<queueVars, sendVars, fStop_, signaled_, waitVars, ticks, ready, refused,
                 handled, returned, cleared, ios>>

HandlerReturns(t) ==
  /\ InHandler(t)
  /\ Step(t, Front(stack[t]))
  /\ UNCHANGED <<queueVars, sendVars, fStop_, signaled_, waitVars, ticks, msgVars, ios>>

\* fStop_ is read before the lock is taken.  A thread that sends to itself calls the
\* handler; its frame then only waits for the handler to be over.
CheckStop(t) ==
  /\ Running(t) /\ Top(t).at = "check"
  /\ LET f == Top(t)
     IN IF fStop_[f.to]
        THEN /\ refused' = refused \cup {f.msg}
             /\ Step(t, Front(stack[t]))
             /\ UNCHANGED handled
        ELSE IF f.op = "send" /\ f.to = t
        THEN /\ Step(t, Call(Goto(stack[t], "done"), f.msg, t))
             /\ Started(f.msg)
             /\ UNCHANGED refused
        ELSE /\ Step(t, Goto(stack[t], "push"))
             /\ UNCHANGED <<refused, handled>>
  /\ UNCHANGED <<queueVars, sendVars, fStop_, signaled_, waitVars, ticks, sender, ready,
                 returned, cleared, nmsgs, ios>>

\* Mutant: the sleeping thread is not woken.
Post_noWakeUp(t) ==
  /\ At(t, "post", "push")
  /\ msgq_' = [msgq_ EXCEPT ![Top(t).to] = Append(@, Top(t).msg)]
  /\ Step(t, Front(stack[t]))
  /\ UNCHANGED <<dmsgq_, sendVars, fStop_, signaled_, waitVars, ticks, msgVars, ios>>

Post(t) ==
  /\ At(t, "post", "push")
  /\ msgq_' = [msgq_ EXCEPT ![Top(t).to] = Append(@, Top(t).msg)]
  /\ Wake({Top(t).to})
  /\ Step(t, Front(stack[t]))
  /\ UNCHANGED <<dmsgq_, sendVars, fStop_, waitVars, ticks, msgVars, ios>>

\* Mutant: a new message goes behind everything.
Insert_last(q, d) == Append(q, d)

\* The priority queue compares the 32-bit trigger times as numbers; equal ones keep
\* their order.
Insert(q, d) ==
  LET p == Cardinality({i \in 1..Len(q) : q[i].trigger <= d.trigger})
  IN SubSeq(q, 1, p) \o <<d>> \o SubSeq(q, p + 1, Len(q))

DoDelayPost(t) ==
  /\ At(t, "delay", "push")
  /\ dmsgq_' = [dmsgq_ EXCEPT ![Top(t).to] =
                  Insert(@, [trigger |-> Top(t).trigger, msg |-> Top(t).msg])]
  /\ Wake({Top(t).to})
  /\ Step(t, Front(stack[t]))
  /\ UNCHANGED <<msgq_, sendVars, fStop_, waitVars, ticks, msgVars, ios>>

SendPush(t) ==
  /\ At(t, "send", "push")
  /\ sendlist_' = [sendlist_ EXCEPT ![Top(t).to] = Append(@, Top(t).msg)]
  /\ has_sends_' = [has_sends_ EXCEPT ![Top(t).to] = TRUE]
  /\ Step(t, Goto(stack[t], "wake"))
  /\ UNCHANGED <<queueVars, fStop_, signaled_, waitVars, ticks, msgVars, ios>>

SendWake(t) ==
  /\ At(t, "send", "wake")
  /\ Wake({Top(t).to})
  /\ Step(t, Goto(stack[t], "loop"))
  /\ UNCHANGED <<queueVars, sendVars, fStop_, waitVars, ticks, msgVars, ios>>

\* Mutant: a blocked sender does not serve what is sent to it.
SendLoop_deaf(t) ==
  /\ At(t, "send", "loop")
  /\ ~ready[Top(t).msg]
  /\ Step(t, Goto(stack[t], "wait"))
  /\ UNCHANGED <<queueVars, sendVars, fStop_, signaled_, waitVars, ticks, msgVars, ios>>

\* Not ready yet: ReceiveSends, then Wait, whether or not it has become ready meanwhile.
SendLoop(t) ==
  /\ At(t, "send", "loop")
  /\ ~ready[Top(t).msg]
  /\ Step(t, Goto(stack[t], "serve"))
  /\ UNCHANGED <<queueVars, sendVars, fStop_, signaled_, waitVars, ticks, msgVars, ios>>

SendWait(t) ==
  /\ At(t, "send", "wait")
  /\ fWait_' = [fWait_ EXCEPT ![t] = TRUE]
  /\ Step(t, Goto(stack[t], "select"))
  /\ UNCHANGED <<queueVars, sendVars, fStop_, signaled_, msCurrent, wakeAt, ticks, msgVars,
                 ios>>

\* Mutant: the wake-ups that the wait has used up are not made good.
SendReturns_noWakeUp(t) ==
  /\ \/ At(t, "send", "loop") /\ ready[Top(t).msg]
     \/ At(t, "send", "done")
  /\ returned' = returned \cup {Top(t).msg}
  /\ Step(t, Front(stack[t]))
  /\ UNCHANGED <<queueVars, sendVars, fStop_, signaled_, waitVars, ticks, sender, ready,
                 refused, handled, cleared, nmsgs, ios>>

\* Send returns; a thread that has waited wakes itself again.
SendReturns(t) ==
  /\ \/ At(t, "send", "loop") /\ ready[Top(t).msg]
     \/ At(t, "send", "done")
  /\ returned' = returned \cup {Top(t).msg}
  /\ IF Top(t).waited THEN Wake({t}) ELSE UNCHANGED signaled_
  /\ Step(t, Front(stack[t]))
  /\ UNCHANGED <<queueVars, sendVars, fStop_, waitVars, ticks, sender, ready, refused,
                 handled, cleared, nmsgs, ios>>

\* The elements of q at the places I, in their order.
Pick(q, I) ==
  [n \in 1..Cardinality(I) |-> q[CHOOSE i \in I : Cardinality({h \in I : h <= i}) = n]]

\* q without the messages of S.
Without(q, S) == Pick(q, {i \in 1..Len(q) : q[i] \notin S})
WithoutDelayed(q, S) == Pick(q, {i \in 1..Len(q) : q[i].msg \notin S})

\* Mutant: the senders are released, but their messages stay.
Clear_keepsSends(t, u, S) ==
  /\ InHandler(t)
  /\ LET sent == S \cap ToSet(sendlist_[u])
     IN /\ ready' = [m \in Msgs |-> ready[m] \/ m \in sent]
        /\ Wake(UNION {sender[m] : m \in sent})
  /\ msgq_' = [msgq_ EXCEPT ![u] = Without(@, S)]
  /\ dmsgq_' = [dmsgq_ EXCEPT ![u] = WithoutDelayed(@, S)]
  /\ cleared' = cleared \cup S
  /\ UNCHANGED <<sendlist_, has_sends_, fStop_, waitVars, ticks, stack, sender, refused, handled,
                 returned, nmsgs, ios>>

\* Clear, called by a handler of t: the messages S of one handler leave the queues of u,
\* and the senders of those that were sent are released.
Clear(t, u, S) ==
  /\ InHandler(t)
  /\ LET sent == S \cap ToSet(sendlist_[u])
     IN /\ sendlist_' = [sendlist_ EXCEPT ![u] = Without(@, S)]
        /\ ready' = [m \in Msgs |-> ready[m] \/ m \in sent]
        /\ Wake(UNION {sender[m] : m \in sent})
  /\ msgq_' = [msgq_ EXCEPT ![u] = Without(@, S)]
  /\ dmsgq_' = [dmsgq_ EXCEPT ![u] = WithoutDelayed(@, S)]
  /\ cleared' = cleared \cup S
  /\ UNCHANGED <<has_sends_, fStop_, waitVars, ticks, stack, sender, refused, handled,
                 returned, nmsgs, ios>>

\* What Clear may find in the queues of u.
Queued(u) == ToSet(sendlist_[u]) \cup ToSet(msgq_[u]) \cup {d.msg : d \in ToSet(dmsgq_[u])}

---------------------------------------------------------------------------
\* Quit, from outside.
Quit(t) ==
  /\ ~fStop_[t]
  /\ fStop_' = [fStop_ EXCEPT ![t] = TRUE]
  /\ Wake({t})
  /\ UNCHANGED <<queueVars, sendVars, waitVars, ticks, stack, msgVars, ios>>

Tick ==
  /\ ticks < MaxTicks
  /\ ticks' = ticks + 1
  /\ UNCHANGED <<queueVars, sendVars, fStop_, signaled_, waitVars, stack, msgVars, ios>>

Runs(t) ==
  \/ GetEnter(t) \/ ReceiveSends(t) \/ GetPull(t) \/ GetStop(t)
  \/ ReceiveTake(t) \/ ReceiveDone(t)
  \/ WaitWoken(t) \/ WaitTimeout(t)
  \/ HandlerReturns(t)
  \/ CheckStop(t) \/ Post(t) \/ DoDelayPost(t)
  \/ SendPush(t) \/ SendWake(t) \/ SendLoop(t) \/ SendWait(t)
  \/ SendReturns(t)

HandlerActs(t) ==
  \E op \in Ops \ {"clear"}, u \in Thread, d \in Delays \cup {0} :
    (op = "delay" => d \in Delays) /\ (op # "delay" => d = 0) /\ HandlerCalls(t, op, u, d)

\* Message::Match picks the messages of one handler, or of one id of it: any of those
\* there may be.
HandlerClears(t) ==
  /\ "clear" \in Ops
  /\ \E u \in Thread : \E S \in SUBSET Queued(u) \ {{}} : Clear(t, u, S)

Next ==
  \/ \E t \in Thread : Runs(t) \/ WaitIo(t) \/ HandlerActs(t) \/ HandlerClears(t)
  \/ \E t \in Quits : Quit(t)
  \/ Tick

Spec == Init /\ [][Next]_vars

\* Every thread gets the processor, every handler ends and time passes; sockets, handlers
\* and Quit promise nothing.
FairSpec == Spec /\ (\A t \in Thread : WF_vars(Runs(t))) /\ WF_vars(Tick)

---------------------------------------------------------------------------
(* Properties.                                                             *)

Asleep(t) == InSelect(t) /\ fWait_[t] /\ ~signaled_[t]

\* No wake-up is lost: a thread sleeps in Get only with an empty queue, and anywhere with
\* something sent to it only while the sender is on its way to wake it.
NoLostWakeUp ==
  \A t \in Thread : Asleep(t) =>
    /\ Top(t).op = "get" => msgq_[t] = <<>>
    /\ sendlist_[t] # <<>> => \E u \in Thread : At(u, "send", "wake") /\ Top(u).to = t
    /\ Top(t).op = "send" => ~ready[Top(t).msg]

\* "DelayedMessage goes into a priority queue, sorted by trigger time" (messagequeue.h):
\* a thread that sleeps in Get has no delayed message that was due when it looked, and
\* sleeps no longer than until the first of them is.
DelayedNotForgotten ==
  \A t \in Thread : Asleep(t) /\ Top(t).op = "get" =>
    \A i \in 1..Len(dmsgq_[t]) :
      /\ TimeIsLater(msCurrent[t], dmsgq_[t][i].trigger)
      /\ wakeAt[t] # Never
      /\ wakeAt[t] - ticks <= (dmsgq_[t][i].trigger - msCurrent[t]) % TimeMod

\* When a send that was not refused returns, its handler has run, once, and is over; or the
\* message was cleared, and then the handler has not run and never does.
SendMeansHandled ==
  \A m \in returned :
    /\ handled[m] = 1 <=> m \notin cleared
    /\ \A t \in Thread : \A i \in 1..Len(stack[t]) :
         ~(stack[t][i].op = "handle" /\ stack[t][i].msg = m)

\* Every send returns: threads that send to each other do not block each other.
SendsReturn ==
  \A m \in Msgs : (\E t \in Thread : At(t, "send", "check") /\ Top(t).msg = m)
                    ~> (m \in returned \cup refused)

\* Every posted message is handled or cleared, also when its thread was inside Wait or Send.
PostsHandled ==
  \A m \in Msgs : (\E t \in Thread : At(t, "post", "push") /\ Top(t).msg = m)
                    ~> (handled[m] = 1 \/ m \in cleared)

\* "When a MQ is stopped ... any pending Sends and ready Posts will be delivered before Get
\* returns false" (messagequeue.h): a thread ends with nothing in its queues.
PendingDelivered ==
  [][\A t \in Thread : Running(t) /\ stack'[t] = <<>> => msgq_[t] = <<>> /\ sendlist_[t] = <<>>]_vars
=============================================================================
