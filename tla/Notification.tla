---------------------------- MODULE Notification ----------------------------
(***************************************************************************)
(* What a strategy PM submits tells the owner and the chief.  The gateway  *)
(* saves the strategy and records its events one by one: an event is       *)
(* appended, published as well as can be, and handed to the notification   *)
(* service, which runs the messaging CLI for each recipient, stores what   *)
(* came of it and hands back the events that say so, recorded in turn.     *)
(* The input is used up only afterwards.  NotificationService,             *)
(* OpenClawNotificationProvider and _record_events of the gateway.         *)
(***************************************************************************)
EXTENDS Integers, FiniteSets, Sequences, SequencesExt

CONSTANTS
  Handlers,      \* the requests that are served side by side
  ChiefIsOwner,  \* whether chief and owner are configured as one recipient
  MaxStrategies, \* bound: strategies saved
  MaxFaults      \* bound: commands that fail, raise or are cut off

VARIABLES
  saved,     \* the strategies saved: of which input, silent or not, and whether it is used up
  events,    \* the event table, in order
  told,      \* the messages that reached their recipient
  handler,   \* per handler, the recording it is in
  faults

vars == <<saved, events, told, handler, faults>>

Event(type, strategy, recipient, delivered) ==
  [type |-> type, strategy |-> strategy, recipient |-> recipient, delivered |-> delivered]

Idle == [pc |-> "idle", strategy |-> 0, pending |-> <<>>, commands |-> <<>>, sent |-> <<>>]

TypeOK ==
  /\ saved \in Seq([input : 1 .. MaxStrategies, silent : BOOLEAN, consumed : BOOLEAN])
  /\ \A i \in DOMAIN events : events[i].strategy \in DOMAIN saved
  /\ \A h \in Handlers : handler[h].pc \in {"idle", "record", "send", "store", "failed"}
  /\ faults \in 0 .. MaxFaults

Init ==
  /\ saved = <<>> /\ events = <<>> /\ told = <<>> /\ faults = 0
  /\ handler = [h \in Handlers |-> Idle]

-----------------------------------------------------------------------------
\* _build_recipient_commands: the owner, and the chief unless it is the same.
Recipients == IF ChiefIsOwner THEN <<"owner">> ELSE <<"owner", "chief">>

\* Mutant of Commands: the event's own mark is not looked at.
CommandsOfAll(e) == IF e.type = "submitted" THEN Recipients ELSE <<>>

\* handle_event: only a strategy that is not marked as internal reasoning.
Commands(e) ==
  IF e.type = "submitted" /\ ~saved[e.strategy].silent THEN Recipients ELSE <<>>

Becomes(h, c) == handler' = [handler EXCEPT ![h] = c]

\* submit_strategy: saved, and its two events wait to be recorded.  An input whose
\* recording failed is not used up, and is submitted again.
Submit(h, silent) ==
  LET n == Len(saved) + 1
      input == IF handler[h].pc = "failed" THEN saved[handler[h].strategy].input ELSE n
  IN /\ handler[h].pc \in {"idle", "failed"} /\ n <= MaxStrategies
     /\ saved' = Append(saved, [input |-> input, silent |-> silent, consumed |-> FALSE])
     /\ Becomes(h, [Idle EXCEPT !.pc = "record", !.strategy = n,
                      !.pending = <<Event("envelope", n, "none", FALSE), Event("submitted", n, "none", FALSE)>>])
     /\ UNCHANGED <<events, told, faults>>

\* The commands of an event are sent, and the next event is taken.
AfterHandling(c) ==
  IF c.commands # <<>> THEN [c EXCEPT !.pc = "send"]
                       ELSE [c EXCEPT !.pc = "record", !.pending = @ \o c.sent, !.sent = <<>>]

\* An event is appended and handled.
Record(h) ==
  LET c == handler[h] e == Head(c.pending)
  IN /\ c.pc = "record" /\ c.pending # <<>>
     /\ events' = Append(events, e)
     /\ Becomes(h, AfterHandling([c EXCEPT !.pending = Tail(@), !.commands = Commands(e)]))
     /\ UNCHANGED <<saved, told, faults>>

\* Mutant of Verdict: the CLI's exit is not looked at.
VerdictYes(reached) == TRUE

\* What the provider makes of the CLI's exit status and reply.
Verdict(reached) == reached

\* What the recipient reads: the strategy, in a few lines.
Message(n, recipient) == [strategy |-> n, recipient |-> recipient]

\* The CLI runs: the message is delivered, or it is not and the CLI says why.
Send(h, reached) ==
  LET c == handler[h]
  IN /\ c.pc = "send"
     /\ reached \/ faults < MaxFaults
     /\ faults' = IF reached THEN faults ELSE faults + 1
     /\ told' = IF reached THEN Append(told, Message(c.strategy, Head(c.commands))) ELSE told
     /\ Becomes(h, [c EXCEPT !.pc = "store",
                             !.sent = Append(@, Event("sent", c.strategy, Head(c.commands), Verdict(reached)))])
     /\ UNCHANGED <<saved, events>>

\* Its result is stored as a row and an asset, with an event of its own.
Store(h) ==
  LET c == handler[h] r == Last(c.sent)
  IN /\ c.pc = "store"
     /\ events' = Append(events, [r EXCEPT !.type = "recorded"])
     /\ Becomes(h, AfterHandling([c EXCEPT !.commands = Tail(@)]))
     /\ UNCHANGED <<saved, told, faults>>

\* Everything is recorded: the input is used up.
Consume(h) ==
  /\ handler[h].pc = "record" /\ handler[h].pending = <<>>
  /\ saved' = [saved EXCEPT ![handler[h].strategy].consumed = TRUE]
  /\ Becomes(h, Idle)
  /\ UNCHANGED <<events, told, faults>>

\* The CLI is not there, or the process ends: the recording stops where it is,
\* and the input can be submitted again.
Fail(h) ==
  /\ handler[h].pc \in {"record", "send", "store"} /\ faults < MaxFaults
  /\ faults' = faults + 1
  /\ Becomes(h, [handler[h] EXCEPT !.pc = "failed", !.pending = <<>>, !.commands = <<>>, !.sent = <<>>])
  /\ UNCHANGED <<saved, events, told>>

Next ==
  \E h \in Handlers :
    \/ \E silent \in BOOLEAN : Submit(h, silent)
    \/ Record(h) \/ Store(h) \/ Consume(h) \/ Fail(h)
    \/ \E reached \in BOOLEAN : Send(h, reached)

Spec == Init /\ [][Next]_vars

-----------------------------------------------------------------------------
Of(n, type) == {i \in DOMAIN events : events[i].strategy = n /\ events[i].type = type}

\* The events of notifications tell the truth, in the order of what happened: a
\* "sent" is there only after the "recorded" of the same result and once, and it says
\* delivered just when the message reached its recipient; and when the handling of a
\* strategy is over, each recipient was tried once if it is not silent, and no one
\* was if it is.
SentIsTold ==
  /\ \A i \in DOMAIN events : events[i].type = "sent" =>
       /\ \E j \in 1 .. i - 1 : events[j] = [events[i] EXCEPT !.type = "recorded"]
       /\ \A j \in DOMAIN events : events[j] = events[i] => j = i
       /\ events[i].delivered <=> \E k \in DOMAIN told : told[k] = Message(events[i].strategy, events[i].recipient)
  /\ \A n \in DOMAIN saved : saved[n].consumed =>
       /\ Cardinality(Of(n, "sent")) = IF saved[n].silent THEN 0 ELSE Len(Recipients)
       /\ Cardinality(Of(n, "recorded")) = Cardinality(Of(n, "sent"))

\* The owner is told once of the strategy of an input.  The code does not keep this: a
\* recording that is cut off after the message leaves the input to be submitted again.
ToldOnce ==
  \A j, k \in DOMAIN told :
    told[j].recipient = "owner" /\ told[k].recipient = "owner"
    /\ saved[told[j].strategy].input = saved[told[k].strategy].input => j = k
=============================================================================
