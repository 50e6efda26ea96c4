--------------------------- MODULE RequestTracer ---------------------------
(***************************************************************************)
(* request_tracer.py: one tracer, with one current trace, for all threads. *)
(* A handler that is traced may call another that is, and several run at   *)
(* a time; both are requests that overlap here.  The current trace is read *)
(* twice for every event, and a trace is ended in three steps.             *)
(*                                                                         *)
(* Traces are numbered, 0 is None; events are counted.                     *)
(***************************************************************************)
EXTENDS Naturals, Sequences, SequencesExt

CONSTANTS Requests, MaxTraces, MaxStarted, MaxEvents

ASSUME TracerAssumption == MaxTraces \in Nat /\ MaxStarted \in Nat /\ MaxEvents \in Nat

VARIABLES
    current,    \* _current_trace
    traces,     \* the traces that are stored
    tracing, own, \* where a request is, and its trace
    span,       \* the trace of the span it is in
    started,    \* traces so far
    events,     \* the number of events in each trace
    happened,   \* history: the events that a request has raised in each trace
    alone       \* history: the traces that no other request has met

tracerVars == <<current, traces, tracing, own, span, started, events, happened, alone>>

Numbers == 1..MaxStarted

TraceInit ==
    /\ current = 0 /\ traces = <<>>
    /\ tracing = [r \in Requests |-> "idle"] /\ own = [r \in Requests |-> 0]
    /\ span = [r \in Requests |-> 0] /\ started = 0
    /\ events = [t \in Numbers |-> 0] /\ happened = events /\ alone = {}

RequestGoes(r, s) == tracing' = [tracing EXCEPT ![r] = s]
Others(r) == Requests \ {r}
Meet(r) == alone' = alone \ {own[o] : o \in Others(r)}

\* Mutant: a trace that is current stays so.
StartTraceBehind(r) ==
    /\ tracing[r] = "idle" /\ started < MaxStarted
    /\ started' = started + 1 /\ own' = [own EXCEPT ![r] = started']
    /\ current' = IF current = 0 THEN started' ELSE current
    /\ RequestGoes(r, "open")
    /\ alone' = IF \A o \in Others(r) : tracing[o] = "idle" THEN alone \cup {started'}
                ELSE alone \ {own[o] : o \in Others(r)}
    /\ UNCHANGED <<traces, span, events, happened>>

\* start_trace.
StartTrace(r) ==
    /\ tracing[r] = "idle" /\ started < MaxStarted
    /\ started' = started + 1 /\ own' = [own EXCEPT ![r] = started']
    /\ current' = started' /\ RequestGoes(r, "open")
    /\ alone' = IF \A o \in Others(r) : tracing[o] = "idle" THEN alone \cup {started'}
                ELSE alone \ {own[o] : o \in Others(r)}
    /\ UNCHANGED <<traces, span, events, happened>>

\* trace_event and trace_span look whether there is a current trace ...
Look(r, s) ==
    /\ tracing[r] = "open" /\ happened[own[r]] < MaxEvents
    /\ happened' = [happened EXCEPT ![own[r]] = @ + 1]
    /\ RequestGoes(r, IF current = 0 THEN "open" ELSE s)
    /\ UNCHANGED <<current, traces, own, span, started, events, alone>>

\* ... and read it again; if it is None by now the call raises in the handler.
AddEvent(r) ==
    /\ tracing[r] = "event"
    /\ \/ current # 0 /\ events' = [events EXCEPT ![current] = @ + 1] /\ RequestGoes(r, "open")
       \/ current = 0 /\ UNCHANGED events /\ RequestGoes(r, "end")
    /\ UNCHANGED <<current, traces, own, span, started, happened, alone>>

EnterSpan(r) ==
    /\ tracing[r] = "span"
    /\ \/ current # 0 /\ span' = [span EXCEPT ![r] = current] /\ RequestGoes(r, "in span")
       \/ current = 0 /\ UNCHANGED span /\ RequestGoes(r, "end")
    /\ UNCHANGED <<current, traces, own, started, events, happened, alone>>

\* A span is recorded in the trace it began in, also when its body raises.
ExitSpan(r) ==
    /\ tracing[r] = "in span"
    /\ events' = [events EXCEPT ![span[r]] = @ + 1]
    /\ span' = [span EXCEPT ![r] = 0] /\ \E s \in {"open", "end"} : RequestGoes(r, s)
    /\ UNCHANGED <<current, traces, own, started, happened, alone>>

\* The handler returns or raises an Exception: end_trace stores the trace ...
StoreTrace(r) ==
    /\ tracing[r] \in {"open", "end"} /\ RequestGoes(r, "log")
    /\ LET all == Append(traces, own[r]) IN
       traces' = IF Len(all) > MaxTraces
                 THEN SubSeq(all, Len(all) - MaxTraces + 1, Len(all)) ELSE all
    /\ UNCHANGED <<current, own, span, started, events, happened, alone>>

\* ... writes it to the log, which may fail, and leaves no trace current.
EndTrace(r) ==
    /\ tracing[r] = "log" /\ RequestGoes(r, "idle")
    /\ current' = 0 /\ own' = [own EXCEPT ![r] = 0] /\ Meet(r)
    /\ UNCHANGED <<traces, span, started, events, happened>>

\* What is no Exception, a cancellation for one, passes by: the trace is not ended and
\* stays current.
Interrupted(r) ==
    /\ tracing[r] = "open" /\ RequestGoes(r, "idle")
    /\ own' = [own EXCEPT ![r] = 0] /\ alone' = alone \ {own[r]}
    /\ UNCHANGED <<current, traces, span, started, events, happened>>

ClearTraces ==
    /\ traces # <<>> /\ traces' = <<>>
    /\ UNCHANGED <<current, tracing, own, span, started, events, happened, alone>>

TraceNext ==
    \/ ClearTraces
    \/ \E r \in Requests :
         \/ StartTrace(r) \/ Look(r, "event") \/ Look(r, "span") \/ AddEvent(r)
         \/ EnterSpan(r) \/ ExitSpan(r) \/ StoreTrace(r) \/ EndTrace(r) \/ Interrupted(r)

TraceSpec == TraceInit /\ [][TraceNext]_tracerVars
-----------------------------------------------------------------------------
\* A trace that no other request has met has every event of its own, and no other,
\* once it is stored, whatever was interrupted before it.  No trace is stored twice.
TracesAreTrue ==
    /\ IsInjective(traces)
    /\ \A t \in ToSet(traces) \cap alone : events[t] = happened[t]
=============================================================================
