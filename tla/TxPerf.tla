------------------------------- MODULE TxPerf -------------------------------
(***************************************************************************)
(* tx_perf, the tool that reads the provider's log and reports how the     *)
(* submissions went: a reader that feeds lines to the main loop over a     *)
(* bounded channel, the loop that parses and counts them, and the summary  *)
(* it prints at every tick and once when it stops.                         *)
(*                                                                         *)
(* A log line is the statement that wrote it, its number (a latency, a     *)
(* duration, a capacity) and the unit after it.  The provider goes on      *)
(* writing while the tool reads, to a file or into a pipe that it may      *)
(* close.  The model has --show-dropped on; percentiles and layout are     *)
(* left out.                                                               *)
(***************************************************************************)
EXTENDS Integers, Sequences, FiniteSets, Functions

CONSTANTS
  Lines,        \* the lines the provider may write
  MaxLines,     \* bound on their number
  Buffer,       \* the channel of the reader
  Window,       \* --window
  MaxClock,     \* bound on the clock, in summary intervals
  TopSlowest,   \* --top-slowest
  HistMax       \* the latency the cumulative histogram starts with

ASSUME BoundsAssumption ==
  /\ Buffer \in Nat \ {0} /\ HistMax \in Nat
  /\ {Window, MaxClock, MaxLines, TopSlowest} \subseteq Nat
ASSUME LinesAssumption == \A line \in Lines : line.number \in Nat

VARIABLES
  source,     \* --input and --follow: a file read to its end, a file followed, or stdin
  closed,     \* the other end of the pipe on stdin is closed
  written,    \* how many lines were written
  input,      \* lines written and not yet read
  channel,    \* lines read and not yet received
  reader,     \* the reader task
  main,       \* the main loop, or its wait for the reader
  clock,      \* the time, and
  due,        \* whether the interval's tick is ready
  samples,    \* the four queues of SlidingWindowMetrics
  counts,     \* the counters of CumulativeMetrics
  hist,       \* its two histograms: the largest number each takes, and what it holds
  slowest,    \* its slowest successes, the fastest of them first
  dropped,    \* lines that parse to nothing, since they were last shown
  hinted,     \* the hint that there is no data was printed
  received,   \* history: the lines received so far, by what they parsed to
  shown       \* history: how many dropped lines were shown

inputVars == <<source, closed, written, input, channel, reader>>
metricVars == <<samples, counts, hist, slowest, received>>
shownVars == <<dropped, hinted, shown>>
vars == <<inputVars, main, clock, due, metricVars, shownVars>>

-----------------------------------------------------------------------------
(* The parser.  Every line that names mining_duration counts as a success, *)
(* its error, timeout and progress lines included; so does the wallet's,   *)
(* for the same transaction.                                               *)

Kinds == {"rpc", "mining", "error", "capacity"}
Logged ==
  [rpc |-> {"rpc_accepted"},
   mining |-> {"mining_complete", "mining_success", "mining_error", "mining_timeout",
               "mining_progress", "wallet_mined"},
   error |-> {"processor_failed", "wallet_failed"},
   capacity |-> {"queueing", "queued", "queue_full"}]
Stages == {"processor_ok", "wallet_ok"}   \* parsed, and not counted

\* What a line may parse to.
Outcomes == Kinds \cup {"stage", "nothing"}

\* parse_duration_micros: the suffix s is tried before ns, so "100ns" is no number
\* of seconds and nothing is parsed.  A capacity has no unit.
Micros == [none |-> 1, us |-> 1, ms |-> 1000, s |-> 1000000]
Value(line) == line.number * Micros[line.unit]

\* parse_line: an error line needs no number, the others do.
Parse(line) ==
  IF line.log \in Logged["error"] THEN "error"
  ELSE IF line.unit \notin DOMAIN Micros THEN "nothing"
  ELSE IF line.log \in Stages THEN "stage"
  ELSE IF \E k \in Kinds : line.log \in Logged[k]
  THEN CHOOSE k \in Kinds : line.log \in Logged[k]
  ELSE "nothing"

-----------------------------------------------------------------------------
(* The metrics. *)

\* purge_expired: samples at the front of a queue go as long as they are expired.
Expired(queue) == {n \in DOMAIN queue : \A i \in 1..n : clock - queue[i].at > Window}
Purged(queue) == SubSeq(queue, Cardinality(Expired(queue)) + 1, Len(queue))

\* The heap in its order, the smallest first, with one more.
Inserted(heap, latency) ==
  LET smaller == Cardinality({i \in DOMAIN heap : heap[i] < latency})
  IN [i \in 1..Len(heap) + 1 |->
        IF i <= smaller THEN heap[i] ELSE IF i = smaller + 1 THEN latency ELSE heap[i - 1]]

\* Mutant: a new sample replaces the slowest one.
PushOverSlowest(heap, latency) ==
  IF Len(heap) < TopSlowest THEN Inserted(heap, latency)
  ELSE IF heap # <<>> /\ latency > Head(heap) THEN Inserted(SubSeq(heap, 1, Len(heap) - 1), latency)
  ELSE heap

\* FixedMinHeap::push: a full heap gives up its smallest for a larger one.
Push(heap, latency) ==
  IF Len(heap) < TopSlowest THEN Inserted(heap, latency)
  ELSE IF heap # <<>> /\ latency > Head(heap) THEN Inserted(Tail(heap), latency)
  ELSE heap

\* A number out of range starts a new histogram, without what the old one held.
Recorded(h, number) ==
  IF number <= h.max
  THEN [h EXCEPT !.held = Append(@, number)]
  ELSE [max |-> 2 * number, held |-> <<number>>]

\* add_rpc_success, add_mining_success, add_error, add_capacity.
Sampled(kind, sample) == samples' = [samples EXCEPT ![kind] = Append(@, sample)]

\* record_success, record_mining_success, record_error, record_capacity.
Counted(kind, number) ==
  /\ counts' = [counts EXCEPT ![kind] = @ + 1]
  /\ hist' = IF kind \in DOMAIN hist THEN [hist EXCEPT ![kind] = Recorded(@, number)] ELSE hist
  /\ slowest' = IF kind = "rpc" THEN Push(slowest, number) ELSE slowest

-----------------------------------------------------------------------------
Init ==
  /\ source \in {"file", "followed", "stdin"} /\ closed = FALSE
  /\ written = 0 /\ input = <<>> /\ channel = <<>> /\ reader = "reading"
  /\ main = "select" /\ clock = 0 /\ due = FALSE
  /\ samples = [k \in Kinds |-> <<>>]
  /\ counts = [k \in Kinds |-> 0]
  /\ hist = [k \in {"rpc", "mining"} |-> [max |-> HistMax, held |-> <<>>]] /\ slowest = <<>>
  /\ dropped = 0 /\ hinted = FALSE
  /\ received = [k \in Outcomes |-> <<>>] /\ shown = 0

Write(line) ==
  /\ written < MaxLines /\ ~closed
  /\ written' = written + 1
  /\ input' = Append(input, line)
  /\ UNCHANGED <<source, closed, channel, reader, main, clock, due, metricVars, shownVars>>

Close ==
  /\ source = "stdin" /\ ~closed
  /\ closed' = TRUE
  /\ UNCHANGED <<source, written, input, channel, reader, main, clock, due, metricVars, shownVars>>

\* The sender waits for room.
Read ==
  /\ reader = "reading" /\ main # "panicked" /\ input # <<>> /\ Len(channel) < Buffer
  /\ channel' = Append(channel, Head(input))
  /\ input' = Tail(input)
  /\ UNCHANGED <<source, closed, written, reader, main, clock, due, metricVars, shownVars>>

ReaderEnds ==
  /\ reader' = "ended"
  /\ UNCHANGED <<source, closed, written, input, channel, main, clock, due, metricVars, shownVars>>

\* The input has an end: --follow waits there for more, and is ignored on stdin.
HasEnd == source = "file" \/ closed
ReadEof == reader = "reading" /\ input = <<>> /\ HasEnd /\ ReaderEnds

\* The file cannot be opened, or a read fails: what follows in the input is never read.
ReadFails == reader = "reading" /\ ReaderEnds

\* The receiver went with the main loop: the next line ends the reader.
SendFails == reader = "reading" /\ main = "panicked" /\ input # <<>> /\ ReaderEnds

Elapse ==
  /\ clock < MaxClock /\ main = "select"
  /\ clock' = clock + 1
  /\ due' = TRUE
  /\ UNCHANGED <<inputVars, main, metricVars, shownVars>>

\* The tick: purge, print, or hint once that there is nothing to print.
Tick ==
  /\ main = "select" /\ due
  /\ due' = FALSE
  /\ samples' = [k \in Kinds |-> Purged(samples[k])]
  /\ IF samples'["rpc"] # <<>> \/ ~hinted
     THEN /\ shown' = shown + dropped
          /\ dropped' = 0
          /\ hinted' = (hinted \/ samples'["rpc"] = <<>>)
     ELSE UNCHANGED shownVars
  /\ UNCHANGED <<inputVars, main, clock, counts, hist, slowest, received>>

\* A line is received; a tick that is ready goes first (biased select).
Receive ==
  /\ main = "select" /\ ~due /\ channel # <<>>
  /\ channel' = Tail(channel)
  /\ LET line == Head(channel)
         kind == Parse(line)
         number == IF line.unit \in DOMAIN Micros THEN Value(line) ELSE 0
         sample == [at |-> clock, value |-> number]
     IN /\ IF kind \in Kinds
           THEN Sampled(kind, sample) /\ Counted(kind, number)
           ELSE UNCHANGED <<samples, counts, hist, slowest>>
        /\ dropped' = IF kind = "nothing" THEN dropped + 1 ELSE dropped
        /\ received' = [received EXCEPT ![kind] = Append(@, sample)]
  /\ UNCHANGED <<source, closed, written, input, reader, main, clock, due, hinted, shown>>

\* Mutant: the end of the input is only noticed by the next tick's summary.
EofNeedsTick ==
  /\ main = "select" /\ due /\ channel = <<>> /\ reader = "ended"
  /\ main' = "join"
  /\ UNCHANGED <<inputVars, clock, due, metricVars, shownVars>>

\* The channel is closed and empty: the last summary, without a purge.
Eof ==
  /\ main = "select" /\ ~due /\ channel = <<>> /\ reader = "ended"
  /\ main' = "join"
  /\ UNCHANGED <<inputVars, clock, due, metricVars, shownVars>>

\* SIGINT or SIGTERM: the same summary; the receiver stays open.
Signal ==
  /\ main = "select"
  /\ main' = "join"
  /\ UNCHANGED <<inputVars, clock, due, metricVars, shownVars>>

\* A summary or the hint meets a closed output, at a tick or at the end: println! panics.
PrintFails ==
  /\ main = "select"
  /\ (due /\ ~hinted) \/ counts["rpc"] # 0 \/ dropped # 0
  /\ main' = "panicked"
  /\ UNCHANGED <<inputVars, clock, due, metricVars, shownVars>>

\* The end of the process waits for the reader, after a panic too: there the runtime
\* waits for the thread that reads.
Join ==
  /\ main \in {"join", "panicked"} /\ reader = "ended"
  /\ main' = "exited"
  /\ UNCHANGED <<inputVars, clock, due, metricVars, shownVars>>

Next ==
  \/ \E line \in Lines : Write(line)
  \/ Close \/ Read \/ ReadEof \/ ReadFails \/ SendFails
  \/ Elapse \/ Tick \/ Receive \/ Eof \/ Signal \/ PrintFails \/ Join

\* The runtime runs its tasks; the provider and the operator owe nothing, not even an
\* end of the pipe.
Spec ==
  /\ Init /\ [][Next]_vars
  /\ WF_vars(Read) /\ WF_vars(ReadEof) /\ WF_vars(SendFails) /\ WF_vars(Tick)
  /\ WF_vars(Receive) /\ WF_vars(Eof) /\ WF_vars(Join)

-----------------------------------------------------------------------------
(* Properties. *)

Numbers(kind) == [i \in 1..Len(received[kind]) |-> received[kind][i].value]

\* The latest elements of all.
Latest(all, s) ==
  /\ Len(s) <= Len(all)
  /\ \A i \in 1..Len(s) : s[i] = all[Len(all) - Len(s) + i]

\* The largest elements of all, as many as there is room for: each is one of them, none
\* twice, and what is left out is no larger.
Largest(all, s) ==
  /\ Len(s) = IF Len(all) < TopSlowest THEN Len(all) ELSE TopSlowest
  /\ \E from \in [1..Len(s) -> 1..Len(all)] :
       /\ IsInjective(from)
       /\ \A i \in 1..Len(s) : s[i] = all[from[i]]
       /\ \A j \in 1..Len(all) : (\A i \in 1..Len(s) : from[i] # j)
                                => \A i \in 1..Len(s) : all[j] <= s[i]

\* Every received line is counted once, in its place: the counters hold everything;
\* a window the latest samples, all but expired ones that were purged; the slowest
\* are the largest of all; a line that parses to nothing is shown once or waits for it;
\* and a histogram holds the latest numbers, all of them while none was out of range.
SummariesHold ==
  /\ \A k \in Kinds :
       /\ counts[k] = Len(received[k])
       /\ Latest(received[k], samples[k])
       /\ \A i \in 1..(Len(received[k]) - Len(samples[k])) : clock - received[k][i].at > Window
  /\ Largest(Numbers("rpc"), slowest)
  /\ \A k \in DOMAIN hist :
       /\ Latest(Numbers(k), hist[k].held)
       /\ (\A i \in DOMAIN received[k] : received[k][i].value <= HistMax) => hist[k].held = Numbers(k)
  /\ dropped + shown = Len(received["nothing"])

\* The reader waits for room that nobody makes, and the main loop for the reader.
Stuck == main = "join" /\ reader = "reading" /\ Len(channel) = Buffer /\ input # <<>>

\* The reader waits for a line of an input that has no end.
Quiet == reader = "reading" /\ input = <<>> /\ ~HasEnd

\* If the input has an end (a file that is not followed, a pipe that was closed), the
\* tool ends, unless a signal met a full channel.  After a signal or a panic it ends
\* whatever the input is, or is in one of the two waits.
EndsUnlessStuck ==
  /\ HasEnd ~> main = "exited" \/ Stuck
  /\ main \in {"join", "panicked"} ~> main = "exited" \/ Stuck \/ Quiet
=============================================================================
