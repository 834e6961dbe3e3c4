----------------------------- MODULE Statistics -----------------------------
(***************************************************************************)
(* The throughput of the monitor's panel (src/output/monitor.c): a ring of *)
(* samples of the counters, and rates taken from its two ends.  A rate is  *)
(* a pair, so many in so many seconds; times are seconds of the clock, 0   *)
(* being long before the run.                                              *)
(***************************************************************************)
EXTENDS Integers

CONSTANTS
  RateWindow,  \* RATE_WINDOW_SIZE (60)
  StartTime    \* RuntimeState.start_time

\* A window of one sample would have nothing to compare it with.
ASSUME WindowAssumption == RateWindow \in Nat \ {0, 1} /\ StartTime \in Nat

Counters == {"dirs", "files", "dequeued"}
NoRate == [what \in Counters |-> <<0, 1>>]

\* RuntimeState.stats of a new run, all zero.
NewStatistics ==
  [samples |-> [i \in 0 .. RateWindow - 1 |-> [at |-> 0, counts |-> [what \in Counters |-> 0]]],
   head |-> 0, filled |-> FALSE, last |-> 0, rate |-> NoRate, max |-> NoRate]

Exceeds(r, s) == r[1] * s[2] > s[1] * r[2]

SimpleRate(now, count) ==
  IF now - StartTime < 1 THEN <<0, 1>> ELSE <<count, now - StartTime>>

SampleDue(st, now) == now - st.last >= 1

\* The ring is full when it comes round to a first place that holds a sample,
\* which is the second time: the very first sample goes to place 1.
Sampled(st, now, counts) ==
  LET head == (st.head + 1) % RateWindow IN
  [st EXCEPT !.head = head,
             !.filled = @ \/ (head = 0 /\ st.samples[0].at # 0),
             !.samples[head] = [at |-> now, counts |-> counts],
             !.last = now]

\* MUTANT: the sample before the newest is taken for the oldest.
OldestIsNewest(st) == IF st.filled THEN (st.head + RateWindow - 1) % RateWindow ELSE 0

Oldest(st) == IF st.filled THEN (st.head + 1) % RateWindow ELSE 0

\* update_statistics, for a sample that is due.
UpdateStatistics(old, now, counts) ==
  LET st == Sampled(old, now, counts)
      oldest == st.samples[Oldest(st)]
      seconds == now - oldest.at
      rate == [what \in Counters |-> <<counts[what] - oldest.counts[what], seconds>>] IN
  IF seconds >= 1
  THEN [st EXCEPT !.rate = rate,
                  !.max = [what \in Counters |->
                             IF Exceeds(rate[what], @[what]) THEN rate[what] ELSE @[what]]]
  ELSE [st EXCEPT !.rate.dirs = SimpleRate(now, counts.dirs),
                  !.rate.files = SimpleRate(now, counts.files)]
=============================================================================
