------------------------------ MODULE PriceLog ------------------------------
(***************************************************************************)
(* What the scrape queue, its workers and the result recorder promise      *)
(* together, without leases, retries or crashes: a target is either idle   *)
(* or has one pending request; a pending request ends by appending one     *)
(* plausible price to the target's log or by being given up.               *)
(***************************************************************************)
EXTENDS Naturals, Sequences, TLAPS

CONSTANTS
  Targets, Prices, NoPrice,
  Plausible  \* for each target, the pairs <<previous price, price>> it may show

VARIABLES
  pending,  \* the targets with an unfinished request
  log       \* the accepted prices of each target, oldest first

logVars == <<pending, log>>

LastPrice(t) == IF log[t] = <<>> THEN NoPrice ELSE log[t][Len(log[t])]

LogInit ==
  /\ pending = {}
  /\ log = [t \in Targets |-> <<>>]

Request(t) ==
  /\ t \notin pending
  /\ pending' = pending \cup {t}
  /\ UNCHANGED log

\* The price is judged against the one it replaces.
Observe(t, p) ==
  /\ t \in pending
  /\ pending' = pending \ {t}
  /\ <<LastPrice(t), p>> \in Plausible[t]
  /\ log' = [log EXCEPT ![t] = Append(@, p)]

GiveUp(t) ==
  /\ t \in pending
  /\ pending' = pending \ {t}
  /\ UNCHANGED log

LogNext ==
  \E t \in Targets : Request(t) \/ GiveUp(t) \/ \E p \in Prices : Observe(t, p)

LogSpec == LogInit /\ [][LogNext]_logVars

\* Every pending request ends.
RequestsEnd == \A t \in Targets : WF_logVars(GiveUp(t) \/ \E p \in Prices : Observe(t, p))

LogFairSpec == LogSpec /\ RequestsEnd

-----------------------------------------------------------------------------
\* What follows for every system that implements the log: each price was
\* plausible after the one before it, the first one after none.
Before(t, i) == IF i = 1 THEN NoPrice ELSE log[t][i - 1]
Chained ==
  \A t \in Targets : \A i \in 1 .. Len(log[t]) : <<Before(t, i), log[t][i]>> \in Plausible[t]

LogTyped == log \in [Targets -> Seq(Prices)]

LEMMA ObserveChains ==
  ASSUME LogTyped, Chained, NEW t \in Targets, NEW p \in Prices, Observe(t, p)
  PROVE  LogTyped' /\ Chained'
<1>1. log'[t] = Append(log[t], p) /\ log[t] \in Seq(Prices) BY DEF Observe, LogTyped
<1>2. LogTyped' BY DEF Observe, LogTyped
<1>3. ASSUME NEW s \in Targets, NEW i \in 1 .. Len(log'[s])
      PROVE  <<Before(s, i)', log'[s][i]>> \in Plausible[s]
  <2>1. CASE s # t BY <1>3, <2>1 DEF Observe, LogTyped, Chained, Before
  <2>2. CASE s = t /\ i = Len(log[t]) + 1
    <3>1. log'[t][i] = p BY <1>1, <2>2
    <3>2. Before(t, i)' = LastPrice(t) BY <1>1, <2>2 DEF Before, LastPrice
    <3> QED BY <2>2, <3>1, <3>2 DEF Observe
  <2>3. CASE s = t /\ i \in 1 .. Len(log[t])
    <3>1. log'[t][i] = log[t][i] BY <1>1, <2>3
    <3>2. i = 1 \/ log'[t][i - 1] = log[t][i - 1] BY <1>1, <2>3
    <3>3. Before(t, i)' = Before(t, i) BY <3>2 DEF Before
    <3> QED BY <2>3, <3>1, <3>3 DEF Chained
  <2> QED BY <1>1, <1>3, <2>1, <2>2, <2>3
<1> QED BY <1>2, <1>3 DEF Chained

\* The log of the queue and the recorder (results.py record_success) is a chain
\* of plausible moves.
THEOREM Chaining == LogSpec => []Chained
<1>1. LogInit => LogTyped /\ Chained BY DEF LogInit, LogTyped, Chained
<1>2. LogTyped /\ Chained /\ [LogNext]_logVars => (LogTyped /\ Chained)'
  <2>1. ASSUME LogTyped, Chained, UNCHANGED log PROVE (LogTyped /\ Chained)'
    BY <2>1 DEF LogTyped, Chained, Before
  <2> QED BY <2>1, ObserveChains DEF LogNext, Request, GiveUp, logVars
<1> QED BY <1>1, <1>2, PTL DEF LogSpec
=============================================================================
