------------------------------- MODULE Cadence -------------------------------
(***************************************************************************)
(* The rates of a hosted session: the network steps that owe the server    *)
(* its ticks, the accumulator that owes the clients their snapshots, and   *)
(* the host's requests for other rates, which the server stages and        *)
(* commits at the end of a tick while the host's client shows what it      *)
(* believes to be staged and live.                                         *)
(*                                                                         *)
(* Host, server and client run in one process and one thread, but talk     *)
(* through sockets and the proxy: between network steps messages are       *)
(* handled, in any order, and within one nothing but ticks happens.  What  *)
(* a tick simulates is in the other modules; here it is the time it        *)
(* stands for.                                                             *)
(***************************************************************************)
EXTENDS Integers, Sequences, SequencesExt, FiniteSets

CONSTANTS
  Second,       \* 1'000'000 microseconds
  Rates,        \* kSessionTickRateChoicesHz
  NetworkStep,  \* kHostedNetworkStepUs
  MaxInFlight   \* bound: requests, results and snapshots under way, of each

ASSUME CadenceAssumption ==
  /\ Second \in Nat \ {0}
  /\ Rates \subseteq 1 .. Second
  /\ Rates # {}
  /\ NetworkStep \in Nat \ {0}
  /\ MaxInFlight \in Nat

VARIABLES
  tickRate,       \* config_.tickRateHz
  snapshotRate,   \* config_.snapshotRateHz
  tickUs,         \* tickIntervalUs_
  snapshotUs,     \* snapshotIntervalUs_
  pendingTick,    \* pendingSessionTickRateHz_, or Unset
  pendingSnapshot,\* pendingSessionSnapshotRateHz_, or Unset
  snapshotAcc,    \* snapshotAccumulatorUs_
  serverAcc,      \* SessionFlowController::serverAccumulatorUs_
  step,           \* tickStepUs of the loop being run, Unset outside it
  liveTick,       \* the tick rate in the client's last snapshot
  stagedTick,     \* the client's stagedSessionTickRateHz_, or Unset
  stagedSnapshot, \* the client's stagedSessionSnapshotRateHz_, or Unset
  requests,       \* RuntimeParamChangeRequests under way
  results,        \* RuntimeParamApplyResults under way
  snapshots,      \* snapshots under way, in the order of their numbers
  retimed         \* history: the snapshot interval changed since the last one

rateVars       == <<tickRate, snapshotRate, tickUs, snapshotUs>>
pendingVars    == <<pendingTick, pendingSnapshot>>
loopVars       == <<serverAcc, step>>
hostClientVars == <<liveTick, stagedTick, stagedSnapshot>>
cadenceVars == <<rateVars, pendingVars, snapshotAcc, loopVars, hostClientVars,
                 requests, results, snapshots, retimed>>

Unset == 0

MinOf(a, b) == IF a <= b THEN a ELSE b

\* intervalUsForRateHz: the second over the rate, rounded half up.
IntervalUs(rate) == (2 * Second + rate) \div (2 * rate)

RateRequest == [key : {"tick", "snapshot"}, rate : Rates]

\* staged: whether the message of the result is "staged_for_next_tick".
RateResult  == [key : {"tick", "snapshot"}, rate : Rates, staged : BOOLEAN]
CadenceInfo == [tick : Rates, snapshot : Rates]

-----------------------------------------------------------------------------
\* normalizeSessionLaunchConfig: supported rates, no more snapshots than ticks.
CadenceInit ==
  /\ tickRate \in Rates
  /\ snapshotRate \in {r \in Rates : r <= tickRate}
  /\ tickUs = IntervalUs(tickRate)
  /\ snapshotUs = IntervalUs(snapshotRate)
  /\ pendingTick = Unset
  /\ pendingSnapshot = Unset
  /\ snapshotAcc = 0
  /\ serverAcc = 0
  /\ step = Unset
  /\ liveTick = tickRate
  /\ stagedTick = Unset
  /\ stagedSnapshot = Unset
  /\ requests = {}
  /\ results = {}
  /\ snapshots = <<>>
  /\ retimed = FALSE

-----------------------------------------------------------------------------
(* The host's client. *)

DisplayedTick == IF stagedTick = Unset THEN liveTick ELSE stagedTick

\* The settings overlay offers no snapshot rate above the tick rate it shows.
RequestRate(m) ==
  /\ step = Unset
  /\ m.key = "snapshot" => m.rate <= DisplayedTick
  /\ Cardinality(requests) < MaxInFlight
  /\ requests' = requests \cup {m}
  /\ UNCHANGED <<rateVars, pendingVars, snapshotAcc, loopVars, hostClientVars,
                 results, snapshots, retimed>>

\* Whatever the message of the result says, the client takes its value for
\* staged: a refusal too has applied = false and the boundary NextTick.
ReceiveResult(m) ==
  /\ step = Unset
  /\ IF m.key = "tick"
       THEN stagedTick' = m.rate /\ stagedSnapshot' = stagedSnapshot
       ELSE stagedSnapshot' = m.rate /\ stagedTick' = stagedTick
  /\ results' = results \ {m}
  /\ UNCHANGED <<rateVars, pendingVars, snapshotAcc, loopVars, liveTick, requests,
                 snapshots, retimed>>

\* A newer snapshot makes the older ones under way obsolete.  A staged rate
\* is forgotten when a snapshot shows it live.
ReceiveSnapshot(i) ==
  /\ step = Unset
  /\ liveTick' = snapshots[i].tick
  /\ stagedTick' = IF stagedTick = snapshots[i].tick THEN Unset ELSE stagedTick
  /\ stagedSnapshot' = IF stagedSnapshot = snapshots[i].snapshot THEN Unset
                                                                 ELSE stagedSnapshot
  /\ snapshots' = SubSeq(snapshots, i + 1, Len(snapshots))
  /\ UNCHANGED <<rateVars, pendingVars, snapshotAcc, loopVars, requests,
                 results, retimed>>

\* The network loses a message.
LoseMessage ==
  /\ step = Unset
  /\ \/ /\ \E m \in requests : requests' = requests \ {m}
        /\ UNCHANGED <<results, snapshots>>
     \/ /\ \E m \in results : results' = results \ {m}
        /\ UNCHANGED <<requests, snapshots>>
     \/ /\ \E i \in DOMAIN snapshots : snapshots' = RemoveAt(snapshots, i)
        /\ UNCHANGED <<requests, results>>
  /\ UNCHANGED <<rateVars, pendingVars, snapshotAcc, loopVars, hostClientVars,
                 retimed>>

-----------------------------------------------------------------------------
(* The server, between network steps. *)

\* The result is sent, or lost at once.
Answer(m, isStaged) ==
  \/ /\ Cardinality(results) < MaxInFlight
     /\ results' = results \cup {[key |-> m.key, rate |-> m.rate, staged |-> isStaged]}
  \/ results' = results

HandleSessionTickRateChange(m) ==
  /\ step = Unset
  /\ m.key = "tick"
  /\ pendingTick' = m.rate
  /\ pendingSnapshot' = pendingSnapshot
  /\ Answer(m, TRUE)
  /\ requests' = requests \ {m}
  /\ UNCHANGED <<rateVars, snapshotAcc, loopVars, hostClientVars, snapshots, retimed>>

MaxSnapshotRate == IF pendingTick = Unset THEN tickRate ELSE pendingTick

HandleSessionSnapshotRateChange(m) ==
  /\ step = Unset
  /\ m.key = "snapshot"
  /\ pendingTick' = pendingTick
  /\ \/ /\ m.rate <= MaxSnapshotRate
        /\ pendingSnapshot' = m.rate
        /\ Answer(m, TRUE)
     \/ /\ m.rate > MaxSnapshotRate
        /\ pendingSnapshot' = pendingSnapshot
        /\ Answer(m, FALSE)
  /\ requests' = requests \ {m}
  /\ UNCHANGED <<rateVars, snapshotAcc, loopVars, hostClientVars, snapshots, retimed>>

-----------------------------------------------------------------------------
(* The network step: ticks while enough time is owed. *)

BeginNetworkStep ==
  /\ step = Unset
  /\ serverAcc' = serverAcc + NetworkStep
  /\ step' = tickUs
  /\ UNCHANGED <<rateVars, pendingVars, snapshotAcc, hostClientVars, requests,
                 results, snapshots, retimed>>

EndNetworkStep ==
  /\ step # Unset
  /\ serverAcc < step
  /\ step' = Unset
  /\ UNCHANGED <<rateVars, pendingVars, snapshotAcc, serverAcc, hostClientVars,
                 requests, results, snapshots, retimed>>

\* Mutant of SnapshotDue: later than the interval.
MutSnapshotDueLate(acc) == acc > snapshotUs

SnapshotDue(acc) == acc >= snapshotUs

\* Mutant of ClampedSnapshotRate: the live snapshot rate stays as it is.
MutSnapshotRateUnclamped(newTick) == snapshotRate

\* applyTickRateHz: no more snapshots than ticks.
ClampedSnapshotRate(newTick) == MinOf(snapshotRate, newTick)

\* Mutants of CarriedOver: the interval is subtracted once more; a change of
\* rates starts the interval again.
MutCarriedOverTwice(acc) == acc - snapshotUs
MutCarriedOverRestarts(acc) == IF pendingTick = Unset THEN acc ELSE 0

CarriedOver(acc) == acc

\* applyTickRateHz, then applySnapshotRateHz.
CommitRates ==
  /\ tickRate' = IF pendingTick = Unset THEN tickRate ELSE pendingTick
  /\ tickUs' = IF pendingTick = Unset THEN tickUs ELSE IntervalUs(tickRate')
  /\ snapshotRate' =
       IF pendingSnapshot # Unset THEN MinOf(pendingSnapshot, tickRate')
       ELSE IF pendingTick # Unset THEN ClampedSnapshotRate(pendingTick)
       ELSE snapshotRate
  /\ snapshotUs' =
       IF pendingSnapshot # Unset \/ (pendingTick # Unset /\ snapshotRate > pendingTick)
         THEN IntervalUs(snapshotRate')
         ELSE snapshotUs
  /\ pendingTick' = Unset
  /\ pendingSnapshot' = Unset

\* The newest snapshots are under way; the oldest is lost for a new one.
Published(s) ==
  LET all == Append(snapshots, s)
  IN  IF Len(all) > MaxInFlight THEN Tail(all) ELSE all

\* The tick stands for the interval of the server, and the loop takes the one
\* it read before its first tick from what is owed.  Snapshots show the rates
\* that were live during the tick.
TickOnce ==
  /\ step # Unset
  /\ serverAcc >= step
  /\ serverAcc' = serverAcc - step
  /\ CommitRates
  /\ LET acc == snapshotAcc + tickUs
     IN  IF SnapshotDue(acc)
           THEN /\ snapshots' = Published([tick |-> tickRate, snapshot |-> snapshotRate])
                /\ snapshotAcc' = CarriedOver(acc % snapshotUs)
                /\ retimed' = (snapshotUs' # snapshotUs)
           ELSE /\ snapshots' = snapshots
                /\ snapshotAcc' = CarriedOver(acc)
                /\ retimed' = (retimed \/ snapshotUs' # snapshotUs)
  /\ UNCHANGED <<step, hostClientVars, requests, results>>

-----------------------------------------------------------------------------
CadenceNext ==
  \/ \E m \in RateRequest : RequestRate(m)
  \/ \E m \in results : ReceiveResult(m)
  \/ \E i \in DOMAIN snapshots : ReceiveSnapshot(i)
  \/ LoseMessage
  \/ \E m \in requests : HandleSessionTickRateChange(m)
  \/ \E m \in requests : HandleSessionSnapshotRateChange(m)
  \/ BeginNetworkStep
  \/ TickOnce
  \/ EndNetworkStep

CadenceSpec == CadenceInit /\ [][CadenceNext]_cadenceVars

\* The host's frames, and the network steps in them, go on, messages or not;
\* and of the snapshots that keep coming some arrive.
LiveSpec ==
  /\ CadenceSpec
  /\ WF_cadenceVars(BeginNetworkStep)
  /\ WF_cadenceVars(TickOnce)
  /\ WF_cadenceVars(EndNetworkStep)
  /\ SF_cadenceVars(\E i \in DOMAIN snapshots : ReceiveSnapshot(i))

-----------------------------------------------------------------------------
(* Properties. *)

\* The type invariant.
CadenceTypeOK ==
  /\ {tickRate, snapshotRate} \subseteq Rates
  /\ {tickUs, snapshotUs} \subseteq Nat \ {0}
  /\ {pendingTick, pendingSnapshot, stagedTick, stagedSnapshot} \subseteq Rates \cup {Unset}
  /\ {snapshotAcc, serverAcc, step} \subseteq Nat
  /\ liveTick \in Rates
  /\ requests \subseteq RateRequest
  /\ results \subseteq RateResult
  /\ snapshots \in Seq(CadenceInfo)
  /\ retimed \in BOOLEAN

\* In whatever order rates are staged, replaced and committed, the intervals
\* in force are those of the rates in force, and no snapshot is due more often
\* than a tick (applyTickRateHz and applySnapshotRateHz each update a part).
CadenceConsistent ==
  /\ tickUs = IntervalUs(tickRate)
  /\ snapshotUs = IntervalUs(snapshotRate)
  /\ snapshotRate <= tickRate
  /\ tickUs <= snapshotUs

\* The accumulator (snapshotAccumulatorUs_ in tickOnce) never owes two
\* snapshots at a tick, of which its modulo would drop one, unless the interval
\* has changed since the last snapshot.
NoSnapshotDropped ==
  ~retimed => snapshotAcc + tickUs < 2 * snapshotUs

\* Snapshots go on however often the host changes the rates: a commit leaves
\* what snapshotAccumulatorUs_ has gathered as it is, where one that started
\* the interval again could put every snapshot off.
SnapshotsKeepComing ==
  []<><<TickOnce /\ SnapshotDue(snapshotAcc + tickUs)>>_cadenceVars

\* What the client announces as staged, the server has staged.  (handlePacket
\* looks at applied and at the boundary of a result, and a refusal by
\* handleSessionSnapshotRateChange has both like a grant.)
AnnouncedRateWasStaged ==
  [][\A m \in results :
       ~m.staged /\ ReceiveResult(m) => UNCHANGED <<stagedTick, stagedSnapshot>>]_cadenceVars

\* When no more rates are requested, the client sees the staged one live and
\* announces it.  (applySnapshot of the client forgets a staged rate only when
\* a snapshot shows that very rate.)
StagedRateGoesLive ==
  <>[](requests = {} /\ results = {}) => <>[](stagedTick = Unset)

\* A tick stands for the time the loop takes from what is owed: simulation,
\* scheduling and metadata move to a new rate together.  (tickHostedServer
\* reads the interval once, before a loop in which tickOnce may change it.)
TicksInStep == step # Unset /\ serverAcc >= step => tickUs = step
=============================================================================
