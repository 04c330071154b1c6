----------------------------- MODULE WallClock -----------------------------
(***************************************************************************)
(* The pace of a rollout (event_loop.py, WallClockPacer): the first event  *)
(* that is popped ties simulation time to the wall clock; before each      *)
(* later one the loop sleeps until the wall clock has come as far, and     *)
(* events that find it beyond only leave their lag.                        *)
(***************************************************************************)
EXTENDS Integers, Sequences, SequencesExt

CONSTANTS
  RealtimeFactors,   \* realtime_factor: 0 for no pace; they divide the gaps of SimTimes
  SimTimes,          \* the timestamps of events
  Costs,             \* wall time that an event's handler may take
  Oversleep,         \* asyncio.sleep may end that much late
  MaxEvents          \* bound: events of a rollout

ASSUME WallClockAssumption ==
  /\ RealtimeFactors \cup SimTimes \cup Costs \cup {Oversleep, MaxEvents} \subseteq Nat

VARIABLES
  factor,         \* realtime_factor
  uptime,      \* time.monotonic()
  anchor,         \* <<simulation_start_us, wall_start_seconds>>, or <<>>
  totalSleep,     \* total_sleep_seconds
  maximumLag,     \* maximum_lag_seconds
  sleeping,       \* the event the loop sleeps for: <<its time, until>>, or <<>>
  begun           \* history: of each event its time, when its handler began, whether it slept

pacerVars == <<factor, uptime, anchor, totalSleep, maximumLag, sleeping, begun>>

PacerInit ==
  /\ factor \in RealtimeFactors /\ uptime = 0 /\ anchor = <<>>
  /\ totalSleep = 0 /\ maximumLag = 0 /\ sleeping = <<>> /\ begun = <<>>

\* The loop's handling of an event that begins at a time of the wall clock.
Handle(t, start, slept) ==
  /\ begun' = Append(begun, [sim |-> t, wall |-> start, slept |-> slept])
  /\ \E cost \in Costs : uptime' = start + cost

\* The queue gives the events in the order of their times.
MayPop(t) ==
  /\ sleeping = <<>> /\ Len(begun) < MaxEvents
  /\ begun # <<>> => t >= Last(begun).sim

\* wait_until without a pace.
Unpaced(t) ==
  /\ MayPop(t) /\ factor = 0 /\ Handle(t, uptime, FALSE)
  /\ UNCHANGED <<factor, anchor, totalSleep, maximumLag, sleeping>>

\* The first event.
SetAnchor(t) ==
  /\ MayPop(t) /\ factor > 0 /\ anchor = <<>> /\ anchor' = <<t, uptime>>
  /\ Handle(t, uptime, FALSE)
  /\ UNCHANGED <<factor, totalSleep, maximumLag, sleeping>>

\* sleep_seconds: how far the wall clock is behind the simulation's time.
SleepFor(t) == (t - anchor[1]) \div factor - (uptime - anchor[2])

\* The wall clock is behind: the loop sleeps.
BeginSleep(t) ==
  /\ MayPop(t) /\ factor > 0 /\ anchor # <<>> /\ SleepFor(t) > 0
  /\ sleeping' = <<t, uptime + SleepFor(t)>>
  /\ UNCHANGED <<factor, uptime, anchor, totalSleep, maximumLag, begun>>

\* The sleep ends, on time or late.
EndSleep ==
  /\ sleeping # <<>> /\ sleeping' = <<>>
  /\ totalSleep' = totalSleep + sleeping[2] - uptime
  /\ \E late \in 0 .. Oversleep : Handle(sleeping[1], sleeping[2] + late, TRUE)
  /\ UNCHANGED <<factor, anchor, maximumLag>>

\* Mutant: after a lag the pace starts over.
LagStartsOver(t) ==
  /\ MayPop(t) /\ factor > 0 /\ anchor # <<>> /\ SleepFor(t) <= 0
  /\ maximumLag' = IF -SleepFor(t) > maximumLag THEN -SleepFor(t) ELSE maximumLag
  /\ anchor' = <<t, uptime>> /\ Handle(t, uptime, FALSE)
  /\ UNCHANGED <<factor, totalSleep, sleeping>>

\* The wall clock is there or beyond.
Lag(t) ==
  /\ MayPop(t) /\ factor > 0 /\ anchor # <<>> /\ SleepFor(t) <= 0
  /\ maximumLag' = IF -SleepFor(t) > maximumLag THEN -SleepFor(t) ELSE maximumLag
  /\ Handle(t, uptime, FALSE)
  /\ UNCHANGED <<factor, anchor, totalSleep, sleeping>>

PacerNext == EndSleep \/ \E t \in SimTimes : Unpaced(t) \/ SetAnchor(t) \/ BeginSleep(t) \/ Lag(t)

PacerSpec == PacerInit /\ [][PacerNext]_pacerVars
----------------------------------------------------------------------------
(* With a pace no handler begins before the wall clock has come as far from  *)
(* the first event as the simulation has, and a slow handler delays nothing  *)
(* for good: an event that was slept for begins on time but for the sleep's  *)
(* own delay, however far behind the loop was before, and none is later than *)
(* the lag that is reported.                                                 *)
EventsPaced ==
  factor > 0 =>
    \A k \in DOMAIN begun :
      LET due  == begun[1].wall + (begun[k].sim - begun[1].sim) \div factor
          late == begun[k].wall - due
      IN  /\ 0 <= late
          /\ late <= IF begun[k].slept THEN Oversleep ELSE maximumLag
=============================================================================
