----------------------------- MODULE CrashPolicy -----------------------------
(***************************************************************************)
(* When the supervisor gives up on a crashing node: record_crash of        *)
(* daemon/supervisor.rs over a clock, and the backoff of monitor_node.     *)
(***************************************************************************)
EXTENDS Naturals, Sequences

CONSTANTS
    MaxCrashes,   \* MAX_CRASHES_BEFORE_ERRORED
    CrashWindow,  \* CRASH_WINDOW
    Stable,       \* STABLE_DURATION
    MaxBackoff,   \* MAX_BACKOFF
    Horizon,      \* last instant of the clock (bound)
    None          \* Option::None

ASSUME PolicyAssumption ==
    /\ MaxCrashes \in Nat \ {0} /\ CrashWindow \in Nat \ {0}
    /\ Stable \in Nat \ {0} /\ MaxBackoff \in Nat \ {0} /\ Horizon \in Nat
ASSUME NoneIsNoTime == None \notin Nat

VARIABLES
    now,             \* the clock
    crash_status,    \* running, backoff, errored
    started_at,      \* start of the current process, or None
    restart_count,
    first_crash_at,  \* or None
    backoff,         \* delay of the pending restart
    wake,            \* when the pending restart is due
    crashes          \* times of all crashes (history)

policyVars == <<now, crash_status, started_at, restart_count, first_crash_at, backoff,
                wake, crashes>>

Time == 0..Horizon

PolicyTypeOK ==
    /\ now \in Time
    /\ crash_status \in {"running", "backoff", "errored"}
    /\ started_at \in Time \cup {None}
    /\ restart_count \in Nat
    /\ first_crash_at \in Time \cup {None}
    /\ backoff \in 0..MaxBackoff
    /\ wake \in Nat
    /\ crashes \in Seq(Time)

\* start_node
PolicyInit ==
    /\ now = 0
    /\ crash_status = "running"
    /\ started_at = 0
    /\ restart_count = 0
    /\ first_crash_at = None
    /\ backoff = 0
    /\ wake = 0
    /\ crashes = << >>

AtMost(x, y) == IF x <= y THEN x ELSE y

\* 1u64 << (attempt - 1).min(5), at most MAX_BACKOFF.
Backoff(attempt) == AtMost(2 ^ AtMost(attempt - 1, 5), MaxBackoff)

WasStable == started_at # None /\ now - started_at >= Stable

\* Mutant: the window is not looked at.
GivesUpAnyTime(attempt, first) == attempt >= MaxCrashes

GivesUp(attempt, first) == attempt >= MaxCrashes /\ now - first < CrashWindow

\* The process crashes: record_crash.
Crash ==
    LET attempt == IF WasStable THEN 1 ELSE restart_count + 1
        first == IF WasStable \/ first_crash_at = None THEN now ELSE first_crash_at
    IN  /\ crash_status = "running"
        /\ restart_count' = attempt
        /\ first_crash_at' = first
        /\ crashes' = Append(crashes, now)
        /\ \/ /\ GivesUp(attempt, first)
              /\ crash_status' = "errored"
              /\ started_at' = None
              /\ UNCHANGED <<backoff, wake>>
           \/ /\ ~GivesUp(attempt, first)
              /\ crash_status' = "backoff"
              /\ backoff' = Backoff(attempt)
              /\ wake' = now + Backoff(attempt)
              /\ UNCHANGED started_at
        /\ UNCHANGED now

\* monitor_node after the sleep: spawn and update_state(Running).
Respawn ==
    /\ crash_status = "backoff" /\ now >= wake
    /\ crash_status' = "running"
    /\ started_at' = now
    /\ UNCHANGED <<now, restart_count, first_crash_at, backoff, wake, crashes>>

Tick ==
    /\ now < Horizon
    /\ now' = now + 1
    /\ UNCHANGED <<crash_status, started_at, restart_count, first_crash_at, backoff,
                   wake, crashes>>

PolicyNext == Crash \/ Respawn \/ Tick

PolicySpec == PolicyInit /\ [][PolicyNext]_policyVars
-----------------------------------------------------------------------------
\* The last MaxCrashes crashes happened within the window.
Burst ==
    /\ Len(crashes) >= MaxCrashes
    /\ crashes[Len(crashes)] - crashes[Len(crashes) - MaxCrashes + 1] < CrashWindow

\* A node is given up only after a burst: crashes that are spread out, or
\* separated by a stable run, never add up.
ErroredOnlyAfterBurst == crash_status = "errored" => Burst

=============================================================================
