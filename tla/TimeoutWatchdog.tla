--------------------------- MODULE TimeoutWatchdog ---------------------------
(***************************************************************************)
(* TimeoutWatchdog: one deadline per CmdId.  The steady clock is modelled  *)
(* by what is left until the deadline, in seconds: `left' counts down to 0 *)
(* and stays there, which is now >= deadline.  The CmdId is the whole key: *)
(* the summon upload and the platform push share the table.  Both          *)
(* orchestrators pass config_.timeoutSec, so the copy the entry keeps is   *)
(* the constant TimeoutSec.                                                *)
(***************************************************************************)
EXTENDS Naturals, KeyedRecords

CONSTANT TimeoutSec

ASSUME TimeoutSecAssumption == TimeoutSec \in Nat

VARIABLE timers    \* entries_

Timer(CmdIds) == [cmdId : CmdIds, left : 0..TimeoutSec]

Arm(T, c) == Put(T, [cmdId |-> c, left |-> TimeoutSec])

\* Only an entry that is still in the table gets a new deadline; one that has
\* run out but was not yet collected by tick does, too.
Reset(T, c) == IF c \in Ids(T) THEN Arm(T, c) ELSE T

\* Fault: the timer survives the session it guards.
DisarmForgotten(T, c) == T

Disarm(T, c) == Without(T, c)

\* One second of the steady clock.
Countdown(T) == {[e EXCEPT !.left = IF @ = 0 THEN 0 ELSE @ - 1] : e \in T}

Expired(T) == {e.cmdId : e \in {d \in T : d.left = 0}}

\* tick: the entries it collects are erased before any callback runs.
Unexpired(T) == {e \in T : e.left # 0}
=============================================================================
