----------------------------- MODULE Schedules -----------------------------
(***************************************************************************)
(* Bill schedules: BillScheduleService.  A customer's schedule is paused,  *)
(* resumed and cancelled by requests that read it, set `status` and        *)
(* `active` and save.  No executor exists: nothing but requests changes a  *)
(* schedule, and EXPIRED and COMPLETED are never reached.                  *)
(*                                                                         *)
(* A request that is refused before its first write changes nothing and is *)
(* not an action.                                                          *)
(***************************************************************************)
EXTENDS Editing

CONSTANT Owners         \* Keycloak ids of customers

Types == {"ONE_TIME", "RECURRING"}

(* bill_schedule; which bill, how much and when play no part in what the   *)
(* service does with it.                                                   *)
Schedule == [owner     : Owners,
             frequency : {"MONTHLY", Null},
             status    : {"ACTIVE", "PAUSED", "CANCELLED"},
             active    : BOOLEAN]

ScheduleOps == {"pause", "resume", "cancel"}
SchedulePcs == {"idle", "reload", "write"}

ASSUME SchedulesAssumption == NoRow \notin Schedule /\ Null \notin ScheduleOps \cup Ids

VARIABLE
    answered        \* history: the last request of a schedule to be answered

schedules == <<rows, pc, op, at, entity, cols, raced, answered>>

SchedulesInit == EditingInit /\ answered = [i \in Ids |-> Null]

-----------------------------------------------------------------------------
(* POST /bill-payment/schedules: RECURRING needs a frequency, ONE_TIME must*)
(* not have one.                                                           *)
CreateSchedule(i, owner, type, frequency) ==
    /\ type = "RECURRING" => frequency # Null
    /\ type = "ONE_TIME" => frequency = Null
    /\ Insert(i, [owner |-> owner, frequency |-> frequency,
                  status |-> "ACTIVE", active |-> TRUE])
    /\ UNCHANGED answered

(* assertScheduleOwnedByActor; to anybody else the schedule is not there.  *)
Owned(i, actor) == rows[i] # NoRow /\ rows[i].owner = actor

(* getOwnedSchedule, the checks on the status, and the entity to save.     *)
Change(h, o, i, actor, from, to) ==
    /\ Owned(i, actor)
    /\ rows[i].status \in from
    /\ Begin(h, o, i, [rows[i] EXCEPT !.status = to, !.active = (to = "ACTIVE")],
             "reload")
    /\ UNCHANGED answered

Pause(h, i, actor)  == Change(h, "pause", i, actor, {"ACTIVE"}, "PAUSED")
Resume_Any(h, i, actor) ==
    Change(h, "resume", i, actor, {"PAUSED", "CANCELLED"}, "ACTIVE")
ResumeSchedule(h, i, actor) == Change(h, "resume", i, actor, {"PAUSED"}, "ACTIVE")

(* TERMINAL_SCHEDULE_STATUSES are refused.                                 *)
Cancel(h, i, actor) == Change(h, "cancel", i, actor, {"ACTIVE", "PAUSED"}, "CANCELLED")

(* A save that finds nothing changed answers without an UPDATE.            *)
Answer(h) ==
    answered' = IF pc'[h] = "idle" THEN [answered EXCEPT ![at[h]] = op[h]] ELSE answered

ReloadSchedule(h) == Reload(h, "idle") /\ Answer(h)

WriteSchedule_StatusOnly(h) ==
    /\ pc[h] = "write"
    /\ rows' = [rows EXCEPT ![at[h]].status = entity[h].status]
    /\ Finish(h) /\ UNCHANGED raced
    /\ Answer(h)
WriteSchedule(h) == Write(h, "idle") /\ Answer(h)

ScheduleRejects(h) == Rejects(h) /\ UNCHANGED answered

-----------------------------------------------------------------------------
SchedulesNext ==
    \/ \E i \in Ids, a \in Owners :
          \/ \E t \in Types, f \in {"MONTHLY", Null} : CreateSchedule(i, a, t, f)
          \/ \E h \in Handlers :
                Pause(h, i, a) \/ ResumeSchedule(h, i, a) \/ Cancel(h, i, a)
    \/ \E h \in Handlers : ReloadSchedule(h) \/ WriteSchedule(h) \/ ScheduleRejects(h)

SchedulesSpec == SchedulesInit /\ [][SchedulesNext]_schedules

-----------------------------------------------------------------------------
(* Every variable holds what its column, or its local, may hold.           *)
SchedulesOK ==
    /\ EditingOK(Schedule, ScheduleOps, SchedulePcs)
    /\ answered \in [Ids -> ScheduleOps \cup {Null}]

Outcome(o) == CASE o = "pause" -> "PAUSED" [] o = "cancel" -> "CANCELLED"
                [] OTHER -> "ACTIVE"

(* What the customer was told last is what the schedule shows, in `status` *)
(* (which the list of upcoming schedules goes by) and in `active`, unless  *)
(* requests for it overlap: a request that failed has left no trace.       *)
LastAnswerStands ==
    \A i \in Ids \ raced : rows[i] # NoRow =>
        /\ rows[i].status = Outcome(answered[i])
        /\ rows[i].active <=> rows[i].status = "ACTIVE"

(* The documented transitions of a schedule.                               *)
Legal == {<<"ACTIVE", "PAUSED">>, <<"PAUSED", "ACTIVE">>,
          <<"ACTIVE", "CANCELLED">>, <<"PAUSED", "CANCELLED">>}

(* "ACTIVE -> PAUSED", "PAUSED -> ACTIVE", "ACTIVE or PAUSED -> CANCELLED" *)
(* and nothing else, CANCELLED least of all, unless requests overlap.      *)
LifecycleKept ==
    [][\A i \in Ids \ raced' : rows[i] # NoRow /\ rows'[i] # rows[i] =>
          /\ <<rows[i].status, rows'[i].status>> \in Legal
          /\ rows'[i].owner = rows[i].owner /\ rows'[i].frequency = rows[i].frequency
      ]_schedules

=============================================================================
