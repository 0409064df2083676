-------------------------------- MODULE Otp --------------------------------
(***************************************************************************)
(* One-time passwords: OtpService.  `verify` counts wrong codes, locks the *)
(* challenge once they reach OTP_MAX_ATTEMPTS and soft-deletes it on the   *)
(* right one; RegistrationService.verifyOtp goes on where it answers.      *)
(*                                                                         *)
(* A request that is refused before its first write changes nothing and is *)
(* not an action.  Whether a code is right is an input.                    *)
(***************************************************************************)
EXTENDS Naturals, Editing

CONSTANTS
    MaxAttempts,    \* OTP_MAX_ATTEMPTS
    LockTime,       \* OTP_LOCK_MINUTES, in ticks
    Ttl,            \* OTP_TTL_SECONDS, in ticks
    MaxTime,        \* bound: the clock
    MaxGuesses      \* bound: wrong codes per challenge

(* otp_challenge, without the number and the hash: a challenge is known by *)
(* its id and nothing compares the number with anything.                   *)
Challenge == [attemptCount : Nat,
              lockedUntil  : Nat \cup {Null},
              expiresAt    : Nat,
              deleted      : BOOLEAN]

Ops == {"verify", "delete"}
Pcs == {"idle", "reload", "write", "softDelete"}

ASSUME OtpAssumption ==
    /\ MaxAttempts \in Nat \ {0}
    /\ {LockTime, Ttl, MaxTime, MaxGuesses} \subseteq Nat
    /\ NoRow \notin Challenge
    /\ Null \notin Nat \cup Ids \cup Ops

VARIABLES
    now,            \* Date.now()
    wrong,          \* history: wrong codes evaluated, per challenge
    lost,           \* history: those whose save rejected
    accepted        \* history: how often verify answered verified: true

counts == <<wrong, lost, accepted>>
vars   == <<rows, pc, op, at, entity, cols, raced, now, wrong, lost, accepted>>

Init ==
    /\ EditingInit
    /\ now = 0
    /\ wrong = [c \in Ids |-> 0]
    /\ lost = [c \in Ids |-> 0]
    /\ accepted = [c \in Ids |-> 0]

(* isExpired: a moment is not expired in its own tick.                     *)
Expired(t) == t < now

Locked_Never(row) == FALSE
Locked(row) == row.lockedUntil # Null /\ ~Expired(row.lockedUntil)

(* The entity a wrong code leaves for save().                              *)
Failed_OneEarly(row) ==
    [row EXCEPT !.attemptCount = @ + 1,
                !.lockedUntil = IF row.attemptCount + 2 >= MaxAttempts
                                THEN now + LockTime ELSE @]
Failed(row) ==
    [row EXCEPT !.attemptCount = @ + 1,
                !.lockedUntil = IF row.attemptCount + 1 >= MaxAttempts
                                THEN now + LockTime ELSE @]

-----------------------------------------------------------------------------
(* POST /auth/otp/create.                                                  *)
Create(c) ==
    /\ Insert(c, [attemptCount |-> 0, lockedUntil |-> Null,
                  expiresAt |-> now + Ttl, deleted |-> FALSE])
    /\ UNCHANGED <<now, counts>>

(* verify has found the challenge live, unlocked and in time.              *)
Verifiable(c) == Live(c) /\ ~Locked(rows[c]) /\ ~Expired(rows[c].expiresAt)

(* ... and the code is wrong: count it, save, refuse.                      *)
VerifyWrong(h, c) ==
    /\ Verifiable(c) /\ wrong[c] < MaxGuesses
    /\ Begin(h, "verify", c, Failed(rows[c]), "reload")
    /\ wrong' = [wrong EXCEPT ![c] = @ + 1]
    /\ UNCHANGED <<now, lost, accepted>>

SaveReload(h) == Reload(h, "idle") /\ UNCHANGED <<now, counts>>
SaveWrite(h)  == Write(h, "idle") /\ UNCHANGED <<now, counts>>

(* ... and the code is right: soft-delete, accept.                         *)
VerifyRight(h, c) ==
    /\ Verifiable(c) /\ accepted[c] < MaxGuesses
    /\ Begin(h, "verify", c, rows[c], "softDelete")
    /\ UNCHANGED <<now, counts>>

Consume_Kept(h) ==
    /\ pc[h] = "softDelete"
    /\ Finish(h)
    /\ accepted' = [accepted EXCEPT ![at[h]] = @ + (IF op[h] = "verify" THEN 1 ELSE 0)]
    /\ UNCHANGED <<rows, raced, now, wrong, lost>>
Consume(h) ==
    /\ SoftDelete(h)
    /\ accepted' = [accepted EXCEPT ![at[h]] = @ + (IF op[h] = "verify" THEN 1 ELSE 0)]
    /\ UNCHANGED <<now, wrong, lost>>

(* POST /auth/otp/delete.                                                  *)
Delete(h, c) ==
    /\ Live(c)
    /\ Begin(h, "delete", c, rows[c], "softDelete")
    /\ UNCHANGED <<now, counts>>

AwaitRejects(h) ==
    /\ Rejects(h)
    /\ lost' = IF pc[h] = "softDelete" THEN lost
               ELSE [lost EXCEPT ![at[h]] = @ + 1]
    /\ UNCHANGED <<now, wrong, accepted>>

Tick ==
    /\ now < MaxTime
    /\ now' = now + 1
    /\ UNCHANGED <<editing, counts>>

-----------------------------------------------------------------------------
Next ==
    \/ \E c \in Ids :
          \/ Create(c)
          \/ \E h \in Handlers : VerifyWrong(h, c) \/ VerifyRight(h, c) \/ Delete(h, c)
    \/ \E h \in Handlers : \/ SaveReload(h) \/ SaveWrite(h) \/ Consume(h)
                           \/ AwaitRejects(h)
    \/ Tick

Spec == Init /\ [][Next]_vars

-----------------------------------------------------------------------------
(* Every variable holds what its column, or its local, may hold.           *)
TypeOK ==
    /\ EditingOK(Challenge, Ops, Pcs)
    /\ now \in Nat
    /\ {wrong, lost, accepted} \subseteq [Ids -> Nat]

(* "locking the challenge ... once hit": however wrong codes, saves of     *)
(* stale copies and failures interleave, a challenge is only locked when   *)
(* OTP_MAX_ATTEMPTS wrong codes have been sent, and never shows more       *)
(* attempts than were made.                                                *)
LockIsEarned ==
    \A c \in Ids : rows[c] # NoRow =>
        /\ rows[c].attemptCount <= wrong[c]
        /\ rows[c].lockedUntil # Null => wrong[c] >= MaxAttempts

(* "One-shot verification ... so it can't be replayed": unless requests    *)
(* for it overlap, a challenge is accepted once.                           *)
OneShot == \A c \in Ids : c \notin raced => accepted[c] <= 1

(* "wrong codes count toward OTP_MAX_ATTEMPTS": unless requests for it     *)
(* overlap, a challenge evaluates that many wrong codes, one more for each *)
(* lock that ends within its lifetime, and those whose save failed.        *)
GuessesBounded ==
    \A c \in Ids : c \notin raced =>
        wrong[c] - lost[c] <= MaxAttempts + Ttl \div (LockTime + 1)

=============================================================================
