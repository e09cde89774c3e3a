------------------------------ MODULE AuthStore ------------------------------
(***************************************************************************)
(* The PIN and session store (src/backend/auth.go).                        *)
(*                                                                         *)
(* One process owns the owner PIN, the guest PIN, the session table and    *)
(* the failed-attempt counter, all behind one mutex, and mirrors the PINs  *)
(* to pin.json and the sessions to sessions.json.  Every operation first   *)
(* changes memory, then writes one or both files; the mutex is held until  *)
(* the last write returns.  `phase` is the file being written ("none" when *)
(* the mutex is free) and `op` the operation that holds it, so a write     *)
(* that fails and a crash can fall between any two of those steps.         *)
(*                                                                         *)
(* A salted hash is represented by the PIN it was made from: verifyPIN     *)
(* compares the two.  A refused call (wrong PIN to ChangePIN, PIN already  *)
(* set, ...) changes nothing and is a stuttering step.                     *)
(***************************************************************************)
EXTENDS Naturals, Sequences

CONSTANTS
    PINs,               \* the 4-8 digit PINs a client may submit
    Users,              \* ids of registered accounts
    Tokens,             \* session tokens: randomToken never repeats one
    NoPIN, NoSession,   \* the nil *pinRecord, and a token not in the map
    NoUser,             \* the empty UserID of owner and guest sessions
    Torn,               \* a file a failed or interrupted write left unparsable
    maxFailedAttempts, lockoutDuration, sessionTTL,
    MaxTime, MaxFaults, MaxCrashes   \* bounds: clock, failed writes, crashes

ASSUME ConstantsAssumption ==
    /\ NoPIN \notin PINs
    /\ NoUser \notin Users
    /\ maxFailedAttempts \in Nat \ {0}
    /\ lockoutDuration \in Nat \ {0}
    /\ sessionTTL \in Nat \ {0}
    /\ MaxTime \in Nat /\ MaxFaults \in Nat /\ MaxCrashes \in Nat

Roles == {"owner", "guest", "user"}
Session == [role : Roles, user : Users \cup {NoUser}, expires : Nat]
SessionTable == [Tokens -> Session \cup {NoSession}]
PINFile == [pin : PINs \cup {NoPIN}, guest : PINs \cup {NoPIN}]

ASSUME SentinelsAssumption ==
    /\ NoSession \notin Session
    /\ Torn \notin SessionTable
    /\ Torn \notin PINFile

NoSessions == [t \in Tokens |-> NoSession]
NoPINs == [pin |-> NoPIN, guest |-> NoPIN]
OpNames == {"none", "SetupPIN", "EnablePIN", "ChangePIN", "SetGuestPIN",
            "RemoveGuestPIN", "Login", "CreateUserSession", "Logout",
            "PruneExpiredSessions"}
Idle == [name |-> "none", tokens |-> {}]

VARIABLES
    up,              \* the server process is running
    pin, guestPin,   \* memory: the two PIN records
    sessions,        \* memory: the session table
    failedAttempts, lockedUntil,   \* memory only
    pinFile,         \* pin.json
    sessionsFile,    \* sessions.json (absent and empty both load as no sessions)
    phase,           \* the file being written under the mutex
    op,              \* the operation holding the mutex, and the tokens it is about
    now,             \* the wall clock
    faults, crashes, \* how many of each have happened
    \* what clients and an observer know
    used,            \* tokens randomToken has returned
    issued,          \* what a client was given: the session behind each token
    revoked,         \* tokens whose removal was reported as done
    pinAcked,        \* a client was told that the owner PIN is set
    degraded,        \* a write has failed, or a crash hit an operation
    wrongAt          \* when the last wrong PINs were rejected, since the last
                     \* successful login or start

memory == <<pin, guestPin, sessions, failedAttempts, lockedUntil>>
disk == <<pinFile, sessionsFile>>
mutex == <<phase, op>>
ghosts == <<used, issued, revoked, pinAcked, degraded, wrongAt>>
bounds == <<faults, crashes>>
vars == <<up, memory, disk, mutex, now, bounds, ghosts>>

TypeOK ==
    /\ up \in BOOLEAN
    /\ pin \in PINs \cup {NoPIN} /\ guestPin \in PINs \cup {NoPIN}
    /\ sessions \in SessionTable
    /\ failedAttempts \in 0 .. maxFailedAttempts - 1
    /\ lockedUntil \in Nat
    /\ pinFile \in PINFile \cup {Torn}
    /\ sessionsFile \in SessionTable \cup {Torn}
    /\ phase \in {"none", "pin", "sessions"}
    /\ op \in [name : OpNames, tokens : SUBSET Tokens]
    /\ now \in Nat /\ faults \in Nat /\ crashes \in Nat
    /\ used \subseteq Tokens /\ revoked \subseteq Tokens
    /\ issued \in SessionTable
    /\ pinAcked \in BOOLEAN /\ degraded \in BOOLEAN
    /\ wrongAt \in Seq(Nat)

Init ==
    /\ up = TRUE
    /\ pin = NoPIN /\ guestPin = NoPIN /\ sessions = NoSessions
    /\ failedAttempts = 0 /\ lockedUntil = 0
    /\ pinFile = NoPINs /\ sessionsFile = NoSessions
    /\ phase = "none" /\ op = Idle
    /\ now = 0 /\ faults = 0 /\ crashes = 0
    /\ used = {} /\ issued = NoSessions /\ revoked = {}
    /\ pinAcked = FALSE /\ degraded = FALSE /\ wrongAt = <<>>

-----------------------------------------------------------------------------
(* Helpers                                                                 *)

\* The mutex is free: an operation may start.
Ready == up /\ phase = "none"

IsPINSet == pin # NoPIN
IsGuestPINSet == guestPin # NoPIN
verifyPIN(rec, p) == rec # NoPIN /\ rec = p

Live(t) == sessions[t] # NoSession

\* ValidateSession: found, and strictly before its expiry.
ValidSession(t) == Live(t) /\ now < sessions[t].expires

\* The table without the tokens of S.
Without(table, S) == [t \in Tokens |-> IF t \in S THEN NoSession ELSE table[t]]

GuestTokens == {t \in Tokens : Live(t) /\ sessions[t].role = "guest"}

\* Mutant: the comparison the other way round.
ExpiredSwapped == {t \in Tokens : Live(t) /\ now < sessions[t].expires}

Expired == {t \in Tokens : Live(t) /\ now > sessions[t].expires}

\* An operation takes the mutex and begins to write `file`.
Start(name, tokens, file) ==
    /\ op' = [name |-> name, tokens |-> tokens]
    /\ phase' = file

\* The memory half of createSessionLocked: a fresh token enters the table.
AddSession(name, t, role, user) ==
    /\ t \in Tokens \ used
    /\ used' = used \cup {t}
    /\ sessions' = [sessions EXCEPT
           ![t] = [role |-> role, user |-> user, expires |-> now + sessionTTL]]
    /\ Start(name, {t}, "sessions")

-----------------------------------------------------------------------------
(* The operations, up to their first write                                 *)

\* SetupPIN, called by HandleSetup ("SetupPIN") or by HandleEnablePIN
\* ("EnablePIN"), which throws the new owner token away.
SetupPIN(name, p) ==
    /\ Ready /\ ~IsPINSet /\ used # Tokens
    /\ pin' = p
    /\ Start(name, {}, "pin")
    /\ UNCHANGED <<up, guestPin, sessions, failedAttempts, lockedUntil, disk,
                   now, bounds, ghosts>>

ChangePIN(currentPIN, newPIN) ==
    /\ Ready /\ verifyPIN(pin, currentPIN)
    /\ pin' = newPIN
    /\ Start("ChangePIN", {}, "pin")
    /\ UNCHANGED <<up, guestPin, sessions, failedAttempts, lockedUntil, disk,
                   now, bounds, ghosts>>

SetGuestPIN(ownerPIN, p) ==
    /\ Ready /\ verifyPIN(pin, ownerPIN)
    /\ guestPin' = p
    /\ Start("SetGuestPIN", {}, "pin")
    /\ UNCHANGED <<up, pin, sessions, failedAttempts, lockedUntil, disk,
                   now, bounds, ghosts>>

\* Mutant: the PIN is removed and the sessions it opened are forgotten.
RemoveGuestPINOnly(ownerPIN) ==
    /\ Ready /\ verifyPIN(pin, ownerPIN) /\ IsGuestPINSet
    /\ guestPin' = NoPIN
    /\ Start("RemoveGuestPIN", GuestTokens, "pin")
    /\ UNCHANGED <<up, pin, sessions, failedAttempts, lockedUntil, disk, now,
                   bounds, ghosts>>

RemoveGuestPIN(ownerPIN) ==
    /\ Ready /\ verifyPIN(pin, ownerPIN) /\ IsGuestPINSet
    /\ guestPin' = NoPIN
    /\ sessions' = Without(sessions, GuestTokens)
    /\ Start("RemoveGuestPIN", GuestTokens, "pin")
    /\ UNCHANGED <<up, pin, failedAttempts, lockedUntil, disk, now, bounds, ghosts>>

\* The role a submitted PIN earns: the owner's is tried first.
LoginRole(p) ==
    IF verifyPIN(pin, p) THEN "owner"
    ELSE IF verifyPIN(guestPin, p) THEN "guest" ELSE "none"

LoginOK(p, t) ==
    /\ Ready /\ IsPINSet /\ now >= lockedUntil
    /\ LoginRole(p) # "none"
    /\ failedAttempts' = 0
    /\ wrongAt' = <<>>
    /\ AddSession("Login", t, LoginRole(p), NoUser)
    /\ UNCHANGED <<up, pin, guestPin, lockedUntil, disk, now, bounds,
                   issued, revoked, pinAcked, degraded>>

\* Keep the times of the last maxFailedAttempts + 1 rejections.
Remember(times, time) ==
    IF Len(times) <= maxFailedAttempts THEN Append(times, time)
    ELSE Append(Tail(times), time)

\* Mutant: > for >=, one guess more before the lock.
LoginWrongOneMore(p) ==
    /\ Ready /\ IsPINSet /\ now >= lockedUntil
    /\ LoginRole(p) = "none"
    /\ IF failedAttempts + 1 > maxFailedAttempts
         THEN failedAttempts' = 0 /\ lockedUntil' = now + lockoutDuration
         ELSE failedAttempts' = failedAttempts + 1 /\ UNCHANGED lockedUntil
    /\ wrongAt' = Remember(wrongAt, now)
    /\ UNCHANGED <<up, pin, guestPin, sessions, disk, mutex, now, bounds,
                   used, issued, revoked, pinAcked, degraded>>

LoginWrong(p) ==
    /\ Ready /\ IsPINSet /\ now >= lockedUntil
    /\ LoginRole(p) = "none"
    /\ IF failedAttempts + 1 >= maxFailedAttempts
         THEN failedAttempts' = 0 /\ lockedUntil' = now + lockoutDuration
         ELSE failedAttempts' = failedAttempts + 1 /\ UNCHANGED lockedUntil
    /\ wrongAt' = Remember(wrongAt, now)
    /\ UNCHANGED <<up, pin, guestPin, sessions, disk, mutex, now, bounds,
                   used, issued, revoked, pinAcked, degraded>>

CreateUserSession(u, t) ==
    /\ Ready
    /\ AddSession("CreateUserSession", t, "user", u)
    /\ UNCHANGED <<up, pin, guestPin, failedAttempts, lockedUntil, disk, now,
                   bounds, issued, revoked, pinAcked, degraded, wrongAt>>

\* Mutant: the session is dropped from memory only.
LogoutInMemory(t) ==
    /\ Ready /\ t \in used
    /\ sessions' = Without(sessions, {t})
    /\ UNCHANGED <<up, pin, guestPin, failedAttempts, lockedUntil, disk, mutex,
                   now, bounds, ghosts>>

Logout(t) ==
    /\ Ready /\ t \in used
    /\ sessions' = Without(sessions, {t})
    /\ Start("Logout", {t}, "sessions")
    /\ UNCHANGED <<up, pin, guestPin, failedAttempts, lockedUntil, disk, now,
                   bounds, ghosts>>

\* Mutant: only the sessions of guests are swept.
PruneExpiredGuests ==
    /\ Ready /\ Expired \cap GuestTokens # {}
    /\ sessions' = Without(sessions, Expired \cap GuestTokens)
    /\ Start("PruneExpiredSessions", Expired \cap GuestTokens, "sessions")
    /\ UNCHANGED <<up, pin, guestPin, failedAttempts, lockedUntil, disk, now,
                   bounds, ghosts>>

\* The hourly ticker; it writes only when it removed something.
PruneExpiredSessions ==
    /\ Ready /\ Expired # {}
    /\ sessions' = Without(sessions, Expired)
    /\ Start("PruneExpiredSessions", Expired, "sessions")
    /\ UNCHANGED <<up, pin, guestPin, failedAttempts, lockedUntil, disk, now,
                   bounds, ghosts>>

-----------------------------------------------------------------------------
(* The writes                                                              *)

MemoryPINs == [pin |-> pin, guest |-> guestPin]

\* The operation returns nil: its caller, and the client behind it, know.
Acknowledge ==
    /\ phase' = "none" /\ op' = Idle
    /\ issued' = IF op.name \in {"SetupPIN", "Login", "CreateUserSession"}
                   THEN [t \in Tokens |-> IF t \in op.tokens THEN sessions[t]
                                                             ELSE issued[t]]
                   ELSE issued
    /\ revoked' = IF op.name \in {"Logout", "RemoveGuestPIN"}
                    THEN revoked \cup op.tokens ELSE revoked
    /\ pinAcked' = (pinAcked \/ op.name \in {"SetupPIN", "EnablePIN"})

\* Mutant: RemoveGuestPIN returns without rewriting sessions.json.
PINWrittenOnly ==
    /\ up /\ phase = "pin"
    /\ pinFile' = MemoryPINs
    /\ \/ /\ op.name \in {"SetupPIN", "EnablePIN"}
          /\ \E t \in Tokens : AddSession(op.name, t, "owner", NoUser)
          /\ UNCHANGED <<issued, revoked, pinAcked>>
       \/ /\ op.name \in {"ChangePIN", "SetGuestPIN", "RemoveGuestPIN"}
          /\ Acknowledge
          /\ UNCHANGED <<sessions, used>>
    /\ UNCHANGED <<up, pin, guestPin, failedAttempts, lockedUntil, sessionsFile,
                   now, bounds, degraded, wrongAt>>

\* persistPINLocked succeeds, and the operation goes on to what follows it.
PINWritten ==
    /\ up /\ phase = "pin"
    /\ pinFile' = MemoryPINs
    /\ \/ /\ op.name \in {"SetupPIN", "EnablePIN"}
          /\ \E t \in Tokens : AddSession(op.name, t, "owner", NoUser)
          /\ UNCHANGED <<issued, revoked, pinAcked>>
       \/ /\ op.name = "RemoveGuestPIN"
          /\ phase' = "sessions"
          /\ UNCHANGED <<op, sessions, used, issued, revoked, pinAcked>>
       \/ /\ op.name \in {"ChangePIN", "SetGuestPIN"}
          /\ Acknowledge
          /\ UNCHANGED <<sessions, used>>
    /\ UNCHANGED <<up, pin, guestPin, failedAttempts, lockedUntil, sessionsFile,
                   now, bounds, degraded, wrongAt>>

SessionsWritten ==
    /\ up /\ phase = "sessions"
    /\ sessionsFile' = sessions
    /\ Acknowledge
    /\ UNCHANGED <<up, memory, pinFile, now, bounds, used, degraded, wrongAt>>

\* What a write that does not complete leaves: the old file (open failed), or
\* a truncated one.  A sessions.json truncated to nothing loads as empty.
InterruptedPINFile == {pinFile, Torn}
InterruptedSessionsFile == {sessionsFile, NoSessions, Torn}

\* os.WriteFile returns an error: the operation stops there and reports it,
\* and memory keeps what the operation has changed.
WriteFails ==
    /\ up /\ phase # "none" /\ faults < MaxFaults
    /\ \/ phase = "pin" /\ pinFile' \in InterruptedPINFile /\ UNCHANGED sessionsFile
       \/ phase = "sessions" /\ sessionsFile' \in InterruptedSessionsFile
                             /\ UNCHANGED pinFile
    /\ phase' = "none" /\ op' = Idle
    /\ degraded' = TRUE
    /\ faults' = faults + 1
    /\ UNCHANGED <<up, memory, now, crashes, used, issued, revoked, pinAcked, wrongAt>>

-----------------------------------------------------------------------------
(* The process                                                             *)

Crash ==
    /\ up /\ crashes < MaxCrashes
    /\ up' = FALSE
    /\ crashes' = crashes + 1
    /\ pin' = NoPIN /\ guestPin' = NoPIN /\ sessions' = NoSessions
    /\ failedAttempts' = 0 /\ lockedUntil' = 0 /\ wrongAt' = <<>>
    /\ IF phase = "pin" THEN pinFile' \in InterruptedPINFile ELSE UNCHANGED pinFile
    /\ IF phase = "sessions" THEN sessionsFile' \in InterruptedSessionsFile
                             ELSE UNCHANGED sessionsFile
    /\ phase' = "none" /\ op' = Idle
    /\ degraded' = (degraded \/ phase # "none")
    /\ UNCHANGED <<now, faults, used, issued, revoked, pinAcked>>

\* Mutant: a pin.json that cannot be parsed counts as "no PIN yet".
RestartWithoutPIN ==
    /\ ~up /\ sessionsFile # Torn
    /\ up' = TRUE
    /\ pin' = (IF pinFile = Torn THEN NoPIN ELSE pinFile.pin)
    /\ guestPin' = (IF pinFile = Torn THEN NoPIN ELSE pinFile.guest)
    /\ sessions' = sessionsFile
    /\ UNCHANGED <<failedAttempts, lockedUntil, disk, mutex, now, bounds, ghosts>>

\* NewAuthStore: a file it cannot parse ends the program (main.go), so it
\* comes up only when both load; sessions already expired are dropped.
Restart ==
    /\ ~up /\ pinFile # Torn /\ sessionsFile # Torn
    /\ up' = TRUE
    /\ pin' = pinFile.pin /\ guestPin' = pinFile.guest
    /\ sessions' = [t \in Tokens |->
           IF sessionsFile[t] # NoSession /\ sessionsFile[t].expires > now
             THEN sessionsFile[t] ELSE NoSession]
    /\ UNCHANGED <<failedAttempts, lockedUntil, disk, mutex, now, bounds, ghosts>>

Tick ==
    /\ now < MaxTime
    /\ now' = now + 1
    /\ UNCHANGED <<up, memory, disk, mutex, bounds, ghosts>>

-----------------------------------------------------------------------------
Request ==
    \/ \E p \in PINs, name \in {"SetupPIN", "EnablePIN"} : SetupPIN(name, p)
    \/ \E p, q \in PINs : ChangePIN(p, q)
    \/ \E p, q \in PINs : SetGuestPIN(p, q)
    \/ \E p \in PINs : RemoveGuestPIN(p)
    \/ \E p \in PINs, t \in Tokens : LoginOK(p, t)
    \/ \E p \in PINs : LoginWrong(p)
    \/ \E u \in Users, t \in Tokens : CreateUserSession(u, t)
    \/ \E t \in Tokens : Logout(t)

Next ==
    \/ Request
    \/ PruneExpiredSessions
    \/ PINWritten \/ SessionsWritten \/ WriteFails
    \/ Crash \/ Restart
    \/ Tick

Spec == Init /\ [][Next]_vars

\* The clock advances, a write returns, a stopped server is started again, and
\* the hourly ticker gets the mutex it keeps asking for (a Go mutex hands itself
\* to a waiter that has starved for 1 ms, hence SF); clients owe nothing.
FairSpec ==
    /\ Spec
    /\ WF_vars(Tick) /\ SF_vars(PruneExpiredSessions)
    /\ WF_vars(PINWritten) /\ WF_vars(SessionsWritten) /\ WF_vars(Restart)

-----------------------------------------------------------------------------
(* What makes it correct                                                   *)

\* A token whose logout, or whose removal with the guest PIN, was reported as
\* done is never accepted again, whatever writes fail and however often the
\* server is restarted from its files.
RevokedStaysRevoked == \A t \in revoked : ~ValidSession(t)

\* Once a client was told that the owner PIN is set, a running server never
\* falls back to "no PIN", where any request would be let in: an interrupted
\* rewrite of pin.json keeps it from starting instead.
PINNeverForgotten == up /\ pinAcked => IsPINSet

\* As long as no write has failed and no crash has cut an operation short, a
\* session handed to a client keeps its role, user and expiry, through restarts
\* and PIN changes, until it expires or is logged out or kicked out.
IssuedIsHonoured ==
    up /\ ~degraded =>
        \A t \in Tokens :
            \/ issued[t] = NoSession \/ now >= issued[t].expires
            \/ t \in revoked \cup op.tokens
            \/ sessions[t] = issued[t]

\* Under the same condition a live guest session means that guest access is on:
\* RemoveGuestPIN and restarts leave no guest behind.
GuestsNeedGuestPIN ==
    up /\ ~degraded => (GuestTokens # {} => IsGuestPINSet)

\* Whenever the mutex is free, and under the same condition, a restart would
\* give back the same PINs and every session that has not expired.
RestartLosesNothing ==
    Ready /\ ~degraded =>
        /\ pinFile = MemoryPINs
        /\ \A t \in Tokens :
              \/ sessionsFile[t] = sessions[t]
              \/ ~Live(t) /\ sessionsFile[t].expires <= now

\* Between two successful logins, any maxFailedAttempts + 1 wrong PINs in a row
\* take at least lockoutDuration: the counter that is reset when it locks still
\* gives a bound on the rate of guesses.
GuessesAreSlow ==
    Len(wrongAt) = maxFailedAttempts + 1 =>
        wrongAt[Len(wrongAt)] - wrongAt[1] >= lockoutDuration

\* A session past its expiry does not stay in the table for ever.
ExpiredArePruned ==
    \A t \in Tokens : t \in Expired ~> ~Live(t)
=============================================================================
